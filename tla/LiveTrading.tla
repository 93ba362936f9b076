---------------------------- MODULE LiveTrading ----------------------------
(***************************************************************************)
(* Live mode: real orders, and the exchange as the authority on money.     *)
(*                                                                         *)
(* Four activities share the state.  Whoever holds the ledger lock trades  *)
(* (`job`): an entry, or an attempt of an exit.  LiveState.refresh reads   *)
(* cash, then positions, with its own awaits in between, and replaces the  *)
(* snapshot.  sync_live_state_once picks a snapshot up, waits for the      *)
(* ledger lock and copies its cash into the ledger.  The exchange matches  *)
(* orders, and may report them later than it matches them.                 *)
(*                                                                         *)
(* Cash is a number of smallest units, a price a number of units a share.  *)
(* Who copies whom and when is CopyLedger's subject: here an entry is any  *)
(* budget the sizing may produce, an exit one intent per token.            *)
(***************************************************************************)
EXTENDS Integers

CONSTANTS
  Tokens,       \* outcomes traded
  StartCash,    \* what the wallet holds when the process first starts
  Prices,       \* prices at which the exchange may match
  Payouts,      \* what a share may pay when its market resolves
  Sides,        \* which orders happen: a subset of {"BUY", "SELL"}
  Faults,       \* a subset of {"unanswered", "crash", "late"}
  Lag,          \* TRUE: balances are reported later than orders match
  MaxOrder,     \* LIVE_MAX_ORDER_USDC
  MaxLoss,      \* LIVE_MAX_DAILY_LOSS_USDC
  Tolerance,    \* LIVE_DRIFT_TOLERANCE_USDC
  MaxOrders     \* bound: orders sent

ASSUME LiveAssumption ==
  /\ Tokens # {}
  /\ StartCash \in Nat /\ MaxOrder \in Nat /\ MaxLoss \in Nat \ {0}
  /\ Tolerance \in Nat /\ MaxOrders \in Nat
  /\ Prices \subseteq Nat \ {0} /\ Payouts \subseteq Nat
  /\ Sides \subseteq {"BUY", "SELL"} /\ Faults \subseteq {"unanswered", "crash", "late"}
  /\ Lag \in BOOLEAN

VARIABLES
  exchange,   \* [cash, shares]: what has been matched for our wallet
  reported,   \* [cash, shares]: what its balance and positions calls answer
  resolved,   \* payout of each resolved outcome, NotResolved before that
  snap,       \* LiveState.snapshot
  refresh,    \* the refresh in progress: its phase and what it has read
  sync,       \* the snapshot sync_live_state_once has picked up
  ledger,     \* [cash, realized] of Account, [shares, cost] of each Position
  exit,       \* ExitIntent.remaining of each outcome
  day,        \* today's DailyRisk row
  job,        \* the order of whoever holds the ledger lock
  strays,     \* orders nobody waits for any more, which may still match
  orders      \* orders sent so far

vars == <<exchange, reported, resolved, snap, refresh, sync, ledger, exit, day,
          job, strays, orders>>

AtLeast0(n) == IF n > 0 THEN n ELSE 0
Smaller(a, b) == IF a <= b THEN a ELSE b

NotResolved == -1
Nothing == [t \in Tokens |-> 0]
Wallet == [cash |-> StartCash, shares |-> Nothing]

\* A reading of the exchange, nothing projected onto it yet.
Reading(w) == [ok |-> TRUE, fresh |-> TRUE, cash |-> w.cash, shares |-> w.shares,
               spent |-> 0, since |-> Nothing]

NoRefresh == [phase |-> "idle", spent |-> 0, since |-> Nothing, cash |-> 0, shares |-> Nothing]
NoSync == [state |-> "idle", cash |-> 0]
NoDay == [open |-> FALSE, start |-> 0]
NoJob == [side |-> "none", token |-> CHOOSE t \in Tokens : TRUE, amount |-> 0,
          matched |-> FALSE, shares |-> 0, money |-> 0]

\* start_live reads the exchange before anything trades; a live ledger starts
\* at zero and gets its cash from the first sync.
Init ==
  /\ exchange = Wallet /\ reported = Wallet
  /\ resolved = [t \in Tokens |-> NotResolved]
  /\ snap = Reading(Wallet) /\ refresh = NoRefresh /\ sync = NoSync
  /\ ledger = [cash |-> 0, realized |-> 0, shares |-> Nothing, cost |-> Nothing]
  /\ exit = Nothing /\ day = NoDay /\ job = NoJob /\ strays = {}
  /\ orders = 0

-----------------------------------------------------------------------------
(* The snapshot *)

\* Slip: a projection that may go below zero.
CashProjected(s) == s.cash - s.spent

CashNow(s) == AtLeast0(s.cash - s.spent)
SharesNow(s, t) == AtLeast0(s.shares[t] + s.since[t])

\* The drift is between the ledger's cash and the snapshot's.
Drift(cash) == LET d == cash - CashNow(snap) IN IF d < 0 THEN -d ELSE d

\* LiveState.entry_block returns None.
EntryOpen == snap.ok /\ snap.fresh /\ Drift(ledger.cash) <= Tolerance

\* Slips: a refresh that drops the whole projection, or keeps all of it.
DropAll(now, before) == 0
KeepAll(now, before) == now

\* What was noted while the read was in flight survives it.
InFlight(now, before) == now - before

RefreshStart ==
  /\ refresh.phase = "idle"
  /\ refresh' = [NoRefresh EXCEPT !.phase = "asked", !.spent = snap.spent, !.since = snap.since]
  /\ UNCHANGED <<exchange, reported, resolved, snap, sync, ledger, exit, day, job, strays, orders>>

RefreshCash ==
  /\ refresh.phase = "asked"
  /\ refresh' = [refresh EXCEPT !.phase = "cash", !.cash = reported.cash]
  /\ UNCHANGED <<exchange, reported, resolved, snap, sync, ledger, exit, day, job, strays, orders>>

RefreshPositions ==
  /\ refresh.phase = "cash"
  /\ refresh' = [refresh EXCEPT !.phase = "read", !.shares = reported.shares]
  /\ UNCHANGED <<exchange, reported, resolved, snap, sync, ledger, exit, day, job, strays, orders>>

\* A sync that waits for the lock keeps the snapshot object it picked up: once
\* that object is replaced its cash no longer moves.
RefreshFinish ==
  /\ refresh.phase = "read"
  /\ snap' = [Reading([cash |-> refresh.cash, shares |-> refresh.shares]) EXCEPT
                !.spent = InFlight(snap.spent, refresh.spent),
                !.since = [t \in Tokens |-> InFlight(snap.since[t], refresh.since[t])]]
  /\ sync' = IF sync.state = "current"
             THEN [state |-> "replaced", cash |-> CashNow(snap)] ELSE sync
  /\ refresh' = NoRefresh
  /\ UNCHANGED <<exchange, reported, resolved, ledger, exit, day, job, strays, orders>>

\* Either call failed: the numbers stay, but nobody vouches for them.
RefreshFail ==
  /\ refresh.phase \in {"asked", "cash"}
  /\ snap' = [snap EXCEPT !.ok = FALSE]
  /\ refresh' = NoRefresh
  /\ UNCHANGED <<exchange, reported, resolved, sync, ledger, exit, day, job, strays, orders>>

\* The reading is older than entry_block accepts.
Expire ==
  /\ snap.fresh
  /\ snap' = [snap EXCEPT !.fresh = FALSE]
  /\ UNCHANGED <<exchange, reported, resolved, refresh, sync, ledger, exit, day, job, strays, orders>>

-----------------------------------------------------------------------------
(* sync_live_state_once *)

\* The snapshot is picked up before the ledger lock is asked for ...
SyncStart ==
  /\ sync.state = "idle" /\ snap.ok
  /\ sync' = [NoSync EXCEPT !.state = "current"]
  /\ UNCHANGED <<exchange, reported, resolved, snap, refresh, ledger, exit, day, job, strays, orders>>

\* Slip: the drift is reported and the ledger's cash left as it was.
ReportOnly(now) == ledger.cash

\* The exchange is the authority on money.
Authority(now) == now

\* ... and its cash is written once the lock is held.
SyncWrite ==
  /\ sync.state # "idle" /\ job = NoJob
  /\ ledger' = [ledger EXCEPT
       !.cash = Authority(IF sync.state = "current" THEN CashNow(snap) ELSE sync.cash)]
  /\ sync' = NoSync
  /\ UNCHANGED <<exchange, reported, resolved, snap, refresh, exit, day, job, strays, orders>>

-----------------------------------------------------------------------------
(* Entries *)

\* An order is signed and posted with its amount; the ledger lock is held
\* until its result is booked.
Posted(side, t, amount) == [NoJob EXCEPT !.side = side, !.token = t, !.amount = amount]

\* The day's row is written by the first entry checked that day.
Today == IF day.open THEN day
         ELSE [day EXCEPT !.open = TRUE, !.start = ledger.realized]
DayLoss == Today.start - ledger.realized

\* Slip: entries are not refused while ledger and exchange disagree.
EntryTrusting == snap.ok /\ snap.fresh
MayEnter == EntryOpen

\* _daily_loss_block refuses an entry that the snapshot would have allowed.  The
\* row's flag is left out: only the message about the stop looks at it.
RefuseEntry ==
  /\ "BUY" \in Sides /\ job = NoJob /\ MayEnter /\ DayLoss >= MaxLoss
  /\ day' = Today
  /\ UNCHANGED <<exchange, reported, resolved, snap, refresh, sync, ledger, exit, job, strays, orders>>

\* An entry, or a retry of one, sends its budget: sized from the ledger's cash
\* and capped.
StartBuy(t, budget) ==
  /\ "BUY" \in Sides /\ orders < MaxOrders /\ resolved[t] = NotResolved
  /\ job = NoJob /\ MayEnter /\ DayLoss < MaxLoss
  /\ budget \in 1..Smaller(MaxOrder, ledger.cash)
  /\ day' = Today
  /\ job' = Posted("BUY", t, budget)
  /\ orders' = orders + 1
  /\ UNCHANGED <<exchange, reported, resolved, snap, refresh, sync, ledger, exit, strays>>

-----------------------------------------------------------------------------
(* Exits *)

\* Attribution is ours, the total is the exchange's: the smaller of the two.
Tradeable(t) == IF snap.ok THEN Smaller(ledger.shares[t], SharesNow(snap, t))
                           ELSE ledger.shares[t]

\* A leader sold: the exit targets what may be sold now.
AcceptExit(t) ==
  /\ "SELL" \in Sides /\ job = NoJob /\ exit[t] = 0 /\ Tradeable(t) > 0
  /\ exit' = [exit EXCEPT ![t] = Tradeable(t)]
  /\ UNCHANGED <<exchange, reported, resolved, snap, refresh, sync, ledger, day, job, strays, orders>>

\* An attempt of the exit.  With nothing tradeable it is over.
StartSell(t) ==
  /\ orders < MaxOrders /\ resolved[t] = NotResolved
  /\ job = NoJob /\ exit[t] > 0 /\ Tradeable(t) > 0
  /\ job' = Posted("SELL", t, Smaller(exit[t], Tradeable(t)))
  /\ orders' = orders + 1
  /\ UNCHANGED <<exchange, reported, resolved, snap, refresh, sync, ledger, exit, day, strays>>

CloseExit(t) ==
  /\ job = NoJob /\ exit[t] > 0 /\ Tradeable(t) = 0
  /\ exit' = [exit EXCEPT ![t] = 0]
  /\ UNCHANGED <<exchange, reported, resolved, snap, refresh, sync, ledger, day, job, strays, orders>>

-----------------------------------------------------------------------------
(* The order on the exchange, and its answer *)

Seen(w) == IF Lag THEN reported ELSE w

\* The exchange takes as much of an order as it finds, within its cap and
\* within what the wallet really holds.
Matchable(order, m, p) ==
  IF order.side = "BUY" THEN m * p <= Smaller(order.amount, exchange.cash)
  ELSE m <= Smaller(order.amount, exchange.shares[order.token])

Matched(order, m, p) ==
  IF order.side = "BUY"
  THEN [cash |-> exchange.cash - m * p,
        shares |-> [exchange.shares EXCEPT ![order.token] = @ + m]]
  ELSE [cash |-> exchange.cash + m * p,
        shares |-> [exchange.shares EXCEPT ![order.token] = @ - m]]

Match(m, p) ==
  /\ job # NoJob /\ ~job.matched /\ Matchable(job, m, p)
  /\ exchange' = Matched(job, m, p)
  /\ reported' = Seen(exchange')
  /\ job' = [job EXCEPT !.matched = TRUE, !.shares = m, !.money = m * p]
  /\ UNCHANGED <<resolved, snap, refresh, sync, ledger, exit, day, strays, orders>>

\* The sender is gone and the exchange still has the order: it matches, or
\* (m = 0) never does.
MatchStray(stray, m, p) ==
  /\ stray \in strays /\ Matchable(stray.order, m, p)
  /\ exchange' = Matched(stray.order, m, p)
  /\ reported' = Seen(exchange')
  /\ strays' = strays \ {stray}
  /\ UNCHANGED <<resolved, snap, refresh, sync, ledger, exit, day, job, orders>>

\* What the answer says was matched.  A maker pays and a taker receives, so
\* shares and money swap places with the side; here they have their names.
Told == [shares |-> job.shares, money |-> job.money]

\* note_buy and note_sell.
Noted == LET t == job.token IN
  IF job.side = "BUY"
  THEN [snap EXCEPT !.spent = @ + Told.money, !.since[t] = @ + Told.shares]
  ELSE [snap EXCEPT !.spent = @ - Told.money, !.since[t] = @ - Told.shares]

\* apply_fill, with executed_elsewhere for a buy.
Booked ==
  LET t == job.token
      cost == IF Told.shares = ledger.shares[t] THEN ledger.cost[t]
              ELSE (ledger.cost[t] * Told.shares) \div ledger.shares[t]
  IN IF job.side = "BUY"
     THEN [ledger EXCEPT !.cash = @ - Told.money, !.shares[t] = @ + Told.shares,
                         !.cost[t] = @ + Told.money]
     ELSE [ledger EXCEPT !.cash = @ + Told.money, !.shares[t] = @ - Told.shares,
                         !.cost[t] = @ - cost, !.realized = @ + Told.money - cost]

\* The result is confirmed: from the response, or from the order and its
\* trades afterwards.  An unfilled order changes nothing.
Answer ==
  /\ job.matched
  /\ IF Told.shares = 0 THEN UNCHANGED <<snap, ledger, exit>>
     ELSE /\ snap' = Noted
          /\ ledger' = Booked
          /\ exit' = IF job.side = "BUY" THEN exit
                     ELSE [exit EXCEPT ![job.token] = AtLeast0(@ - Told.shares)]
  /\ job' = NoJob
  /\ UNCHANGED <<exchange, reported, resolved, refresh, sync, day, strays, orders>>

\* What becomes of an order whose sender stops waiting: if it has not matched
\* by then it may have been lost on the way, or be on the exchange.
Abandoned ==
  IF "late" \in Faults /\ job # NoJob /\ ~job.matched
  THEN {strays, strays \cup {[number |-> orders, order |-> job]}} ELSE {strays}

\* The post raised, before or after the exchange took the order; or the order
\* was accepted, and neither it nor its trades tell what matched within the six
\* attempts.  Neither is recorded as a fill.
Unanswered ==
  /\ "unanswered" \in Faults /\ job # NoJob
  /\ job' = NoJob /\ strays' \in Abandoned
  /\ UNCHANGED <<exchange, reported, resolved, snap, refresh, sync, ledger, exit, day, orders>>

\* The exchange's balance calls catch up with its matches.
Report ==
  /\ reported # exchange
  /\ reported' = exchange
  /\ UNCHANGED <<exchange, resolved, snap, refresh, sync, ledger, exit, day, job, strays, orders>>

-----------------------------------------------------------------------------
(* Resolution, midnight, restart *)

Resolve(t, payout) ==
  /\ resolved[t] = NotResolved
  /\ resolved' = [resolved EXCEPT ![t] = payout]
  /\ UNCHANGED <<exchange, reported, snap, refresh, sync, ledger, exit, day, job, strays, orders>>

\* The bot books the result, not the cash.
Settle(t) ==
  /\ resolved[t] # NotResolved /\ job = NoJob /\ ledger.shares[t] > 0
  /\ ledger' = [ledger EXCEPT !.shares[t] = 0, !.cost[t] = 0,
                  !.realized = @ + resolved[t] * ledger.shares[t] - ledger.cost[t]]
  /\ exit' = [exit EXCEPT ![t] = 0]
  /\ UNCHANGED <<exchange, reported, resolved, snap, refresh, sync, day, job, strays, orders>>

\* The cash comes from redemption, outside the bot.
Redeem(t) ==
  /\ resolved[t] # NotResolved /\ exchange.shares[t] > 0
  /\ exchange' = [cash |-> exchange.cash + resolved[t] * exchange.shares[t],
                  shares |-> [exchange.shares EXCEPT ![t] = 0]]
  /\ reported' = Seen(exchange')
  /\ UNCHANGED <<resolved, snap, refresh, sync, ledger, exit, day, job, strays, orders>>

Midnight ==
  /\ job = NoJob /\ day # NoDay
  /\ day' = NoDay
  /\ UNCHANGED <<exchange, reported, resolved, snap, refresh, sync, ledger, exit, job, strays, orders>>

\* The process dies and comes back: the database stays, the wait for the order
\* and the snapshot do not, and the exchange is read before trading starts.
Restart ==
  /\ "crash" \in Faults
  /\ job' = NoJob /\ strays' \in Abandoned /\ refresh' = NoRefresh /\ sync' = NoSync
  /\ snap' = Reading(reported)
  /\ UNCHANGED <<exchange, reported, resolved, ledger, exit, day, orders>>

-----------------------------------------------------------------------------
Read == RefreshCash \/ RefreshPositions

Next ==
  \/ RefreshStart \/ Read \/ RefreshFinish \/ RefreshFail \/ Expire
  \/ SyncStart \/ SyncWrite
  \/ RefuseEntry \/ Answer \/ Unanswered \/ Report \/ Midnight \/ Restart
  \/ \E t \in Tokens :
       \/ \E budget \in 1..MaxOrder : StartBuy(t, budget)
       \/ AcceptExit(t) \/ StartSell(t) \/ CloseExit(t)
       \/ Settle(t) \/ Redeem(t)
       \/ \E payout \in Payouts : Resolve(t, payout)
  \/ \E m \in 0..MaxOrder, p \in Prices :
       Match(m, p) \/ \E stray \in strays : MatchStray(stray, m, p)

Spec == Init /\ [][Next]_vars

\* The loops of refresh, sync and settlement never stop; the exchange answers
\* an order and, again and again, both balance calls; it matches or drops what
\* nobody waits for, and reports what it has matched.  Nothing forces an entry,
\* a leader's sale, a fault or a payout.
Fairness ==
  /\ WF_vars(RefreshStart \/ RefreshFinish)
  /\ SF_vars(RefreshCash) /\ SF_vars(RefreshPositions)
  /\ SF_vars(SyncStart) /\ SF_vars(SyncWrite)
  /\ WF_vars(Answer \/ \E m \in 0..MaxOrder, p \in Prices : Match(m, p))
  /\ WF_vars(\E m \in 0..MaxOrder, p \in Prices, stray \in strays : MatchStray(stray, m, p))
  /\ WF_vars(Report)
FairSpec == Spec /\ Fairness

-----------------------------------------------------------------------------
(* Properties *)

Amounts == [Tokens -> Int]
Orders == [side : {"none", "BUY", "SELL"}, token : Tokens, amount : Nat,
           matched : BOOLEAN, shares : Nat, money : Nat]

\* Every variable keeps its type; neither the wallet nor a position of the
\* ledger is ever negative, and the ledger's cash is not spent twice.
TypeOK ==
  /\ exchange \in [cash : Nat, shares : [Tokens -> Nat]]
  /\ reported \in [cash : Nat, shares : [Tokens -> Nat]]
  /\ resolved \in [Tokens -> Payouts \cup {NotResolved}]
  /\ snap \in [ok : BOOLEAN, fresh : BOOLEAN, cash : Nat, shares : [Tokens -> Nat],
               spent : Int, since : Amounts]
  /\ refresh \in [phase : {"idle", "asked", "cash", "read"}, spent : Int, since : Amounts,
                  cash : Nat, shares : [Tokens -> Nat]]
  /\ sync \in [state : {"idle", "current", "replaced"}, cash : Nat]
  /\ ledger \in [cash : Nat, realized : Int, shares : [Tokens -> Nat], cost : [Tokens -> Nat]]
  /\ exit \in [Tokens -> Nat]
  /\ day \in [open : BOOLEAN, start : Int]
  /\ job \in Orders /\ strays \subseteq [number : 0..MaxOrders, order : Orders]
  /\ orders \in 0..MaxOrders

\* No entry is sent for more than the wallet holds, beyond the tolerated drift,
\* if every number of the snapshot is what the exchange last reported or our
\* own spend since then (live_state.py:7-8): a fill noted while a refresh is in
\* flight would count once.
BudgetCovered ==
  job.side = "BUY" /\ ~job.matched => job.amount <= exchange.cash + Tolerance

\* Whatever was lost on the way, once orders stop the ledger's cash comes to
\* be the exchange's and stays so.
CashReconciled == <>[](ledger.cash = exchange.cash)

\* Entries are never blocked for good by a failed read, by an old reading or
\* by a drift: again and again the interlock opens.
EntriesResume == []<>EntryOpen

=============================================================================
