------------------------- MODULE LiveTrading_proof -------------------------
(***************************************************************************)
(* What live trading may rely on, for every wallet, price, order size and  *)
(* number of orders, with sales, late balances, lost answers, late orders  *)
(* and crashes.                                                            *)
(*                                                                         *)
(* First the types.  That no number of the ledger turns negative is not    *)
(* local to a step: an order is bounded by the ledger when it is sent, and *)
(* while it is out nothing else may take from the ledger, because its      *)
(* sender holds the lock.                                                  *)
(*                                                                         *)
(* Then how wrong the snapshot may be.  The argument is about one sum: the *)
(* cash the exchange holds, plus what a reading shows beyond it, plus what *)
(* matched after the reading and is not noted yet.  The snapshot, and      *)
(* every snapshot a refresh in progress may still install, stays at or     *)
(* below it.                                                               *)
(***************************************************************************)
EXTENDS LiveExposure, Sums_proof

Counts == [Tokens -> Nat]

\* What is out is covered by the ledger, and what was matched by the order.
OrderCovered ==
  /\ job.side = "none" => job = NoJob
  /\ job.side = "BUY" => /\ job.amount <= ledger.cash
                         /\ job.matched => job.money <= job.amount
  /\ job.side = "SELL" => /\ job.amount <= ledger.shares[job.token]
                          /\ job.matched => job.shares <= job.amount

TypesInv == TypeOK /\ OrderCovered

LEMMA NoJobType ==
  /\ NoJob \in Orders
  /\ NoJob.side = "none" /\ ~NoJob.matched
<1>1. (CHOOSE t \in Tokens : TRUE) \in Tokens
  BY LiveAssumption
<1> QED BY <1>1 DEF NoJob, Orders

LEMMA ReadingTypes ==
  /\ Nothing \in Counts /\ Nothing \in Amounts /\ Counts \subseteq Amounts
  /\ NoRefresh \in [phase : {"idle", "asked", "cash", "read"}, spent : Int, since : Amounts,
                    cash : Nat, shares : Counts]
  /\ NoSync \in [state : {"idle", "current", "replaced"}, cash : Nat]
  /\ NoDay \in [open : BOOLEAN, start : Int]
  /\ \A w \in [cash : Nat, shares : Counts] :
       Reading(w) \in [ok : BOOLEAN, fresh : BOOLEAN, cash : Nat, shares : Counts,
                       spent : Int, since : Amounts]
<1>1. Nothing \in Counts /\ Nothing \in Amounts /\ Counts \subseteq Amounts
  BY DEF Nothing, Counts, Amounts
<1>2. NoDay \in [open : BOOLEAN, start : Int]
  BY DEF NoDay
<1> QED BY <1>1, <1>2 DEF NoRefresh, NoSync, Reading

LEMMA TypesStart == ASSUME Init PROVE TypesInv
<1>1. Wallet \in [cash : Nat, shares : Counts]
  BY ReadingTypes, LiveAssumption DEF Wallet
<1>2. /\ exchange = Wallet /\ reported = Wallet /\ snap = Reading(Wallet)
      /\ refresh = NoRefresh /\ sync = NoSync /\ exit = Nothing /\ day = NoDay /\ job = NoJob
      /\ resolved \in [Tokens -> Payouts \cup {NotResolved}]
  BY DEF Init
<1>3. ledger \in [cash : Nat, realized : Int, shares : Counts, cost : Counts]
  BY ReadingTypes DEF Init
<1>4. orders \in 0..MaxOrders
  BY LiveAssumption DEF Init
<1>5. strays = {}
  BY DEF Init
<1>0. TypeOK
  BY <1>1, <1>2, <1>3, <1>4, <1>5, ReadingTypes, NoJobType DEF TypeOK, Counts
<1>6. OrderCovered
  BY <1>2, NoJobType DEF OrderCovered
<1> QED BY <1>0, <1>6 DEF TypesInv

\* What the conditions and results of the actions are made of.
LEMMA ReadTypes ==
  ASSUME TypeOK
  PROVE  /\ CashNow(snap) \in Nat
         /\ \A t \in Tokens : SharesNow(snap, t) \in Nat
         /\ \A t \in Tokens : Tradeable(t) \in Nat /\ Tradeable(t) <= ledger.shares[t]
<1>1. snap.cash \in Nat /\ snap.spent \in Int
      /\ \A t \in Tokens : snap.shares[t] \in Nat /\ snap.since[t] \in Int
  BY DEF TypeOK, Amounts
<1>2. \A t \in Tokens : ledger.shares[t] \in Nat
  BY DEF TypeOK
<1>3. ASSUME NEW t \in Tokens PROVE SharesNow(snap, t) \in Nat
  <2> DEFINE now == snap.shares[t] + snap.since[t]
  <2>1. now \in Int
    BY <1>1
  <2> HIDE DEF now
  <2>2. AtLeast0(now) \in Nat
    BY <2>1 DEF AtLeast0
  <2> QED BY <2>2 DEF SharesNow, now
<1>4. CashNow(snap) \in Nat
  BY <1>1 DEF CashNow, AtLeast0
<1> QED BY <1>2, <1>3, <1>4 DEF Tradeable, Smaller

LEMMA RefreshTypes ==
  ASSUME TypesInv, RefreshStart \/ Read \/ RefreshFinish \/ RefreshFail \/ Expire
  PROVE  TypesInv'
<1>1. TypeOK /\ OrderCovered
  BY DEF TypesInv
<1>2. UNCHANGED <<exchange, reported, resolved, ledger, exit, day, job, strays, orders>>
  BY DEF RefreshStart, Read, RefreshCash, RefreshPositions, RefreshFinish, RefreshFail, Expire
<1>3. OrderCovered'
  BY <1>1, <1>2 DEF OrderCovered
<1>s. snap \in [ok : BOOLEAN, fresh : BOOLEAN, cash : Nat, shares : Counts,
                spent : Int, since : Amounts]
  BY <1>1 DEF TypeOK, Counts
<1>r. refresh \in [phase : {"idle", "asked", "cash", "read"}, spent : Int, since : Amounts,
                   cash : Nat, shares : Counts]
  BY <1>1 DEF TypeOK, Counts
<1>w. reported.cash \in Nat /\ reported.shares \in Counts
  BY <1>1 DEF TypeOK, Counts
<1>4. snap' \in [ok : BOOLEAN, fresh : BOOLEAN, cash : Nat, shares : Counts,
                 spent : Int, since : Amounts]
  <2>1. CASE RefreshFinish
    <3> DEFINE since == [t \in Tokens |-> InFlight(snap.since[t], refresh.since[t])]
    <3>1. since \in Amounts
      BY <1>s, <1>r DEF Amounts, InFlight
    <3>2. snap' = [ok |-> TRUE, fresh |-> TRUE, cash |-> refresh.cash, shares |-> refresh.shares,
                   spent |-> snap.spent - refresh.spent, since |-> since]
      BY <2>1 DEF RefreshFinish, Reading, InFlight
    <3>3. snap.spent - refresh.spent \in Int
      BY <1>s, <1>r
    <3> HIDE DEF since
    <3> QED BY <1>r, <3>1, <3>2, <3>3
  <2>2. CASE RefreshFail \/ Expire
    BY <1>s, <2>2 DEF RefreshFail, Expire
  <2>3. CASE RefreshStart \/ Read
    BY <1>s, <2>3 DEF RefreshStart, Read, RefreshCash, RefreshPositions
  <2> QED BY <2>1, <2>2, <2>3
<1>5. refresh' \in [phase : {"idle", "asked", "cash", "read"}, spent : Int, since : Amounts,
                    cash : Nat, shares : Counts]
  <2>1. CASE RefreshStart
    <3>1. refresh' = [phase |-> "asked", spent |-> snap.spent, since |-> snap.since,
                      cash |-> 0, shares |-> Nothing]
      BY <2>1 DEF RefreshStart, NoRefresh
    <3> QED BY <1>s, <3>1, ReadingTypes
  <2>2. CASE Read
    BY <1>r, <1>w, <2>2 DEF Read, RefreshCash, RefreshPositions
  <2>3. CASE RefreshFinish \/ RefreshFail
    BY <2>3, ReadingTypes DEF RefreshFinish, RefreshFail
  <2>4. CASE Expire
    BY <1>r, <2>4 DEF Expire
  <2> QED BY <2>1, <2>2, <2>3, <2>4
<1>6. sync' \in [state : {"idle", "current", "replaced"}, cash : Nat]
  <2>1. sync \in [state : {"idle", "current", "replaced"}, cash : Nat]
    BY <1>1 DEF TypeOK
  <2>2. CashNow(snap) \in Nat
    BY <1>1, ReadTypes
  <2> QED BY <2>1, <2>2 DEF RefreshStart, Read, RefreshCash, RefreshPositions, RefreshFinish,
                RefreshFail, Expire
<1>7. TypeOK'
  BY <1>1, <1>2, <1>4, <1>5, <1>6 DEF TypeOK, Counts
<1> QED BY <1>3, <1>7 DEF TypesInv

LEMMA SyncTypes == ASSUME TypesInv, SyncStart \/ SyncWrite PROVE TypesInv'
<1>1. TypeOK /\ OrderCovered /\ CashNow(snap) \in Nat
  BY ReadTypes DEF TypesInv
<1>2. UNCHANGED <<exchange, reported, resolved, snap, refresh, exit, day, job, strays, orders>>
  BY DEF SyncStart, SyncWrite
<1>3. CASE SyncStart
  <2>1. ledger' = ledger /\ sync' \in [state : {"idle", "current", "replaced"}, cash : Nat]
    BY <1>3 DEF SyncStart, NoSync
  <2> QED BY <1>1, <1>2, <2>1 DEF TypesInv, TypeOK, OrderCovered
<1>4. CASE SyncWrite
  <2>1. sync.cash \in Nat /\ ledger \in [cash : Nat, realized : Int, shares : Counts, cost : Counts]
    BY <1>1 DEF TypeOK, Counts
  <2>2. ledger' \in [cash : Nat, realized : Int, shares : Counts, cost : Counts]
    BY <1>1, <1>4, <2>1 DEF SyncWrite, Authority
  <2>3. sync' \in [state : {"idle", "current", "replaced"}, cash : Nat]
    BY <1>4, ReadingTypes DEF SyncWrite
  <2>4. OrderCovered'
    BY <1>2, <1>4, NoJobType DEF SyncWrite, OrderCovered
  <2> QED BY <1>1, <1>2, <2>2, <2>3, <2>4 DEF TypesInv, TypeOK, Counts
<1> QED BY <1>3, <1>4

\* An order is sent for no more than the ledger has.
LEMMA SendTypes ==
  ASSUME TypesInv, NEW t \in Tokens,
         StartSell(t) \/ \E budget \in 1..MaxOrder : StartBuy(t, budget)
  PROVE  TypesInv'
<1>1. TypeOK /\ OrderCovered /\ MaxOrder \in Nat /\ MaxOrders \in Nat
  BY LiveAssumption DEF TypesInv
<1>2. UNCHANGED <<exchange, reported, resolved, snap, refresh, sync, ledger, exit, strays>>
  BY DEF StartSell, StartBuy
<1>3. orders' \in 0..MaxOrders
  <2>1. orders \in 0..MaxOrders /\ orders < MaxOrders /\ orders' = orders + 1
    BY <1>1 DEF StartSell, StartBuy, TypeOK
  <2> QED BY <1>1, <2>1
<1>4. day' \in [open : BOOLEAN, start : Int]
  <2>1. ledger.realized \in Int /\ day \in [open : BOOLEAN, start : Int]
    BY <1>1 DEF TypeOK
  <2>2. Today \in [open : BOOLEAN, start : Int]
    BY <2>1 DEF Today
  <2> QED BY <2>1, <2>2 DEF StartSell, StartBuy
<1>5. ASSUME NEW side \in {"BUY", "SELL"}, NEW amount \in Nat, job' = Posted(side, t, amount),
             side = "BUY" => amount <= ledger.cash,
             side = "SELL" => amount <= ledger.shares[t]
      PROVE  TypesInv'
  <2>1. /\ job' \in Orders
        /\ job'.side = side /\ job'.token = t /\ job'.amount = amount /\ ~job'.matched
    BY <1>5, NoJobType DEF Posted, Orders
  <2>2. OrderCovered'
    BY <1>2, <1>5, <2>1 DEF OrderCovered
  <2>3. TypeOK'
    BY <1>1, <1>2, <1>3, <1>4, <2>1 DEF TypeOK
  <2> QED BY <2>2, <2>3 DEF TypesInv
<1>6. CASE StartSell(t)
  <2> DEFINE amount == Smaller(exit[t], Tradeable(t))
  <2>1. amount \in Nat /\ amount <= ledger.shares[t]
    <3>1. exit[t] \in Nat /\ Tradeable(t) \in Nat /\ Tradeable(t) <= ledger.shares[t]
          /\ ledger.shares[t] \in Nat
      BY <1>1, ReadTypes DEF TypeOK
    <3> QED BY <3>1 DEF Smaller
  <2>2. job' = Posted("SELL", t, amount)
    BY <1>6 DEF StartSell
  <2> HIDE DEF amount
  <2> QED BY <1>5, <2>1, <2>2
<1>7. ASSUME NEW budget \in 1..MaxOrder, StartBuy(t, budget) PROVE TypesInv'
  <2>1. budget \in Nat /\ budget <= ledger.cash
    <3>1. ledger.cash \in Nat /\ budget \in 1..Smaller(MaxOrder, ledger.cash)
      BY <1>1, <1>7 DEF TypeOK, StartBuy
    <3> QED BY <1>1, <3>1 DEF Smaller
  <2>2. job' = Posted("BUY", t, budget)
    BY <1>7 DEF StartBuy
  <2> QED BY <1>5, <2>1, <2>2
<1> QED BY <1>6, <1>7

\* An exit is accepted, or found to have nothing left to sell.
LEMMA ExitTypes ==
  ASSUME TypesInv, NEW t \in Tokens, AcceptExit(t) \/ CloseExit(t)
  PROVE  TypesInv'
<1>1. TypeOK /\ OrderCovered /\ Tradeable(t) \in Nat
  BY ReadTypes DEF TypesInv
<1>2. UNCHANGED <<exchange, reported, resolved, snap, refresh, sync, ledger, day, job, strays, orders>>
  BY DEF AcceptExit, CloseExit
<1>3. exit' \in [Tokens -> Nat]
  BY <1>1 DEF AcceptExit, CloseExit, TypeOK
<1> QED BY <1>1, <1>2, <1>3 DEF TypesInv, TypeOK, OrderCovered

\* The exchange matches no more than an order asks for and the wallet has.
LEMMA WalletAfter ==
  ASSUME TypeOK, NEW order \in Orders, NEW m \in Nat, NEW p \in Nat, Matchable(order, m, p)
  PROVE  /\ Matched(order, m, p) \in [cash : Nat, shares : Counts]
         /\ order.side = "BUY" => Matched(order, m, p).cash = exchange.cash - m * p
         /\ order.side # "BUY" => Matched(order, m, p).cash = exchange.cash + m * p
         /\ order.side = "BUY" => m * p <= order.amount
         /\ order.side # "BUY" => m <= order.amount
<1> DEFINE t == order.token
           money == m * p
<1>1. money \in Nat
  BY Products
<1>2. /\ exchange.cash \in Nat /\ exchange.shares \in Counts /\ t \in Tokens
      /\ order.amount \in Nat /\ exchange.shares[t] \in Nat
  BY DEF TypeOK, Counts, Orders
<1>3. /\ order.side = "BUY" => /\ money <= Smaller(order.amount, exchange.cash)
                               /\ Matched(order, m, p) =
                                    [cash |-> exchange.cash - money,
                                     shares |-> [exchange.shares EXCEPT ![t] = @ + m]]
      /\ order.side # "BUY" => /\ m <= Smaller(order.amount, exchange.shares[t])
                               /\ Matched(order, m, p) =
                                    [cash |-> exchange.cash + money,
                                     shares |-> [exchange.shares EXCEPT ![t] = @ - m]]
  BY DEF Matchable, Matched
<1> HIDE DEF money, t
<1>4. CASE order.side = "BUY"
  <2>1. money <= order.amount /\ exchange.cash - money \in Nat
    BY <1>1, <1>2, <1>3, <1>4 DEF Smaller
  <2>2. [exchange.shares EXCEPT ![t] = @ + m] \in Counts
    BY <1>2 DEF Counts
  <2> QED BY <1>3, <1>4, <2>1, <2>2 DEF money
<1>5. CASE order.side # "BUY"
  <2>1. m <= order.amount /\ exchange.shares[t] - m \in Nat /\ exchange.cash + money \in Nat
    BY <1>1, <1>2, <1>3, <1>5 DEF Smaller
  <2>2. [exchange.shares EXCEPT ![t] = @ - m] \in Counts
    BY <1>2, <2>1 DEF Counts
  <2> QED BY <1>3, <1>5, <2>1, <2>2 DEF money
<1> QED BY <1>4, <1>5

LEMMA MatchTypes ==
  ASSUME TypesInv, NEW m \in 0..MaxOrder, NEW p \in Prices, Match(m, p)
  PROVE  TypesInv'
<1>1. TypeOK /\ OrderCovered /\ m \in Nat /\ p \in Nat /\ m * p \in Nat
  BY LiveAssumption, Products DEF TypesInv
<1>2. /\ job # NoJob /\ ~job.matched /\ Matchable(job, m, p)
      /\ exchange' = Matched(job, m, p) /\ reported' = Seen(exchange')
      /\ job' = [job EXCEPT !.matched = TRUE, !.shares = m, !.money = m * p]
      /\ UNCHANGED <<resolved, snap, refresh, sync, ledger, exit, day, strays, orders>>
  BY DEF Match
<1>3. job \in Orders
  BY <1>1 DEF TypeOK
<1>4. exchange' \in [cash : Nat, shares : Counts]
      /\ (job.side = "BUY" => m * p <= job.amount) /\ (job.side # "BUY" => m <= job.amount)
  BY <1>1, <1>2, <1>3, WalletAfter
<1>5. reported' \in [cash : Nat, shares : Counts]
  BY <1>1, <1>2, <1>4 DEF Seen, TypeOK, Counts
<1> DEFINE money == m * p
<1> HIDE DEF money
<1>6. /\ job' \in Orders
      /\ job'.side = job.side /\ job'.token = job.token /\ job'.amount = job.amount
      /\ job'.shares = m /\ job'.money = m * p
  <2>1. money \in Nat /\ job' = [job EXCEPT !.matched = TRUE, !.shares = m, !.money = money]
    BY <1>1, <1>2 DEF money
  <2> QED BY <1>1, <1>3, <2>1 DEF Orders, money
<1>7. OrderCovered'
  BY <1>1, <1>2, <1>4, <1>6 DEF OrderCovered
<1> QED BY <1>1, <1>2, <1>4, <1>5, <1>6, <1>7 DEF TypesInv, TypeOK, Counts

LEMMA StrayTypes ==
  ASSUME TypesInv, NEW stray \in strays, NEW m \in 0..MaxOrder, NEW p \in Prices,
         MatchStray(stray, m, p)
  PROVE  TypesInv'
<1>1. TypeOK /\ OrderCovered /\ m \in Nat /\ p \in Nat /\ stray.order \in Orders
  BY LiveAssumption DEF TypesInv, TypeOK
<1>2. /\ Matchable(stray.order, m, p) /\ exchange' = Matched(stray.order, m, p)
      /\ reported' = Seen(exchange') /\ strays' \subseteq strays
      /\ UNCHANGED <<resolved, snap, refresh, sync, ledger, exit, day, job, orders>>
  BY DEF MatchStray
<1>3. exchange' \in [cash : Nat, shares : Counts]
  BY <1>1, <1>2, WalletAfter
<1>4. reported' \in [cash : Nat, shares : Counts]
  BY <1>1, <1>2, <1>3 DEF Seen, TypeOK, Counts
<1> QED BY <1>1, <1>2, <1>3, <1>4 DEF TypesInv, TypeOK, OrderCovered, Counts

\* What is booked was covered when the order was sent, and still is.
LEMMA AnswerTypes == ASSUME TypesInv, Answer PROVE TypesInv'
<1> DEFINE t == job.token
<1>1. TypeOK /\ OrderCovered /\ job.matched /\ job' = NoJob
      /\ UNCHANGED <<exchange, reported, resolved, refresh, sync, day, strays, orders>>
  BY DEF TypesInv, Answer
<1>2. OrderCovered'
  BY <1>1, NoJobType DEF OrderCovered
<1>3. CASE job.shares = 0
  <2>1. UNCHANGED <<snap, ledger, exit>>
    BY <1>3 DEF Answer, Told
  <2> QED BY <1>1, <1>2, <2>1, NoJobType DEF TypesInv, TypeOK
<1>4. CASE job.shares # 0
  <2>1. /\ job.side \in {"none", "BUY", "SELL"} /\ t \in Tokens
        /\ job.amount \in Nat /\ job.shares \in Nat \ {0} /\ job.money \in Nat
    BY <1>1, <1>4 DEF TypeOK, Orders
  <2>2. job.side \in {"BUY", "SELL"}
    BY <1>1, <2>1, NoJobType DEF OrderCovered
  <2>3. /\ ledger \in [cash : Nat, realized : Int, shares : Counts, cost : Counts]
        /\ ledger.cash \in Nat /\ ledger.realized \in Int
        /\ ledger.shares \in Counts /\ ledger.cost \in Counts
        /\ ledger.shares[t] \in Nat /\ ledger.cost[t] \in Nat
    <3>1. ledger \in [cash : Nat, realized : Int, shares : Counts, cost : Counts]
      BY <1>1 DEF TypeOK, Counts
    <3> QED BY <2>1, <3>1 DEF Counts
  <2>4. /\ snap \in [ok : BOOLEAN, fresh : BOOLEAN, cash : Nat, shares : Counts,
                     spent : Int, since : Amounts]
        /\ snap.spent \in Int /\ snap.since \in Amounts /\ snap.since[t] \in Int
    <3>1. snap \in [ok : BOOLEAN, fresh : BOOLEAN, cash : Nat, shares : Counts,
                    spent : Int, since : Amounts]
      BY <1>1 DEF TypeOK, Counts
    <3> QED BY <2>1, <3>1 DEF Amounts
  <2>5. exit \in Counts /\ exit[t] \in Nat
    BY <1>1, <2>1 DEF TypeOK, Counts
  <2>6. snap' = Noted /\ ledger' = Booked
        /\ exit' = IF job.side = "BUY" THEN exit
                   ELSE [exit EXCEPT ![t] = AtLeast0(@ - job.shares)]
    BY <1>4 DEF Answer, Told
  <2>7. exit' \in Counts
    BY <2>1, <2>5, <2>6 DEF Counts, AtLeast0
  <2>8. snap' \in [ok : BOOLEAN, fresh : BOOLEAN, cash : Nat, shares : Counts,
                   spent : Int, since : Amounts]
    <3>1. \A n \in Int : [snap.since EXCEPT ![t] = n] \in Amounts
      BY <2>4 DEF Amounts
    <3>2. ASSUME NEW a \in Int, NEW b \in Int
          PROVE  [snap EXCEPT !.spent = a, !.since = [snap.since EXCEPT ![t] = b]] \in
                    [ok : BOOLEAN, fresh : BOOLEAN, cash : Nat, shares : Counts,
                     spent : Int, since : Amounts]
      BY <2>4, <3>1
    <3>3. \/ snap' = [snap EXCEPT !.spent = snap.spent + job.money,
                        !.since = [snap.since EXCEPT ![t] = snap.since[t] + job.shares]]
          \/ snap' = [snap EXCEPT !.spent = snap.spent - job.money,
                        !.since = [snap.since EXCEPT ![t] = snap.since[t] - job.shares]]
      BY <2>6 DEF Noted, Told
    <3>4. /\ snap.spent + job.money \in Int /\ snap.spent - job.money \in Int
          /\ snap.since[t] + job.shares \in Int /\ snap.since[t] - job.shares \in Int
      BY <2>1, <2>4
    <3> QED BY <3>2, <3>3, <3>4
  <2>9. ledger' \in [cash : Nat, realized : Int, shares : Counts, cost : Counts]
    <3>1. \A n \in Nat : /\ [ledger.shares EXCEPT ![t] = n] \in Counts
                         /\ [ledger.cost EXCEPT ![t] = n] \in Counts
      BY <2>3 DEF Counts
    <3>2. ASSUME NEW a \in Nat, NEW b \in Nat, NEW c \in Nat, NEW r \in Int
          PROVE  [ledger EXCEPT !.cash = a, !.shares = [ledger.shares EXCEPT ![t] = b],
                                !.cost = [ledger.cost EXCEPT ![t] = c], !.realized = r] \in
                    [cash : Nat, realized : Int, shares : Counts, cost : Counts]
      BY <2>3, <3>1
    <3>3. CASE job.side = "BUY"
      <4>1. ledger' = [ledger EXCEPT !.cash = ledger.cash - job.money,
                         !.shares = [ledger.shares EXCEPT ![t] = ledger.shares[t] + job.shares],
                         !.cost = [ledger.cost EXCEPT ![t] = ledger.cost[t] + job.money],
                         !.realized = ledger.realized]
        BY <2>3, <2>6, <3>3 DEF Booked, Told
      <4>2. job.money <= ledger.cash
        BY <1>1, <2>1, <2>3, <3>3 DEF OrderCovered
      <4>3. /\ ledger.cash - job.money \in Nat /\ ledger.shares[t] + job.shares \in Nat
            /\ ledger.cost[t] + job.money \in Nat
        BY <2>1, <2>3, <4>2
      <4> QED BY <2>3, <3>2, <4>1, <4>3
    <3>4. CASE job.side = "SELL"
      <4> DEFINE cost == IF job.shares = ledger.shares[t] THEN ledger.cost[t]
                         ELSE (ledger.cost[t] * job.shares) \div ledger.shares[t]
      <4>1. ledger' = [ledger EXCEPT !.cash = ledger.cash + job.money,
                         !.shares = [ledger.shares EXCEPT ![t] = ledger.shares[t] - job.shares],
                         !.cost = [ledger.cost EXCEPT ![t] = ledger.cost[t] - cost],
                         !.realized = ledger.realized + job.money - cost]
        BY <3>4, <2>6 DEF Booked, Told
      <4>2. job.shares <= ledger.shares[t]
        BY <1>1, <2>1, <2>3, <3>4 DEF OrderCovered
      <4>3. ledger.shares[t] \in Nat \ {0} /\ job.shares \in 0..ledger.shares[t]
        BY <2>1, <2>3, <4>2
      <4>4. /\ (ledger.cost[t] * job.shares) \div ledger.shares[t] \in Nat
            /\ (ledger.cost[t] * job.shares) \div ledger.shares[t] <= ledger.cost[t]
        BY <2>3, <4>3, PartAtMost
      <4>5. cost \in Nat /\ cost <= ledger.cost[t]
        BY <2>3, <4>4
      <4> HIDE DEF cost
      <4> DEFINE a == ledger.cash + job.money
                 b == ledger.shares[t] - job.shares
                 c == ledger.cost[t] - cost
                 r == ledger.realized + job.money - cost
      <4>6. a \in Nat /\ b \in Nat /\ c \in Nat /\ r \in Int
        BY <2>1, <2>3, <4>2, <4>5
      <4>7. ledger' = [ledger EXCEPT !.cash = a, !.shares = [ledger.shares EXCEPT ![t] = b],
                                     !.cost = [ledger.cost EXCEPT ![t] = c], !.realized = r]
        BY <4>1
      <4> HIDE DEF a, b, c, r
      <4> QED BY <3>2, <4>6, <4>7
    <3> QED BY <2>2, <3>3, <3>4
  <2> QED BY <1>1, <1>2, <2>7, <2>8, <2>9, NoJobType DEF TypesInv, TypeOK, Counts
<1> QED BY <1>3, <1>4

LEMMA ResolutionTypes ==
  ASSUME TypesInv, NEW t \in Tokens,
         Settle(t) \/ Redeem(t) \/ \E payout \in Payouts : Resolve(t, payout)
  PROVE  TypesInv'
<1>1. TypeOK /\ OrderCovered /\ Payouts \subseteq Nat
  BY LiveAssumption DEF TypesInv
<1>2. UNCHANGED <<snap, refresh, sync, day, job, strays, orders>>
  BY DEF Settle, Redeem, Resolve
<1>3. resolved[t] # NotResolved => resolved[t] \in Nat
  <2>1. resolved[t] \in Payouts \cup {NotResolved}
    BY <1>1 DEF TypeOK
  <2> QED BY <1>1, <2>1
<1>4. CASE Settle(t)
  <2>1. /\ ledger \in [cash : Nat, realized : Int, shares : Counts, cost : Counts]
        /\ ledger.cash \in Nat /\ ledger.realized \in Int
        /\ ledger.shares \in Counts /\ ledger.cost \in Counts
        /\ ledger.shares[t] \in Nat /\ ledger.cost[t] \in Nat
    <3>1. ledger \in [cash : Nat, realized : Int, shares : Counts, cost : Counts]
      BY <1>1 DEF TypeOK, Counts
    <3> QED BY <3>1 DEF Counts
  <2> DEFINE paid == resolved[t] * ledger.shares[t]
  <2>2. paid \in Nat
    BY <1>3, <1>4, <2>1, Products DEF Settle
  <2>3. ledger' = [ledger EXCEPT !.shares = [ledger.shares EXCEPT ![t] = 0],
                                 !.cost = [ledger.cost EXCEPT ![t] = 0],
                                 !.realized = ledger.realized + paid - ledger.cost[t]]
    BY <1>4 DEF Settle
  <2> HIDE DEF paid
  <2>4. /\ [ledger.shares EXCEPT ![t] = 0] \in Counts /\ [ledger.cost EXCEPT ![t] = 0] \in Counts
        /\ ledger.realized + paid - ledger.cost[t] \in Int
    BY <2>1, <2>2 DEF Counts
  <2>5. ledger' \in [cash : Nat, realized : Int, shares : Counts, cost : Counts]
    BY <2>1, <2>3, <2>4
  <2>6. exit' \in Counts
    BY <1>1, <1>4 DEF Settle, TypeOK, Counts
  <2>7. UNCHANGED <<exchange, reported, resolved>> /\ job = NoJob
    BY <1>4 DEF Settle
  <2>8. OrderCovered'
    BY <1>2, <2>7, NoJobType DEF OrderCovered
  <2> QED BY <1>1, <1>2, <2>5, <2>6, <2>7, <2>8 DEF TypesInv, TypeOK, Counts
<1>5. CASE Redeem(t)
  <2>1. exchange.cash \in Nat /\ exchange.shares \in Counts /\ exchange.shares[t] \in Nat
    BY <1>1 DEF TypeOK, Counts
  <2>2. exchange.cash + resolved[t] * exchange.shares[t] \in Nat
    <3>1. resolved[t] * exchange.shares[t] \in Nat
      BY <1>3, <1>5, <2>1, Products DEF Redeem
    <3> QED BY <2>1, <3>1
  <2>3. [exchange.shares EXCEPT ![t] = 0] \in Counts
    BY <2>1 DEF Counts
  <2>4. exchange' \in [cash : Nat, shares : Counts]
    BY <1>5, <2>2, <2>3 DEF Redeem
  <2>5. reported' \in [cash : Nat, shares : Counts]
    BY <1>1, <1>5, <2>4 DEF Redeem, Seen, TypeOK, Counts
  <2>6. UNCHANGED <<resolved, ledger, exit>>
    BY <1>5 DEF Redeem
  <2> QED BY <1>1, <1>2, <2>4, <2>5, <2>6 DEF TypesInv, TypeOK, Counts, OrderCovered
<1>6. CASE \E payout \in Payouts : Resolve(t, payout)
  <2>1. resolved' \in [Tokens -> Payouts \cup {NotResolved}]
    BY <1>1, <1>6 DEF Resolve, TypeOK
  <2>2. UNCHANGED <<exchange, reported, ledger, exit>>
    BY <1>6 DEF Resolve
  <2> QED BY <1>1, <1>2, <2>1, <2>2 DEF TypesInv, TypeOK, OrderCovered
<1> QED BY <1>4, <1>5, <1>6

\* A refused entry, midnight, a lost answer, a late balance and a restart.
LEMMA OtherTypes ==
  ASSUME TypesInv, RefuseEntry \/ Midnight \/ Unanswered \/ Report \/ Restart
  PROVE  TypesInv'
<1>1. TypeOK /\ OrderCovered /\ MaxOrders \in Nat
  BY LiveAssumption DEF TypesInv
<1>2. UNCHANGED <<exchange, resolved, ledger, exit, orders>>
  BY DEF RefuseEntry, Midnight, Unanswered, Report, Restart
<1>3. CASE RefuseEntry \/ Midnight
  <2>1. ledger.realized \in Int /\ day \in [open : BOOLEAN, start : Int]
    BY <1>1 DEF TypeOK
  <2>2. day' \in [open : BOOLEAN, start : Int]
    BY <1>3, <2>1, ReadingTypes DEF RefuseEntry, Midnight, Today
  <2>3. UNCHANGED <<reported, snap, refresh, sync, job, strays>>
    BY <1>3 DEF RefuseEntry, Midnight
  <2> QED BY <1>1, <1>2, <2>2, <2>3 DEF TypesInv, TypeOK, OrderCovered
<1>4. ASSUME strays' \in Abandoned PROVE strays' \subseteq [number : 0..MaxOrders, order : Orders]
  <2>1. /\ strays \subseteq [number : 0..MaxOrders, order : Orders]
        /\ [number |-> orders, order |-> job] \in [number : 0..MaxOrders, order : Orders]
    BY <1>1 DEF TypeOK
  <2> QED BY <1>4, <2>1 DEF Abandoned
<1>5. CASE Unanswered
  <2>1. job' = NoJob /\ strays' \in Abandoned
        /\ UNCHANGED <<reported, snap, refresh, sync, day>>
    BY <1>5 DEF Unanswered
  <2> QED BY <1>1, <1>2, <1>4, <2>1, NoJobType DEF TypesInv, TypeOK, OrderCovered
<1>6. CASE Report
  <2>1. reported' = exchange /\ UNCHANGED <<snap, refresh, sync, day, job, strays>>
    BY <1>6 DEF Report
  <2> QED BY <1>1, <1>2, <2>1 DEF TypesInv, TypeOK, OrderCovered
<1>7. CASE Restart
  <2>1. /\ job' = NoJob /\ strays' \in Abandoned /\ refresh' = NoRefresh /\ sync' = NoSync
        /\ snap' = Reading(reported) /\ UNCHANGED <<reported, day>>
    BY <1>7 DEF Restart
  <2>2. reported \in [cash : Nat, shares : Counts]
    BY <1>1 DEF TypeOK, Counts
  <2> QED BY <1>1, <1>2, <1>4, <2>1, <2>2, NoJobType, ReadingTypes
          DEF TypesInv, TypeOK, OrderCovered, Counts
<1> QED BY <1>3, <1>5, <1>6, <1>7

LEMMA TypesStep == ASSUME TypesInv, [Next]_vars PROVE TypesInv'
<1>1. CASE UNCHANGED vars
  BY <1>1 DEF vars, TypesInv, TypeOK, OrderCovered
<1> QED BY <1>1, RefreshTypes, SyncTypes, SendTypes, ExitTypes, MatchTypes, StrayTypes,
          AnswerTypes, ResolutionTypes, OtherTypes DEF Next

\* Whatever is sold, lost on the way, matched or reported late: neither the wallet nor
\* the ledger's cash or a position in it is ever negative.
THEOREM LiveTypesHold == Spec => []TypeOK
<1>1. Init => TypesInv
  BY TypesStart
<1>2. TypesInv /\ [Next]_vars => TypesInv'
  BY TypesStep
<1>3. TypesInv => TypeOK
  BY DEF TypesInv
<1> QED BY <1>1, <1>2, <1>3, PTL DEF Spec

-----------------------------------------------------------------------------
(* How wrong the snapshot may be *)

Exposures == [late : Nat, lost : Nat, twice : Nat, owes : BOOLEAN]

\* What the order of `job` has moved since reading r, and nobody has noted.
Owed(r) == IF ~exposure[r].owes THEN 0
           ELSE IF job.side = "BUY" THEN job.money ELSE -job.money

\* Only a matched order is owed for, not to a reading yet to be made, and one
\* without shares moved no money.
OwedForMatches ==
  /\ exposure \in [Readings -> Exposures]
  /\ \A r \in Readings : exposure[r].owes => job.matched
  /\ refresh.phase = "asked" => ~exposure["refresh"].owes
  /\ job.matched /\ job.shares = 0 => job.money = 0

\* The snapshot, before and after the refresh in progress.
Within ==
  /\ snap.cash - snap.spent <= exchange.cash + Hidden("snapshot") + Owed("snapshot")
  /\ refresh.phase = "asked" => refresh.spent - snap.spent <= exposure["refresh"].twice
  /\ refresh.phase \in {"cash", "read"} =>
       refresh.cash + refresh.spent - snap.spent
         <= exchange.cash + Hidden("refresh") + Owed("refresh")

ExposureInv == TypesInv /\ OwedForMatches /\ Within

\* The numbers the argument is about.
LEMMA Numbers ==
  ASSUME TypesInv, OwedForMatches
  PROVE  /\ exchange.cash \in Nat /\ reported.cash \in Nat
         /\ snap.cash \in Nat /\ snap.spent \in Int
         /\ refresh.cash \in Nat /\ refresh.spent \in Int
         /\ ledger.cash \in Nat /\ CashNow(snap) \in Nat
         /\ job.money \in Nat /\ job.amount \in Nat
         /\ \A r \in Readings : /\ exposure[r] \in Exposures
                                /\ exposure[r].late \in Nat /\ exposure[r].lost \in Nat
                                /\ exposure[r].twice \in Nat /\ exposure[r].owes \in BOOLEAN
                                /\ Hidden(r) \in Nat /\ Owed(r) \in Int
<1>1. /\ exchange.cash \in Nat /\ reported.cash \in Nat
      /\ snap.cash \in Nat /\ snap.spent \in Int
      /\ refresh.cash \in Nat /\ refresh.spent \in Int
      /\ ledger.cash \in Nat /\ CashNow(snap) \in Nat
      /\ job.money \in Nat /\ job.amount \in Nat
  BY ReadTypes DEF TypesInv, TypeOK, Orders
<1>2. ASSUME NEW r \in Readings
      PROVE  /\ exposure[r] \in Exposures
             /\ exposure[r].late \in Nat /\ exposure[r].lost \in Nat
             /\ exposure[r].twice \in Nat /\ exposure[r].owes \in BOOLEAN
             /\ Hidden(r) \in Nat /\ Owed(r) \in Int
  <2>1. exposure[r] \in Exposures
    BY DEF OwedForMatches
  <2>2. /\ exposure[r].late \in Nat /\ exposure[r].lost \in Nat
        /\ exposure[r].twice \in Nat /\ exposure[r].owes \in BOOLEAN
    BY <2>1 DEF Exposures
  <2> QED BY <1>1, <2>1, <2>2 DEF Hidden, Owed
<1> QED BY <1>1, <1>2

LEMMA NoExposureType ==
  /\ NoExposure \in Exposures /\ ~NoExposure.owes /\ "snapshot" \in Readings /\ "refresh" \in Readings
  /\ NoExposure.late = 0 /\ NoExposure.lost = 0 /\ NoExposure.twice = 0
BY DEF NoExposure, Exposures, Readings

\* A reading shows what the exchange has not reported, and nothing else.
LEMMA ReadNowType ==
  ASSUME TypesInv, OwedForMatches
  PROVE  /\ ReadNow \in Exposures /\ ~ReadNow.owes /\ ReadNow.lost = 0 /\ ReadNow.twice = 0
         /\ reported.cash <= exchange.cash + ReadNow.late
<1> DEFINE late == AtLeast0(reported.cash - exchange.cash)
<1>1. late \in Nat /\ reported.cash <= exchange.cash + late
  BY Numbers DEF AtLeast0
<1>2. ReadNow = [late |-> late, lost |-> 0, twice |-> 0, owes |-> FALSE]
  BY DEF ReadNow
<1> HIDE DEF late
<1> QED BY <1>1, <1>2 DEF Exposures

LEMMA ExposureStart == ASSUME ExposureInit PROVE ExposureInv
<1>1. TypesInv
  BY TypesStart DEF ExposureInit
<1>2. \A r \in Readings : exposure[r] = NoExposure
  BY DEF ExposureInit
<1>3. OwedForMatches
  BY <1>2, NoExposureType, NoJobType DEF ExposureInit, Init, OwedForMatches
<1>4. snap.cash = exchange.cash /\ snap.spent = 0 /\ refresh.phase = "idle"
  BY DEF ExposureInit, Init, Wallet, Reading, NoRefresh
<1>5. Within
  BY <1>1, <1>2, <1>3, <1>4, Numbers, NoExposureType DEF Within, Hidden, Owed
<1> QED BY <1>1, <1>3, <1>5 DEF ExposureInv

LEMMA ExposureRefines == ASSUME [ExposureNext]_exposureVars PROVE [Next]_vars
BY DEF ExposureNext, exposureVars, vars, StartReading, ReadCash, Install, ReadAnew, MatchOwed,
       AnswerNoted, MatchLost, StrayLost, Other, Next, Read

\* A refresh replaces the snapshot by a reading that kept to its own bound.
LEMMA RefreshWithin ==
  ASSUME ExposureInv, StartReading \/ ReadCash \/ Install, TypesInv'
  PROVE  ExposureInv'
<1>1. TypesInv /\ OwedForMatches /\ Within
  BY DEF ExposureInv
<1>2. UNCHANGED <<exchange, job>>
  BY DEF StartReading, ReadCash, Install, RefreshStart, RefreshCash, RefreshFinish
<1>3. CASE StartReading
  <2>1. /\ exposure' = [exposure EXCEPT !["refresh"] = NoExposure] /\ snap' = snap
        /\ refresh'.phase = "asked" /\ refresh'.spent = snap.spent
    BY <1>3 DEF StartReading, RefreshStart, NoRefresh
  <2>2. /\ exposure'["refresh"] = NoExposure /\ exposure'["snapshot"] = exposure["snapshot"]
        /\ exposure' \in [Readings -> Exposures]
    BY <1>1, <2>1, NoExposureType DEF OwedForMatches, Readings
  <2>3. OwedForMatches'
    BY <1>1, <1>2, <2>2, NoExposureType DEF OwedForMatches, Readings
  <2>4. Within'
    BY <1>1, <1>2, <2>1, <2>2, NoExposureType, Numbers DEF Within, Hidden, Owed
  <2> QED BY <2>3, <2>4 DEF ExposureInv
<1>4. CASE ReadCash
  <2> DEFINE twice == exposure["refresh"].twice
             now == [ReadNow EXCEPT !.twice = twice]
  <2>1. /\ exposure' = [exposure EXCEPT !["refresh"] = now] /\ snap' = snap
        /\ refresh'.phase = "cash" /\ refresh'.spent = refresh.spent
        /\ refresh'.cash = reported.cash /\ refresh.phase = "asked"
    <3>1. refresh' = [refresh EXCEPT !.phase = "cash", !.cash = reported.cash]
          /\ refresh.phase = "asked"
      BY <1>4 DEF ReadCash, RefreshCash
    <3>2. refresh \in [phase : {"idle", "asked", "cash", "read"}, spent : Int, since : Amounts,
                       cash : Nat, shares : [Tokens -> Nat]]
      BY <1>1 DEF TypesInv, TypeOK
    <3>3. snap' = snap /\ exposure' = [exposure EXCEPT !["refresh"] = now]
      BY <1>4 DEF ReadCash, RefreshCash
    <3> QED BY <3>1, <3>2, <3>3
  <2>2. /\ now \in Exposures /\ ~now.owes /\ now.late = ReadNow.late /\ now.lost = 0
        /\ now.twice = twice
    <3>1. twice \in Nat
      BY <1>1, Numbers, NoExposureType
    <3> QED BY <1>1, <3>1, ReadNowType DEF Exposures
  <2> HIDE DEF now
  <2>3. /\ exposure'["refresh"] = now /\ exposure'["snapshot"] = exposure["snapshot"]
        /\ exposure' \in [Readings -> Exposures]
    BY <1>1, <2>1, <2>2 DEF OwedForMatches, Readings
  <2>4. OwedForMatches'
    BY <1>1, <1>2, <2>1, <2>2, <2>3 DEF OwedForMatches, Readings
  <2>5. refresh.spent - snap.spent <= twice /\ reported.cash <= exchange.cash + now.late
    BY <1>1, <2>1, <2>2, ReadNowType DEF Within
  <2>6. Hidden("refresh")' = now.late + now.lost + now.twice /\ Owed("refresh")' = 0
    BY <2>2, <2>3 DEF Hidden, Owed
  <2>7. Hidden("snapshot")' = Hidden("snapshot") /\ Owed("snapshot")' = Owed("snapshot")
    BY <1>2, <2>3 DEF Hidden, Owed
  <2>8. now.late \in Nat /\ twice \in Nat
    BY <1>1, <2>2, Numbers, NoExposureType DEF Exposures
  <2> HIDE DEF twice
  <2>9. Within'
    BY <1>1, <1>2, <2>1, <2>2, <2>5, <2>6, <2>7, <2>8, Numbers DEF Within
  <2> QED BY <2>4, <2>9 DEF ExposureInv
<1>5. CASE Install
  <2>1. /\ exposure' = [exposure EXCEPT !["snapshot"] = exposure["refresh"]]
        /\ refresh'.phase = "idle" /\ refresh.phase = "read"
        /\ snap'.cash = refresh.cash /\ snap'.spent = snap.spent - refresh.spent
    BY <1>5 DEF Install, RefreshFinish, NoRefresh, Reading, InFlight
  <2>2. /\ exposure'["snapshot"] = exposure["refresh"]
        /\ exposure'["refresh"] = exposure["refresh"]
        /\ exposure' \in [Readings -> Exposures]
    BY <1>1, <2>1 DEF OwedForMatches, Readings
  <2>3. OwedForMatches'
    BY <1>1, <1>2, <2>1, <2>2 DEF OwedForMatches, Readings
  <2>4. Hidden("snapshot")' = Hidden("refresh") /\ Owed("snapshot")' = Owed("refresh")
    BY <1>2, <2>2 DEF Hidden, Owed
  <2>5. Within'
    BY <1>1, <1>2, <2>1, <2>4, Numbers, NoExposureType DEF Within
  <2> QED BY <2>3, <2>5 DEF ExposureInv
<1> QED BY <1>3, <1>4, <1>5

\* After a crash nothing is owed: what was out is a stray, and what was read is
\* what the exchange reports.
LEMMA RestartWithin == ASSUME ExposureInv, ReadAnew, TypesInv' PROVE ExposureInv'
<1>1. TypesInv /\ OwedForMatches
  BY DEF ExposureInv
<1>2. /\ exchange' = exchange /\ job' = NoJob /\ snap' = Reading(reported)
      /\ refresh' = NoRefresh
  BY DEF ReadAnew, Restart
<1>3. /\ exposure'["snapshot"] = ReadNow /\ exposure'["refresh"] = NoExposure
      /\ exposure' \in [Readings -> Exposures]
  BY <1>1, ReadNowType, NoExposureType DEF ReadAnew, Readings
<1>4. snap'.cash = reported.cash /\ snap'.spent = 0 /\ refresh'.phase = "idle"
  BY <1>2 DEF Reading, NoRefresh
<1>5. OwedForMatches'
  BY <1>1, <1>2, <1>3, <1>4, ReadNowType, NoExposureType, NoJobType DEF OwedForMatches, Readings
<1>6. Within'
  BY <1>1, <1>2, <1>3, <1>4, ReadNowType, NoExposureType, Numbers DEF Within, Hidden, Owed, Exposures
<1> QED BY <1>5, <1>6 DEF ExposureInv

\* A match moves cash between the wallet and what is owed to the note.
LEMMA MatchWithin ==
  ASSUME ExposureInv, TypesInv', NEW m \in 0..MaxOrder, NEW p \in Prices, MatchOwed(m, p)
  PROVE  ExposureInv'
<1> DEFINE money == m * p
           read == refresh.phase \in {"cash", "read"}
<1>1. TypesInv /\ OwedForMatches /\ Within /\ m \in Nat /\ p \in Nat
  BY LiveAssumption DEF ExposureInv
<1>2. money \in Nat /\ (m = 0 => money = 0)
  BY <1>1, Products
<1>3. /\ job # NoJob /\ ~job.matched /\ Matchable(job, m, p) /\ exchange' = Matched(job, m, p)
      /\ job' = [job EXCEPT !.matched = TRUE, !.shares = m, !.money = money]
      /\ UNCHANGED <<snap, refresh>>
      /\ exposure' = [r \in Readings |-> [exposure[r] EXCEPT !.owes = r = "snapshot" \/ read]]
  BY DEF MatchOwed, Match
<1>4. TypeOK /\ job \in Orders
  BY <1>1 DEF TypesInv, TypeOK
<1> HIDE DEF money, read
<1>5. /\ job'.matched /\ job'.shares = m /\ job'.money = money /\ job'.side = job.side
  BY <1>3, <1>4 DEF Orders
<1>6. /\ job.side = "BUY" => exchange'.cash = exchange.cash - money
      /\ job.side # "BUY" => exchange'.cash = exchange.cash + money
  BY <1>1, <1>3, <1>4, WalletAfter DEF money
<1>7. ASSUME NEW r \in Readings
      PROVE  /\ exposure'[r] \in Exposures /\ ~exposure[r].owes
             /\ exposure'[r].owes = (r = "snapshot" \/ read)
             /\ Hidden(r)' = Hidden(r) /\ Owed(r) = 0
             /\ exposure'[r].twice = exposure[r].twice
  <2>1. exposure[r] \in Exposures /\ ~exposure[r].owes
    BY <1>1, <1>3 DEF OwedForMatches
  <2>2. exposure'[r] = [exposure[r] EXCEPT !.owes = r = "snapshot" \/ read]
    BY <1>3
  <2>3. (r = "snapshot" \/ read) \in BOOLEAN
    BY DEF read
  <2>4. /\ exposure'[r] \in Exposures /\ exposure'[r].owes = (r = "snapshot" \/ read)
        /\ exposure'[r].late = exposure[r].late /\ exposure'[r].lost = exposure[r].lost
        /\ exposure'[r].twice = exposure[r].twice
    BY <2>1, <2>2, <2>3 DEF Exposures
  <2> QED BY <2>1, <2>4 DEF Hidden, Owed
<1>8. OwedForMatches'
  <2>1. exposure' \in [Readings -> Exposures]
    BY <1>3, <1>7
  <2>2. refresh'.phase = "asked" => ~exposure'["refresh"].owes
    BY <1>3, <1>7, NoExposureType DEF read
  <2> QED BY <1>2, <1>5, <2>1, <2>2 DEF OwedForMatches
<1>9. Owed("snapshot")' = (IF job.side = "BUY" THEN money ELSE -money)
      /\ (read => Owed("refresh")' = (IF job.side = "BUY" THEN money ELSE -money))
  BY <1>5, <1>7, NoExposureType DEF Owed
<1>n. /\ exchange.cash \in Nat /\ snap.cash \in Nat /\ snap.spent \in Int
      /\ refresh.cash \in Nat /\ refresh.spent \in Int
      /\ Hidden("snapshot") \in Nat /\ Hidden("refresh") \in Nat
  BY <1>1, Numbers, NoExposureType
<1>h. /\ Hidden("snapshot")' = Hidden("snapshot") /\ Owed("snapshot") = 0
      /\ Hidden("refresh")' = Hidden("refresh") /\ Owed("refresh") = 0
      /\ exposure'["refresh"].twice = exposure["refresh"].twice
  BY <1>7, NoExposureType
<1>10. Within'
  <2>1. (snap.cash - snap.spent <= exchange.cash + Hidden("snapshot") + Owed("snapshot"))'
    BY <1>1, <1>2, <1>3, <1>6, <1>9, <1>n, <1>h DEF Within
  <2>2. (refresh.phase = "asked" => refresh.spent - snap.spent <= exposure["refresh"].twice)'
    BY <1>1, <1>3, <1>h DEF Within
  <2>3. (refresh.phase \in {"cash", "read"} =>
           refresh.cash + refresh.spent - snap.spent
             <= exchange.cash + Hidden("refresh") + Owed("refresh"))'
    BY <1>1, <1>2, <1>3, <1>6, <1>9, <1>n, <1>h DEF Within, read
  <2> QED BY <2>1, <2>2, <2>3 DEF Within
<1> QED BY <1>8, <1>10 DEF ExposureInv

\* Neither reading is owed for an order that nobody waits for.
LEMMA StrayWithin ==
  ASSUME ExposureInv, TypesInv', NEW stray \in strays, NEW m \in 0..MaxOrder, NEW p \in Prices,
         StrayLost(stray, m, p)
  PROVE  ExposureInv'
<1> DEFINE money == m * p
           lost == IF stray.order.side = "BUY" THEN money ELSE 0
<1>1. /\ TypesInv /\ TypeOK /\ OwedForMatches /\ Within /\ m \in Nat /\ p \in Nat
      /\ stray.order \in Orders
  BY LiveAssumption DEF ExposureInv, TypesInv, TypeOK
<1>2. money \in Nat /\ lost \in Nat
  BY <1>1, Products
<1>3. /\ Matchable(stray.order, m, p) /\ exchange' = Matched(stray.order, m, p)
      /\ UNCHANGED <<snap, refresh, job>>
      /\ exposure' = IF stray.order.side = "BUY"
                     THEN [r \in Readings |-> [exposure[r] EXCEPT !.lost = @ + money]]
                     ELSE exposure
  BY DEF StrayLost, MatchStray
<1>4. exchange.cash - lost <= exchange'.cash
  <2>1. /\ stray.order.side = "BUY" => exchange'.cash = exchange.cash - money
        /\ stray.order.side # "BUY" => exchange'.cash = exchange.cash + money
    BY <1>1, <1>3, WalletAfter
  <2> HIDE DEF money
  <2> QED BY <1>1, <1>2, <2>1, Numbers
<1> HIDE DEF money
<1>5. ASSUME NEW r \in Readings
      PROVE  /\ exposure'[r] \in Exposures /\ exposure'[r].owes = exposure[r].owes
             /\ Hidden(r)' = Hidden(r) + lost /\ Owed(r)' = Owed(r)
             /\ exposure'[r].twice = exposure[r].twice
  <2>1. exposure[r] \in Exposures /\ exposure[r].late \in Nat /\ exposure[r].lost \in Nat
        /\ exposure[r].twice \in Nat
    BY <1>1, Numbers
  <2>2. /\ exposure'[r] \in Exposures /\ exposure'[r].owes = exposure[r].owes
        /\ exposure'[r].late = exposure[r].late /\ exposure'[r].twice = exposure[r].twice
        /\ exposure'[r].lost = exposure[r].lost + lost
    <3>1. CASE stray.order.side = "BUY"
      <4>1. exposure'[r] = [exposure[r] EXCEPT !.lost = exposure[r].lost + money]
        BY <1>3, <3>1
      <4> QED BY <1>2, <2>1, <3>1, <4>1 DEF Exposures
    <3>2. CASE stray.order.side # "BUY"
      BY <1>3, <2>1, <3>2
    <3> QED BY <3>1, <3>2
  <2> HIDE DEF lost
  <2> QED BY <1>2, <1>3, <2>1, <2>2 DEF Hidden, Owed
<1> HIDE DEF lost
<1>6. exposure' \in [Readings -> Exposures]
  <2>1. exposure' = [r \in Readings |-> exposure'[r]]
    BY <1>1, <1>3 DEF OwedForMatches
  <2> QED BY <1>5, <2>1
<1>7. OwedForMatches'
  BY <1>1, <1>3, <1>5, <1>6, NoExposureType DEF OwedForMatches
<1>8. exchange'.cash \in Nat
  BY DEF TypesInv, TypeOK
<1>n. /\ exchange.cash \in Nat /\ snap.cash \in Nat /\ snap.spent \in Int
      /\ refresh.cash \in Nat /\ refresh.spent \in Int
      /\ Hidden("snapshot") \in Nat /\ Hidden("refresh") \in Nat
      /\ Owed("snapshot") \in Int /\ Owed("refresh") \in Int
  BY <1>1, Numbers, NoExposureType
<1>h. /\ Hidden("snapshot")' = Hidden("snapshot") + lost
      /\ Hidden("refresh")' = Hidden("refresh") + lost
      /\ Owed("snapshot")' = Owed("snapshot") /\ Owed("refresh")' = Owed("refresh")
      /\ exposure'["refresh"].twice = exposure["refresh"].twice
  BY <1>5, NoExposureType
<1>9. Within'
  <2>1. (snap.cash - snap.spent <= exchange.cash + Hidden("snapshot") + Owed("snapshot"))'
    BY <1>1, <1>2, <1>3, <1>4, <1>8, <1>n, <1>h DEF Within
  <2>2. (refresh.phase = "asked" => refresh.spent - snap.spent <= exposure["refresh"].twice)'
    BY <1>1, <1>3, <1>h DEF Within
  <2>3. (refresh.phase \in {"cash", "read"} =>
           refresh.cash + refresh.spent - snap.spent
             <= exchange.cash + Hidden("refresh") + Owed("refresh"))'
    BY <1>1, <1>2, <1>3, <1>4, <1>8, <1>n, <1>h DEF Within
  <2> QED BY <2>1, <2>2, <2>3 DEF Within
<1> QED BY <1>7, <1>9 DEF ExposureInv

\* The note adds to the snapshot what the match moved: once, or on top of a
\* reading that has it.
LEMMA AnswerWithin == ASSUME ExposureInv, TypesInv', AnswerNoted PROVE ExposureInv'
<1>1. TypesInv /\ TypeOK /\ OwedForMatches /\ Within
  BY DEF ExposureInv, TypesInv
<1>2. /\ job.matched /\ job' = NoJob /\ UNCHANGED <<exchange, refresh>>
      /\ exposure' = [r \in Readings |-> NotedOn(exposure[r])]
  BY DEF AnswerNoted, Answer
<1> DEFINE sale == job.side = "SELL"
           moved == IF job.side = "BUY" THEN job.money ELSE -job.money
<1>3. job.money \in Nat /\ moved \in Int /\ job.side \in {"BUY", "SELL"}
  BY <1>1, <1>2, Numbers, NoJobType DEF TypesInv, TypeOK, OrderCovered, Orders
<1>4. snap'.cash = snap.cash /\ snap'.spent = snap.spent + moved
  <2>1. CASE job.shares = 0
    <3>1. snap' = snap /\ job.money = 0
      BY <1>1, <1>2, <2>1 DEF AnswerNoted, Answer, Told, OwedForMatches
    <3> QED BY <1>1, <3>1, Numbers
  <2>2. CASE job.shares # 0
    <3>1. /\ snap' = Noted
          /\ snap \in [ok : BOOLEAN, fresh : BOOLEAN, cash : Nat, shares : [Tokens -> Nat],
                       spent : Int, since : Amounts]
      BY <1>1, <2>2 DEF AnswerNoted, Answer, Told, TypeOK
    <3> QED BY <1>3, <3>1 DEF Noted, Told
  <2> QED BY <2>1, <2>2
<1>5. ASSUME NEW r \in Readings
      PROVE  /\ exposure'[r] \in Exposures /\ ~exposure'[r].owes
             /\ Hidden(r) \in Nat /\ Owed(r) \in Int
             /\ Owed(r) - moved + Hidden(r) <= Hidden(r)' /\ Owed(r)' = 0
             /\ ~exposure[r].owes => exposure[r].twice - moved <= exposure'[r].twice
  <2> DEFINE e == exposure[r]
             twice == IF sale /\ ~e.owes THEN e.twice + job.money ELSE e.twice
  <2>1. /\ e \in Exposures /\ e.late \in Nat /\ e.lost \in Nat /\ e.twice \in Nat
        /\ e.owes \in BOOLEAN /\ Hidden(r) \in Nat /\ Owed(r) \in Int
    BY <1>1, Numbers
  <2>2. exposure'[r] = [e EXCEPT !.owes = FALSE, !.twice = twice] /\ twice \in Nat
    <3>1. twice \in Nat
      BY <1>3, <2>1
    <3>2. exposure'[r] = NotedOn(e)
      BY <1>2
    <3>3. NotedOn(e) = [e EXCEPT !.owes = FALSE, !.twice = twice]
      BY DEF NotedOn
    <3> QED BY <3>1, <3>2, <3>3
  <2> HIDE DEF twice
  <2>3. /\ exposure'[r] \in Exposures /\ ~exposure'[r].owes /\ exposure'[r].twice = twice
        /\ exposure'[r].late = e.late /\ exposure'[r].lost = e.lost
    BY <2>1, <2>2 DEF Exposures
  <2>4. /\ Hidden(r)' = e.late + e.lost + twice /\ Owed(r)' = 0
        /\ Hidden(r) = e.late + e.lost + e.twice
        /\ Owed(r) = IF e.owes THEN moved ELSE 0
    BY <2>3 DEF Hidden, Owed
  <2>5. (e.owes \/ ~sale => twice = e.twice) /\ (sale /\ ~e.owes => twice = e.twice + job.money)
        /\ (sale => moved = -job.money) /\ (~sale => moved = job.money)
    BY <1>3 DEF twice
  <2> HIDE DEF e, sale, moved
  <2> QED BY <1>3, <2>1, <2>2, <2>3, <2>4, <2>5 DEF e
<1>6. OwedForMatches'
  <2>1. exposure' \in [Readings -> Exposures]
    BY <1>2, <1>5
  <2> QED BY <1>2, <1>5, <2>1, NoJobType, NoExposureType DEF OwedForMatches
<1> HIDE DEF moved
<1>n. /\ exchange.cash \in Nat /\ snap.cash \in Nat /\ snap.spent \in Int
      /\ refresh.cash \in Nat /\ refresh.spent \in Int
      /\ exposure["refresh"].twice \in Nat
  BY <1>1, Numbers, NoExposureType
<1>h. /\ Hidden("snapshot") \in Nat /\ Owed("snapshot") \in Int
      /\ Hidden("refresh") \in Nat /\ Owed("refresh") \in Int
      /\ Owed("snapshot") - moved + Hidden("snapshot") <= Hidden("snapshot")'
      /\ Owed("refresh") - moved + Hidden("refresh") <= Hidden("refresh")'
      /\ Owed("snapshot")' = 0 /\ Owed("refresh")' = 0
      /\ ~exposure["refresh"].owes
           => exposure["refresh"].twice - moved <= exposure'["refresh"].twice
  BY <1>5, NoExposureType
<1>k. Hidden("snapshot")' \in Nat /\ Hidden("refresh")' \in Nat /\ exposure'["refresh"].twice \in Nat
  BY <1>5, NoExposureType DEF Hidden, Exposures
<1>7. Within'
  <2>1. (snap.cash - snap.spent <= exchange.cash + Hidden("snapshot") + Owed("snapshot"))'
    BY <1>1, <1>2, <1>3, <1>4, <1>n, <1>h, <1>k DEF Within
  <2>2. (refresh.phase = "asked" => refresh.spent - snap.spent <= exposure["refresh"].twice)'
    <3>1. refresh.phase = "asked" => ~exposure["refresh"].owes
      BY <1>1 DEF OwedForMatches
    <3> QED BY <1>1, <1>2, <1>3, <1>4, <1>n, <1>h, <1>k, <3>1 DEF Within
  <2>3. (refresh.phase \in {"cash", "read"} =>
           refresh.cash + refresh.spent - snap.spent
             <= exchange.cash + Hidden("refresh") + Owed("refresh"))'
    BY <1>1, <1>2, <1>3, <1>4, <1>n, <1>h, <1>k DEF Within
  <2> QED BY <2>1, <2>2, <2>3 DEF Within
<1> QED BY <1>6, <1>7 DEF ExposureInv

\* An answer that never comes leaves what was owed unnoted.
LEMMA UnansweredWithin == ASSUME ExposureInv, TypesInv', MatchLost PROVE ExposureInv'
<1>1. TypesInv /\ TypeOK /\ OwedForMatches /\ Within /\ job.money \in Nat
  BY Numbers DEF ExposureInv, TypesInv
<1>2. /\ job' = NoJob /\ UNCHANGED <<exchange, snap, refresh>>
      /\ exposure' = [r \in Readings |-> LostFrom(exposure[r])]
  BY DEF MatchLost, Unanswered
<1>3. ASSUME NEW r \in Readings
      PROVE  /\ exposure'[r] \in Exposures /\ ~exposure'[r].owes
             /\ Hidden(r) \in Nat /\ Owed(r) \in Int
             /\ Owed(r) + Hidden(r) <= Hidden(r)' /\ Owed(r)' = 0
             /\ exposure'[r].twice = exposure[r].twice
  <2> DEFINE e == exposure[r]
             lost == IF job.side = "BUY" /\ e.owes THEN e.lost + job.money ELSE e.lost
  <2>1. /\ e \in Exposures /\ e.late \in Nat /\ e.lost \in Nat /\ e.twice \in Nat
        /\ e.owes \in BOOLEAN /\ Hidden(r) \in Nat /\ Owed(r) \in Int
    BY <1>1, Numbers
  <2>2. exposure'[r] = [e EXCEPT !.owes = FALSE, !.lost = lost] /\ lost \in Nat
    <3>1. lost \in Nat
      BY <1>1, <2>1
    <3>2. exposure'[r] = LostFrom(e)
      BY <1>2
    <3>3. LostFrom(e) = [e EXCEPT !.owes = FALSE, !.lost = lost]
      BY DEF LostFrom
    <3> QED BY <3>1, <3>2, <3>3
  <2> HIDE DEF lost
  <2>3. /\ exposure'[r] \in Exposures /\ ~exposure'[r].owes /\ exposure'[r].lost = lost
        /\ exposure'[r].late = e.late /\ exposure'[r].twice = e.twice
    BY <2>1, <2>2 DEF Exposures
  <2>4. /\ Hidden(r)' = e.late + lost + e.twice /\ Owed(r)' = 0
        /\ Hidden(r) = e.late + e.lost + e.twice
        /\ Owed(r) = IF ~e.owes THEN 0 ELSE IF job.side = "BUY" THEN job.money ELSE -job.money
    BY <2>3 DEF Hidden, Owed
  <2>5. lost = IF job.side = "BUY" /\ e.owes THEN e.lost + job.money ELSE e.lost
    BY DEF lost
  <2> QED BY <1>1, <2>1, <2>2, <2>3, <2>4, <2>5
<1>4. OwedForMatches'
  <2>1. exposure' \in [Readings -> Exposures]
    BY <1>2, <1>3
  <2> QED BY <1>2, <1>3, <2>1, NoJobType, NoExposureType DEF OwedForMatches
<1>n. /\ exchange.cash \in Nat /\ snap.cash \in Nat /\ snap.spent \in Int
      /\ refresh.cash \in Nat /\ refresh.spent \in Int
  BY <1>1, Numbers
<1>h. /\ Hidden("snapshot") \in Nat /\ Owed("snapshot") \in Int
      /\ Hidden("refresh") \in Nat /\ Owed("refresh") \in Int
      /\ Owed("snapshot") + Hidden("snapshot") <= Hidden("snapshot")'
      /\ Owed("refresh") + Hidden("refresh") <= Hidden("refresh")'
      /\ Owed("snapshot")' = 0 /\ Owed("refresh")' = 0
      /\ exposure'["refresh"].twice = exposure["refresh"].twice
  BY <1>3, NoExposureType
<1>k. Hidden("snapshot")' \in Nat /\ Hidden("refresh")' \in Nat
  BY <1>3, NoExposureType DEF Hidden, Exposures
<1>5. Within'
  <2>1. (snap.cash - snap.spent <= exchange.cash + Hidden("snapshot") + Owed("snapshot"))'
    BY <1>1, <1>2, <1>n, <1>h, <1>k DEF Within
  <2>2. (refresh.phase = "asked" => refresh.spent - snap.spent <= exposure["refresh"].twice)'
    BY <1>1, <1>2, <1>h DEF Within
  <2>3. (refresh.phase \in {"cash", "read"} =>
           refresh.cash + refresh.spent - snap.spent
             <= exchange.cash + Hidden("refresh") + Owed("refresh"))'
    BY <1>1, <1>2, <1>n, <1>h, <1>k DEF Within
  <2> QED BY <2>1, <2>2, <2>3 DEF Within
<1> QED BY <1>4, <1>5 DEF ExposureInv

\* A redemption adds to the wallet; the rest leaves wallet and snapshot alone.
LEMMA OtherWithin ==
  ASSUME ExposureInv, TypesInv', Other, UNCHANGED exposure
  PROVE  ExposureInv'
<1>1. TypesInv /\ OwedForMatches /\ Within
  BY DEF ExposureInv
<1>2. /\ snap'.cash = snap.cash /\ snap'.spent = snap.spent
      /\ \/ refresh'.phase = "idle"
         \/ refresh' = refresh
         \/ /\ refresh.phase = "cash" /\ refresh'.phase = "read"
            /\ refresh'.cash = refresh.cash /\ refresh'.spent = refresh.spent
  <2>1. /\ snap \in [ok : BOOLEAN, fresh : BOOLEAN, cash : Nat, shares : [Tokens -> Nat],
                     spent : Int, since : Amounts]
        /\ refresh \in [phase : {"idle", "asked", "cash", "read"}, spent : Int, since : Amounts,
                        cash : Nat, shares : [Tokens -> Nat]]
    BY <1>1 DEF TypesInv, TypeOK
  <2>2. CASE RefreshPositions
    BY <2>1, <2>2 DEF RefreshPositions
  <2>4. CASE RefreshFail
    BY <2>1, <2>4 DEF RefreshFail, NoRefresh
  <2>5. CASE Expire
    BY <2>1, <2>5 DEF Expire
  <2>3. CASE UNCHANGED <<snap, refresh>>
    BY <2>3
  <2> QED BY <2>2, <2>3, <2>4, <2>5 DEF Other, SyncStart, SyncWrite, RefuseEntry, Report, Midnight, StartBuy,
               AcceptExit, StartSell, CloseExit, Settle, Redeem, Resolve
<1>3. exchange.cash <= exchange'.cash /\ exchange'.cash \in Nat
  <2>1. exchange'.cash \in Nat
    BY DEF TypesInv, TypeOK
  <2>2. ASSUME NEW t \in Tokens, Redeem(t) PROVE exchange.cash <= exchange'.cash
    <3> DEFINE paid == resolved[t] * exchange.shares[t]
    <3>1. resolved[t] \in Nat /\ exchange.shares[t] \in Nat
      BY <1>1, <2>2, LiveAssumption DEF Redeem, TypesInv, TypeOK
    <3>2. paid \in Nat
      BY <3>1, Products
    <3>3. exchange'.cash = exchange.cash + paid
      BY <2>2 DEF Redeem
    <3> HIDE DEF paid
    <3> QED BY <1>1, <3>2, <3>3, Numbers
  <2>3. CASE exchange' = exchange
    BY <1>1, <2>3, Numbers
  <2> QED BY <2>1, <2>2, <2>3 DEF Other, RefreshPositions, RefreshFail, Expire, SyncStart,
               SyncWrite, RefuseEntry, Report, Midnight, StartBuy, AcceptExit, StartSell,
               CloseExit, Settle, Resolve
<1>4. \/ job' = job
      \/ ~job.matched /\ ~job'.matched
  BY NoJobType DEF Other, RefreshPositions, RefreshFail, Expire, SyncStart, SyncWrite,
       RefuseEntry, Report, Midnight, StartBuy, AcceptExit, StartSell, CloseExit, Settle,
       Redeem, Resolve, Posted, Orders
<1>5. ASSUME NEW r \in Readings
      PROVE  Hidden(r)' = Hidden(r) /\ Owed(r)' = Owed(r)
  <2>1. job' = job \/ ~exposure[r].owes
    BY <1>1, <1>4 DEF OwedForMatches
  <2> QED BY <2>1 DEF Hidden, Owed
<1>6. OwedForMatches'
  BY <1>1, <1>2, <1>4 DEF OwedForMatches
<1>7. Within'
  BY <1>1, <1>2, <1>3, <1>5, Numbers, NoExposureType DEF Within
<1> QED BY <1>6, <1>7 DEF ExposureInv

LEMMA ExposureStep ==
  ASSUME ExposureInv, [ExposureNext]_exposureVars PROVE ExposureInv'
<1>1. TypesInv'
  BY ExposureRefines, TypesStep DEF ExposureInv
<1>2. CASE UNCHANGED exposureVars
  BY <1>1, <1>2 DEF exposureVars, vars, ExposureInv, OwedForMatches, Within, Hidden, Owed
<1>3. CASE ExposureNext
  BY <1>1, <1>3, RefreshWithin, RestartWithin, MatchWithin, StrayWithin, AnswerWithin,
     UnansweredWithin, OtherWithin DEF ExposureNext
<1> QED BY <1>2, <1>3

\* The bound on the snapshot says what it says of the two readings.
LEMMA SnapshotBound == ASSUME ExposureInv PROVE SnapshotWithin
<1>1. TypesInv /\ OwedForMatches /\ Within
  BY DEF ExposureInv
<1>2. ~job.matched => Owed("snapshot") = 0
  BY <1>1, NoExposureType DEF OwedForMatches, Owed
<1> QED BY <1>1, <1>2, Numbers, NoExposureType DEF SnapshotWithin, Within, CashNow, AtLeast0

\* Whatever is sold, reported late, lost, matched after its sender has gone or
\* interrupted by a crash: outside the time between a match and its note, what
\* the snapshot says may be spent exceeds the wallet by no more than those.
THEOREM SnapshotWithinAlways == ExposureSpec => []SnapshotWithin
<1>1. ExposureInit => ExposureInv
  BY ExposureStart
<1>2. ExposureInv /\ [ExposureNext]_exposureVars => ExposureInv'
  BY ExposureStep
<1>3. ExposureInv => SnapshotWithin
  BY SnapshotBound
<1> QED BY <1>1, <1>2, <1>3, PTL DEF ExposureSpec

\* And no entry is sent for more than that and the tolerated drift.
THEOREM EntriesWithinAlways == ExposureSpec => EntriesWithin
<1> DEFINE Bounded == job = NoJob /\ job'.side = "BUY"
                        => job'.amount <= exchange.cash + Tolerance + Hidden("snapshot")
<1>1. ExposureInit => ExposureInv
  BY ExposureStart
<1>2. ExposureInv /\ [ExposureNext]_exposureVars => ExposureInv'
  BY ExposureStep
<1>3. ExposureInv /\ [ExposureNext]_exposureVars => [Bounded]_exposureVars
  <2> SUFFICES ASSUME ExposureInv, ExposureNext, job = NoJob, job'.side = "BUY"
               PROVE  job'.amount <= exchange.cash + Tolerance + Hidden("snapshot")
    OBVIOUS
  <2>1. TypesInv /\ OwedForMatches
    BY DEF ExposureInv
  <2>2. job' = NoJob \/ \E t \in Tokens : \/ StartSell(t)
                                        \/ \E budget \in 1..MaxOrder : StartBuy(t, budget)
    BY NoJobType DEF ExposureNext, StartReading, ReadCash, Install, ReadAnew, MatchOwed, StrayLost,
         AnswerNoted, MatchLost, Other, RefreshStart, RefreshCash, RefreshFinish, Restart, Match,
         MatchStray, Answer, Unanswered, RefreshPositions, RefreshFail, Expire, SyncStart,
         SyncWrite, RefuseEntry, Report, Midnight, AcceptExit, CloseExit, Settle, Redeem, Resolve
  <2>3. ASSUME NEW t \in Tokens, StartSell(t) PROVE job'.side = "SELL"
    BY <2>3, NoJobType DEF StartSell, Posted, Orders
  <2>4. PICK t \in Tokens, budget \in 1..MaxOrder : StartBuy(t, budget)
    BY <2>2, <2>3, NoJobType
  <2>5. budget \in Nat /\ Tolerance \in Nat
    BY LiveAssumption
  <2>6. job'.amount = budget /\ EntryOpen /\ budget <= ledger.cash
    <3>1. ledger.cash \in Nat /\ MaxOrder \in Nat
      BY <2>1, Numbers, LiveAssumption
    <3> QED BY <2>4, <3>1, NoJobType DEF StartBuy, MayEnter, Posted, Orders, Smaller
  <2>7. CashNow(snap) <= exchange.cash + Hidden("snapshot")
    BY SnapshotBound, NoJobType DEF SnapshotWithin
  <2>8. ledger.cash - CashNow(snap) <= Tolerance
    BY <2>1, <2>5, <2>6, Numbers DEF EntryOpen, Drift
  <2> QED BY <2>1, <2>5, <2>6, <2>7, <2>8, Numbers, NoExposureType
<1> QED BY <1>1, <1>2, <1>3, PTL DEF ExposureSpec, EntriesWithin
=============================================================================
