-------------------------- MODULE CopyLedger_proof --------------------------
(***************************************************************************)
(* What holds of the copy engine's ledger for every set of leaders and     *)
(* trades, every price, quantity, reserve and interleaving: money is       *)
(* neither made nor lost, a waiting entry is exactly an armed retry, and   *)
(* the signals move as the order history promises.                         *)
(***************************************************************************)
EXTENDS CopyLedger, Sums_proof

LEMMA ScaledType ==
    ASSUME NEW n \in Int, NEW total \in Nat \ {0}, NEW q \in 1..total
    PROVE  /\ Scaled(n, q, total) \in Int
           /\ n \in Nat => Scaled(n, q, total) \in Nat
           /\ q = total => Scaled(n, q, total) = 0
<1>1. total - q \in Nat
  OBVIOUS
<1>2. n * (total - q) \in Int /\ (n \in Nat => n * (total - q) \in Nat)
  BY <1>1, Products
<1>3. q = total => n * (total - q) = 0
  BY <1>1
<1>4. 0 \div total = 0
  OBVIOUS
<1>. QED
  BY <1>2, <1>3, <1>4, Quotients DEF Scaled

-----------------------------------------------------------------------------
(* The money.  The identity alone is not inductive: what a sell releases   *)
(* is a whole number only because the holdings are, and a quantity is one  *)
(* only because what an open exit asks for is.                             *)

ExitRow == [remaining : Nat, pos : Nat, trade : SUBSET Events, ts : Nat, gen : Nat]

BookInv ==
    /\ BookTypes
    /\ exit \in [Leaders -> ExitRow]
    /\ LedgerIdentity

LEMMA InitBook == Init => BookInv
BY MoneyAssumption DEF Init, BookInv, BookTypes, ExitRow, NoExit, NoPosition,
   NoHolding, LedgerIdentity

LEMMA BuyKeepsBook ==
    ASSUME BookInv, NEW e \in Events, NEW q \in BuyFills, Buy(e, q), exit' = exit
    PROVE  BookInv'
<1>1. q \in Nat /\ Leader(e) \in Leaders /\ Source[e].price \in Nat
  BY MoneyAssumption, SourceAssumption DEF Leader
<1> DEFINE cost == Source[e].price * q
<1>2. cost \in Nat
  BY <1>1, Products
<1> HIDE DEF cost
<1>3. /\ cash' = cash - cost
      /\ position'.shares = position.shares + q
      /\ position'.cost = position.cost + cost
      /\ realized' = realized
  BY DEF Buy, cost
<1>4. position' \in [id : Nat, shares : Nat, cost : Int] /\ lastId' \in Nat
  BY <1>1, <1>2 DEF Buy, cost, BookInv, BookTypes
<1>5. own' \in [Leaders -> [shares : Nat, cost : Int]]
  BY <1>1, <1>2 DEF Buy, cost, BookInv, BookTypes
<1>6. cash' \in Int /\ realized' \in Int
  BY <1>2, <1>3 DEF BookInv, BookTypes
<1>7. LedgerIdentity'
  BY <1>2, <1>3, MoneyAssumption DEF BookInv, BookTypes, LedgerIdentity
<1>. QED
  BY <1>4, <1>5, <1>6, <1>7 DEF BookInv, BookTypes

(* A sell keeps the identity whatever cost it releases, as long as the     *)
(* last share takes all that is left with it.                              *)
LEMMA SellKeepsBook ==
    ASSUME BookInv, NEW q \in Nat, NEW p \in Nat, NEW cost \in Int,
           q <= position.shares, q = position.shares => cost = position.cost,
           Sell(q, p, cost)
    PROVE  /\ cash' \in Int /\ realized' \in Int /\ lastId' \in Nat
           /\ position' \in [id : Nat, shares : Nat, cost : Int]
           /\ LedgerIdentity'
<1> DEFINE gain == p * q
<1>1. gain \in Nat
  BY Products
<1>2. cash' = cash + gain /\ realized' = realized + gain - cost
  BY DEF Sell
<1> HIDE DEF gain
<1>3. position \in [id : Nat, shares : Nat, cost : Int]
  BY DEF BookInv, BookTypes
<1>4. /\ position' \in [id : Nat, shares : Nat, cost : Int]
      /\ position'.cost = position.cost - cost
  <2>1. CASE q = position.shares
    BY <1>3, <2>1 DEF Sell, NoPosition
  <2>2. CASE q # position.shares
    <3>1. position' = [position EXCEPT !.shares = position.shares - q,
                                       !.cost = position.cost - cost]
      BY <2>2 DEF Sell
    <3>2. position.shares - q \in Nat /\ position.cost - cost \in Int
      BY <1>3
    <3>. QED
      BY <1>3, <3>1, <3>2
  <2>. QED
    BY <2>1, <2>2
<1>5. LedgerIdentity'
  BY <1>1, <1>2, <1>4, MoneyAssumption DEF BookInv, BookTypes, LedgerIdentity
<1>. QED
  BY <1>1, <1>2, <1>4, <1>5 DEF Sell, BookInv, BookTypes

LEMMA OwnCostType ==
    ASSUME BookInv, NEW l \in Leaders, NEW q \in Nat, own[l].shares # 0
    PROVE  OwnCost(l, q) \in Int /\ ReleasedCost(l, q) \in Int
<1>1. own[l].cost \in Int /\ own[l].shares \in Nat \ {0} /\ position.cost \in Int
  BY DEF BookInv, BookTypes
<1>2. own[l].cost * q \in Int
  BY <1>1, Products
<1>3. OwnCost(l, q) \in Int
  BY <1>1, <1>2, Quotients DEF OwnCost
<1>. QED
  BY <1>1, <1>3 DEF ReleasedCost

LEMMA FillExitKeepsBook ==
    ASSUME BookInv, NEW l \in Leaders, NEW x \in ExitRow, NEW tr, NEW usable,
           FillExit(l, x, tr, usable)
    PROVE  BookInv'
<1> DEFINE target == Smaller(x.remaining, Smaller(own[l].shares, position.shares))
<1>1. CASE UNCHANGED book /\ \E y \in ExitRow : exit' = [exit EXCEPT ![l] = y]
  BY <1>1 DEF BookInv, BookTypes, LedgerIdentity, book
<1>2. CASE ~Gone(l, x) /\ \E q \in SellFills(target), p \in SellPrices :
              SellPart(l, x, tr, q, p)
  <2>1. PICK q \in SellFills(target), p \in SellPrices : SellPart(l, x, tr, q, p)
    BY <1>2
  <2>2. own[l].shares \in Nat \ {0} /\ position.shares \in Nat /\ x.remaining \in Nat
    BY <1>2 DEF BookInv, BookTypes, Gone, ExitRow
  <2>3. target \in Nat /\ target <= x.remaining
        /\ target <= own[l].shares /\ target <= position.shares
    BY <2>2 DEF Smaller
  <2> HIDE DEF target
  <2>4. q \in Nat /\ q <= target /\ p \in Nat
    BY <2>3, MoneyAssumption DEF SellFills
  <2>5. OwnCost(l, q) \in Int /\ ReleasedCost(l, q) \in Int
    BY <2>2, <2>4, OwnCostType
  <2>6. q <= position.shares /\ (q = position.shares => ReleasedCost(l, q) = position.cost)
    BY <2>2, <2>3, <2>4 DEF ReleasedCost
  <2>7. Sell(q, p, ReleasedCost(l, q))
    BY <2>1 DEF SellPart
  <2>8. /\ cash' \in Int /\ realized' \in Int /\ lastId' \in Nat
        /\ position' \in [id : Nat, shares : Nat, cost : Int]
        /\ LedgerIdentity'
    BY <2>4, <2>5, <2>6, <2>7, SellKeepsBook
  <2>9. own' \in [Leaders -> [shares : Nat, cost : Int]]
    BY <2>1, <2>2, <2>3, <2>4, <2>5 DEF SellPart, BookInv, BookTypes
  <2>10. exit' \in [Leaders -> ExitRow]
    BY <2>1, <2>2, <2>3, <2>4 DEF SellPart, BookInv, ExitRow
  <2>. QED
    BY <2>8, <2>9, <2>10 DEF BookInv, BookTypes
<1>3. [x EXCEPT !.remaining = 0] \in ExitRow
  BY DEF ExitRow
<1>. QED
  BY <1>1, <1>2, <1>3 DEF FillExit

LEMMA ExitTargetType ==
    ASSUME BookInv, NEW l \in Leaders, NEW minimum \in Nat, NEW part \in Nat, NEW after
    PROVE  ExitTarget(l, part, after, minimum) \in Nat
<1>1. own[l].shares \in Nat /\ exit[l].remaining \in Nat
  BY DEF BookInv, BookTypes, ExitRow
<1>2. Kept(l) \in Nat
  BY <1>1 DEF Kept, Smaller
<1>. QED
  BY <1>1, <1>2 DEF ExitTarget, Smaller, Positive

LEMMA AcceptSellKeepsBook ==
    ASSUME BookInv, NEW e \in Events, AcceptSell(e)
    PROVE  BookInv'
<1> DEFINE l == Leader(e)
           x(part, minimum) ==
               [remaining |-> ExitTarget(l, part, LeaderAfter(e, NextTid(e)), minimum),
                pos |-> position.id, trade |-> {e}, ts |-> Source[e].ts,
                gen |-> exit[l].gen + 1]
<1>1. l \in Leaders /\ Source[e].ts \in Nat
  BY SourceAssumption DEF Leader
<1>2. CASE UNCHANGED <<book, exit>>
  BY <1>2 DEF BookInv, BookTypes, LedgerIdentity, book
<1>3. CASE \E minimum \in {0, MinOrder},
              part \in PartOf(Free(l), Source[e].size, leaderShares[l]) :
              \E tr : FillExit(l, x(part, minimum), tr, minimum = MinOrder)
  <2>1. PICK minimum \in {0, MinOrder},
             part \in PartOf(Free(l), Source[e].size, leaderShares[l]) :
             \E tr : FillExit(l, x(part, minimum), tr, minimum = MinOrder)
    BY <1>3
  <2>2. minimum \in Nat /\ part \in Nat
    BY <1>1, MoneyAssumption DEF PartOf, Free, Kept, Smaller, BookInv, BookTypes, ExitRow
  <2>3. x(part, minimum) \in ExitRow
    BY <1>1, <2>2, ExitTargetType DEF ExitRow, BookInv, BookTypes
  <2>. QED
    BY <1>1, <2>1, <2>3, FillExitKeepsBook
<1>. QED
  BY <1>2, <1>3 DEF AcceptSell

LEMMA ExitRowChange ==
    ASSUME NEW x \in ExitRow, NEW n \in Nat
    PROVE  [x EXCEPT !.remaining = n, !.gen = @ + 1] \in ExitRow
<1> DEFINE y == [x EXCEPT !.remaining = n]
<1>1. y \in ExitRow
  BY DEF ExitRow
<1> HIDE DEF y
<1>2. [y EXCEPT !.gen = @ + 1] \in ExitRow
  BY <1>1 DEF ExitRow
<1>. QED
  BY <1>2 DEF y

LEMMA RiskSellKeepsBook ==
    ASSUME BookInv, NEW q \in 1..position.shares, NEW p \in SellPrices, RiskSell(q, p)
    PROVE  BookInv'
<1> DEFINE total == position.shares
           cost == IF q = total THEN position.cost ELSE (position.cost * q) \div total
<1>1. total \in Nat \ {0} /\ q \in Nat /\ q <= total /\ p \in Nat /\ position.cost \in Int
  BY MoneyAssumption DEF BookInv, BookTypes
<1>2. cost \in Int
  BY <1>1, Products, Quotients
<1>3. Sell(q, p, cost)
  BY DEF RiskSell
<1>4. q = position.shares => cost = position.cost
  OBVIOUS
<1> HIDE DEF cost
<1>5. /\ cash' \in Int /\ realized' \in Int /\ lastId' \in Nat
      /\ position' \in [id : Nat, shares : Nat, cost : Int]
      /\ LedgerIdentity'
  BY <1>1, <1>2, <1>3, <1>4, SellKeepsBook
<1>6. own' \in [Leaders -> [shares : Nat, cost : Int]]
  <2>1. \A l \in Leaders : Scaled(own[l].shares, q, total) \in Nat
                           /\ Scaled(own[l].cost, q, total) \in Int
    BY <1>1, ScaledType DEF BookInv, BookTypes
  <2>. QED
    BY <2>1 DEF RiskSell
<1>7. exit' \in [Leaders -> ExitRow]
  <2>1. \A l \in Leaders : Scaled(exit[l].remaining, q, total) \in Nat
    BY <1>1, ScaledType DEF BookInv, ExitRow
  <2>2. exit' = ScaledExits(q, total)
    BY DEF RiskSell
  <2>3. \A l \in Leaders : [exit[l] EXCEPT !.remaining = Scaled(@, q, total), !.gen = @ + 1]
                           \in ExitRow
    BY <2>1, ExitRowChange DEF BookInv
  <2>. QED
    BY <2>2, <2>3 DEF ScaledExits, BookInv
<1>. QED
  BY <1>5, <1>6, <1>7 DEF BookInv, BookTypes

LEMMA SettleKeepsBook ==
    ASSUME BookInv, NEW p \in Payouts, Settle(p)
    PROVE  BookInv'
<1>1. position.shares \in Nat /\ position.cost \in Int /\ p \in Nat
  BY MoneyAssumption DEF BookInv, BookTypes
<1>2. Sell(position.shares, p, position.cost)
  BY DEF Settle
<1>3. /\ cash' \in Int /\ realized' \in Int /\ lastId' \in Nat
      /\ position' \in [id : Nat, shares : Nat, cost : Int]
      /\ LedgerIdentity'
  BY <1>1, <1>2, SellKeepsBook
<1>4. own' \in [Leaders -> [shares : Nat, cost : Int]]
  <2>1. own' = [l \in Leaders |-> NoHolding]
    BY DEF Settle
  <2>. QED
    BY <2>1 DEF NoHolding
<1>5. exit' \in [Leaders -> ExitRow]
  <2>1. exit' = [l \in Leaders |->
                    IF exit[l].gen = 0 THEN exit[l]
                    ELSE [exit[l] EXCEPT !.remaining = 0, !.gen = @ + 1]]
    BY DEF Settle
  <2>2. \A l \in Leaders : [exit[l] EXCEPT !.remaining = 0, !.gen = @ + 1] \in ExitRow
    BY ExitRowChange DEF BookInv
  <2>. QED
    BY <2>1, <2>2 DEF BookInv
<1>. QED
  BY <1>3, <1>4, <1>5 DEF BookInv, BookTypes

LEMMA ResetKeepsBook ==
    ASSUME BookInv, Reset
    PROVE  BookInv'
<1>1. cash' \in Int /\ realized' \in Int /\ lastId' \in Nat
  BY MoneyAssumption DEF Reset, BookInv, BookTypes
<1>2. position' \in [id : Nat, shares : Nat, cost : Int] /\ position'.cost = 0
  BY DEF Reset, NoPosition
<1>3. own' \in [Leaders -> [shares : Nat, cost : Int]]
  BY DEF Reset, NoHolding
<1>4. exit' \in [Leaders -> ExitRow]
  BY DEF Reset, NoExit, ExitRow
<1>5. LedgerIdentity'
  BY <1>2, MoneyAssumption DEF Reset, LedgerIdentity
<1>. QED
  BY <1>1, <1>2, <1>3, <1>4, <1>5 DEF BookInv, BookTypes

-----------------------------------------------------------------------------
(* What waits in a queue is a trade.                                       *)

QueueInv == queue \in [Leaders -> Seq(Events)]

LEMMA InitQueue == Init => QueueInv
BY DEF Init, QueueInv

LEMMA NextKeepsQueue ==
    ASSUME QueueInv, [Next]_vars
    PROVE  QueueInv'
<1>1. CASE UNCHANGED queue
  BY <1>1 DEF QueueInv
<1>2. CASE \E e \in Events : Schedule(e)
  <2>1. PICK e \in Events : Schedule(e)
    BY <1>2
  <2>2. Leader(e) \in Leaders
    BY SourceAssumption DEF Leader
  <2>3. queue' = [queue EXCEPT ![Leader(e)] = Append(queue[Leader(e)], e)]
    BY <2>1 DEF Schedule
  <2>. QED
    BY <2>2, <2>3 DEF QueueInv
<1>3. CASE \E l \in Leaders : Process(l) \/ Forget(l)
  <2>1. PICK l \in Leaders : queue[l] # <<>> /\ queue' = [queue EXCEPT ![l] = Tail(queue[l])]
    BY <1>3 DEF Process, Forget
  <2>. QED
    BY <2>1 DEF QueueInv
<1>4. CASE Restart
  BY <1>4 DEF Restart, QueueInv
<1>. QED
  BY <1>1, <1>2, <1>3, <1>4 DEF Next, vars, StartBuy, RunBuy, StartExit,
     ReadExitPosition, RunExit, CloseExit, ToggleLeader, StartRisk, RunRisk,
     StartSettle, RunSettle, TogglePause, SetRule, Reset

LEMMA HeadIsTrade ==
    ASSUME QueueInv, NEW l \in Leaders, queue[l] # <<>>
    PROVE  Head(queue[l]) \in Events
BY DEF QueueInv

-----------------------------------------------------------------------------
LEMMA NextKeepsBook ==
    ASSUME BookInv, QueueInv, [Next]_vars
    PROVE  BookInv'
<1>1. CASE UNCHANGED <<book, exit>>
  BY <1>1 DEF BookInv, BookTypes, LedgerIdentity, book
<1>2. CASE \E l \in Leaders : Process(l)
  <2>1. PICK l \in Leaders : Process(l)
    BY <1>2
  <2> DEFINE e == Head(queue[l])
  <2>2. e \in Events
    BY <2>1, HeadIsTrade DEF Process
  <2>3. \/ UNCHANGED <<book, exit>>
        \/ AcceptSell(e)
        \/ AcceptBuy(e)
    BY <2>1 DEF Process, signals, RejectInvalid
  <2> HIDE DEF e
  <2>4. CASE AcceptBuy(e)
    BY <1>1, <2>2, <2>4, BuyKeepsBook DEF AcceptBuy, RefuseBuy, WaitBuy, FillBuy
  <2>. QED
    BY <1>1, <2>2, <2>3, <2>4, AcceptSellKeepsBook
<1>3. CASE \E e \in Events : RunBuy(e)
  BY <1>1, <1>3, BuyKeepsBook DEF RunBuy, FillRetry
<1>4. CASE \E l \in Leaders : RunExit(l)
  <2>1. PICK l \in Leaders : RunExit(l)
    BY <1>4
  <2>2. exit[l] \in ExitRow
    BY DEF BookInv
  <2>. QED
    BY <1>1, <2>1, <2>2, FillExitKeepsBook DEF RunExit
<1>5. CASE \E l \in Leaders : CloseExit(l)
  <2>1. PICK l \in Leaders : CloseExit(l)
    BY <1>5
  <2>2. exit' \in [Leaders -> ExitRow]
    BY <2>1 DEF CloseExit, BookInv, ExitRow
  <2>. QED
    BY <2>1, <2>2 DEF CloseExit, BookInv, BookTypes, LedgerIdentity, book
<1>6. CASE RunRisk
  <2>1. CASE UNCHANGED <<book, exit>>
    BY <1>1, <2>1
  <2>2. CASE \E q \in SellFills(Smaller(riskJob.shares, position.shares)),
                p \in SellPrices : RiskSell(q, p)
    <3>1. PICK q \in SellFills(Smaller(riskJob.shares, position.shares)),
               p \in SellPrices : RiskSell(q, p)
      BY <2>2
    <3>2. q \in 1..position.shares
      BY <1>6 DEF SellFills, Smaller, BookInv, BookTypes
    <3>. QED
      BY <3>1, <3>2, RiskSellKeepsBook
  <2>. QED
    BY <1>6, <2>1, <2>2 DEF RunRisk
<1>7. CASE RunSettle
  BY <1>1, <1>7, SettleKeepsBook DEF RunSettle
<1>8. CASE Reset
  BY <1>8, ResetKeepsBook
<1>. QED
  BY <1>1, <1>2, <1>3, <1>4, <1>5, <1>6, <1>7, <1>8 DEF Next, vars, Schedule, Forget,
     StartBuy, StartExit, ReadExitPosition, ToggleLeader, StartRisk,
     StartSettle, TogglePause, SetRule, Restart, signals

LEMMA BookInvariant == Spec => [](BookInv /\ QueueInv)
<1>1. Init => BookInv /\ QueueInv
  BY InitBook, InitQueue
<1>2. BookInv /\ QueueInv /\ [Next]_vars => (BookInv /\ QueueInv)'
  BY NextKeepsBook, NextKeepsQueue
<1>. QED
  BY <1>1, <1>2, PTL DEF Spec

(* Cash and open cost always add up to the start and the realized result,  *)
(* through every purchase, exit, risk sell and payout of process_event,    *)
(* _fill_exit, _monitor_risk_token and _settle_position.                   *)
THEOREM LedgerIdentityHolds == Spec => []LedgerIdentity
<1>1. BookInv /\ QueueInv => LedgerIdentity
  BY DEF BookInv
<1>. QED
  BY <1>1, BookInvariant, PTL

-----------------------------------------------------------------------------
(* The signals.  That a waiting entry is an armed retry survives a sell    *)
(* only because an exit names sells of its own leader that still wait or   *)
(* are executed, and a payout ends every open exit only because an open    *)
(* exit has a generation.                                                  *)

OpenSignal == {"exit_pending", "executed"}

ExitSignals ==
    \A l \in Leaders :
        /\ exit[l].remaining > 0 => exit[l].gen > 0
        /\ \A e \in exit[l].trade :
              /\ Leader(e) = l /\ IsSell(e)
              /\ exit[l].remaining > 0 => trade[e] \in OpenSignal

WaitingKinds ==
    \A e \in Events :
        /\ trade[e] = "retry_pending" => IsBuy(e)
        /\ trade[e] = "exit_pending" => IsSell(e)

SignalInv ==
    /\ trade \in [Events -> Statuses]
    /\ intent \in [Events -> {"none", "active", "done"}]
    /\ WaitingIsArmed
    /\ WaitingKinds
    /\ ExitSignals

Inv == BookInv /\ QueueInv /\ SignalInv

LEMMA InitSignals == Init => SignalInv
BY DEF Init, SignalInv, Statuses, WaitingIsArmed, WaitingKinds, ExitSignals, NoExit

(* What happens to a signal that a step does not process itself.           *)
Aside(e) ==
    \/ trade'[e] = trade[e]
    \/ trade[e] = "retry_pending" /\ trade'[e] = "skipped"
    \/ trade[e] = "exit_pending" /\ trade'[e] \in {"executed", "closed"}

(* A step that processes one signal is a step of the abstract life cycle.  *)
LEMMA OneSignal ==
    ASSUME SignalInv, NEW e,
           trade' \in [Events -> Statuses],
           \A f \in Events \ {e} : Aside(f),
           e \in Events =>
               \/ Aside(e)
               \/ trade[e] = "none" /\ trade'[e] \in Lifecycle!First(e)
               \/ trade[e] = "retry_pending" /\ trade'[e] = "executed"
    PROVE  Lifecycle!LStep /\ WaitingKinds'
<1>1. \A f \in Events : IsBuy(f) => ~IsSell(f)
  BY DEF IsBuy, IsSell
<1>2. WaitingKinds'
  <2>1. SUFFICES ASSUME NEW f \in Events, trade[f] # trade'[f]
                 PROVE  /\ trade'[f] = "retry_pending" => IsBuy(f)
                        /\ trade'[f] = "exit_pending" => IsSell(f)
    BY DEF WaitingKinds, SignalInv, IsBuy, IsSell
  <2>2. CASE Aside(f)
    BY <2>1, <2>2 DEF Aside
  <2>3. CASE f = e /\ trade'[f] \in Lifecycle!First(f)
    BY <2>3, SourceAssumption DEF Lifecycle!First, IsBuy, IsSell, Sides
  <2>. QED
    BY <2>2, <2>3
<1>3. \A f \in Events :
          \/ Lifecycle!Stays(f)
          \/ Lifecycle!Decided(f)
          \/ trade[f] = "none" /\ trade'[f] \in Lifecycle!First(f)
  BY DEF Aside, Lifecycle!Stays, Lifecycle!Decided, Lifecycle!Outcomes
<1>4. \A f \in Events \ {e} :
          /\ trade[f] = "none" => Lifecycle!Stays(f)
          /\ IsBuy(f) /\ trade'[f] = "executed" => Lifecycle!Stays(f)
  BY <1>1 DEF Aside, Lifecycle!Stays, SignalInv, WaitingKinds
<1>5. trade' \in [Events -> {"none", "skipped", "retry_pending", "executed",
                             "exit_pending", "closed"}]
  BY DEF Statuses
<1>6. \A f, g \in Events :
          trade[f] = "none" /\ trade[g] = "none"
              /\ ~Lifecycle!Stays(f) /\ ~Lifecycle!Stays(g) => f = g
  BY <1>4
<1>7. \A f, g \in Events :
          /\ IsBuy(f) /\ trade'[f] = "executed" /\ ~Lifecycle!Stays(f)
          /\ IsBuy(g) /\ trade'[g] = "executed" /\ ~Lifecycle!Stays(g)
          => f = g
  BY <1>4
<1>. QED
  BY <1>2, <1>3, <1>5, <1>6, <1>7 DEF Lifecycle!LStep

(* Giving up waiting entries, and finishing the sells that wait.           *)
LEMMA SkipAside ==
    ASSUME SignalInv, NEW S, DropIntents(S)
    PROVE  /\ Skip(trade, S) \in [Events -> Statuses]
           /\ intent' \in [Events -> {"none", "active", "done"}]
           /\ \A e \in Events :
                 /\ Skip(trade, S)[e] = "retry_pending" <=> intent'[e] = "active"
                 /\ \/ Skip(trade, S)[e] = trade[e]
                    \/ trade[e] = "retry_pending" /\ Skip(trade, S)[e] = "skipped"
BY DEF SignalInv, WaitingIsArmed, Skip, DropIntents, Statuses

LEMMA FinishType ==
    ASSUME NEW tr \in [Events -> Statuses], NEW S
    PROVE  /\ Finish(tr, S) \in [Events -> Statuses]
           /\ \A e \in Events :
                 \/ Finish(tr, S)[e] = tr[e]
                 \/ /\ e \in S /\ tr[e] = "exit_pending"
                    /\ Finish(tr, S)[e] = "closed"
BY DEF Finish, Statuses

(* An exit x of leader l on the statuses `tr' so far, as both callers of   *)
(* _fill_exit hand it over.                                                *)
Fillable(l, x, tr) ==
    /\ x \in ExitRow
    /\ tr \in [Events -> Statuses]
    /\ \A e \in Events : trade[e] \in OpenSignal => tr[e] = trade[e]
    /\ x.remaining > 0 => x.gen > 0
    /\ \A e \in x.trade :
          /\ Leader(e) = l /\ IsSell(e)
          /\ x.remaining > 0 => tr[e] \in OpenSignal

LEMMA FillExitSignals ==
    ASSUME BookInv, SignalInv, NEW l \in Leaders, NEW x, NEW tr, NEW usable,
           Fillable(l, x, tr), FillExit(l, x, tr, usable)
    PROVE  /\ trade' \in [Events -> Statuses]
           /\ \A e \in Events :
                 \/ trade'[e] = tr[e]
                 \/ tr[e] = "exit_pending" /\ trade'[e] \in {"executed", "closed"}
           /\ ~Gone(l, x) => \A e \in x.trade : trade'[e] \in {tr[e], "executed"}
           /\ ExitSignals'
<1> DEFINE mine == OfLeader(l)
           Result(y) ==
               /\ exit' = [exit EXCEPT ![l] = y]
               /\ y.trade = x.trade /\ y.gen = x.gen
               /\ y.remaining > 0 =>
                     x.remaining > 0 /\ \A e \in x.trade : trade'[e] \in OpenSignal
           Settled ==
               /\ trade' \in [Events -> Statuses]
               /\ \A e \in Events :
                     \/ trade'[e] = tr[e]
                     \/ /\ tr[e] = "exit_pending" /\ Leader(e) = l
                        /\ trade'[e] \in {"executed", "closed"}
               /\ ~Gone(l, x) => \A e \in x.trade : trade'[e] \in {tr[e], "executed"}
<1>1. \A e \in mine : Leader(e) = l
  BY DEF OfLeader
<1>2. Settled /\ \E y : Result(y)
  <2>1. CASE /\ Gone(l, x) /\ trade' = Finish(tr, mine)
             /\ exit' = [exit EXCEPT ![l] = [x EXCEPT !.remaining = 0]]
    <3>1. Result([x EXCEPT !.remaining = 0])
      BY <2>1 DEF Fillable, ExitRow
    <3>2. Settled
      BY <1>1, <2>1, FinishType DEF Fillable
    <3>. QED
      BY <3>1, <3>2
  <2>2. CASE trade' = tr /\ exit' = [exit EXCEPT ![l] = x]
    <3>1. Result(x)
      BY <2>2 DEF Fillable
    <3>. QED
      BY <2>2, <3>1 DEF Fillable
  <2>3. ASSUME NEW q \in SellFills(Smaller(x.remaining, Smaller(own[l].shares, position.shares))),
               NEW p \in SellPrices,
               ~Gone(l, x), SellPart(l, x, tr, q, p)
        PROVE  Settled /\ \E y : Result(y)
    <3> DEFINE done == [e \in Events |-> IF e \in x.trade THEN "executed" ELSE tr[e]]
               y == [x EXCEPT !.remaining = x.remaining - q]
    <3>1. x.remaining \in Nat /\ q \in Nat \ {0} /\ q <= x.remaining
      BY DEF SellFills, Smaller, Fillable, ExitRow, BookInv, BookTypes
    <3>2. \A e \in x.trade : e \in Events /\ Leader(e) = l /\ tr[e] \in OpenSignal
      BY <3>1 DEF Fillable, ExitRow
    <3>3. done \in [Events -> Statuses]
      BY DEF Fillable, Statuses
    <3>4. trade' = IF q = x.remaining THEN Finish(done, mine) ELSE done
      BY <2>3 DEF SellPart
    <3>5. trade' \in [Events -> Statuses]
          /\ \A e \in Events :
                \/ trade'[e] = done[e]
                \/ /\ Leader(e) = l /\ done[e] = "exit_pending"
                   /\ trade'[e] = "closed"
      BY <1>1, <3>3, <3>4, FinishType
    <3>6. Settled
      <4>1. \A e \in x.trade : trade'[e] = "executed"
        BY <3>2, <3>5
      <4>. QED
        BY <3>2, <3>5, <4>1 DEF OpenSignal
    <3>7. exit' = [exit EXCEPT ![l] = y]
      BY <2>3 DEF SellPart
    <3>8. y.trade = x.trade /\ y.gen = x.gen /\ y.remaining = x.remaining - q
      BY DEF Fillable, ExitRow
    <3>9. ASSUME y.remaining > 0
          PROVE  x.remaining > 0 /\ \A e \in x.trade : trade'[e] \in OpenSignal
      <4>1. trade' = done
        BY <3>1, <3>4, <3>8, <3>9
      <4>. QED
        BY <3>1, <3>2, <4>1 DEF OpenSignal
    <3>10. Result(y)
      BY <3>7, <3>8, <3>9
    <3>. QED
      BY <3>6, <3>10
  <2>. QED
    BY <2>1, <2>2, <2>3 DEF FillExit
<1> HIDE DEF mine
<1>3. PICK y : Result(y)
  BY <1>2
<1>4. ExitSignals'
  <2>1. SUFFICES ASSUME NEW m \in Leaders
                 PROVE  /\ exit'[m].remaining > 0 => exit'[m].gen > 0
                        /\ \A e \in exit'[m].trade :
                              /\ Leader(e) = m /\ IsSell(e)
                              /\ exit'[m].remaining > 0 => trade'[e] \in OpenSignal
    BY DEF ExitSignals
  <2>2. CASE m = l
    BY <1>3, <2>2 DEF Fillable, BookInv
  <2>3. CASE m # l
    <3>1. exit'[m] = exit[m] /\ exit[m].trade \subseteq Events
      BY <1>3, <2>3 DEF BookInv, ExitRow
    <3>2. \A e \in Events : Leader(e) = m => trade'[e] = tr[e]
      BY <1>2, <2>3
    <3>. QED
      BY <3>1, <3>2 DEF Fillable, SignalInv, ExitSignals
  <2>. QED
    BY <2>2, <2>3
<1>. QED
  BY <1>2, <1>4

-----------------------------------------------------------------------------
(* One lemma per step that touches the signals.                            *)

LEMMA AcceptSellSignals ==
    ASSUME Inv, NEW e \in Events, trade[e] = "none", IsSell(e), AcceptSell(e)
    PROVE  SignalInv' /\ Lifecycle!LStep
<1> USE DEF Inv
<1> DEFINE l == Leader(e)
           older == {f \in OfLeader(l) : Source[f].ts <= Source[e].ts}
           tr(status) == [Skip(trade, older) EXCEPT ![e] = status]
           x(part, minimum) ==
               [remaining |-> ExitTarget(l, part, LeaderAfter(e, NextTid(e)), minimum),
                pos |-> position.id, trade |-> {e}, ts |-> Source[e].ts,
                gen |-> exit[l].gen + 1]
<1>1. l \in Leaders /\ Source[e].ts \in Nat
  BY SourceAssumption DEF Leader
<1>2. DropIntents(older)
  BY DEF AcceptSell
<1>3. /\ Skip(trade, older) \in [Events -> Statuses]
      /\ intent' \in [Events -> {"none", "active", "done"}]
      /\ \A f \in Events :
            /\ Skip(trade, older)[f] = "retry_pending" <=> intent'[f] = "active"
            /\ \/ Skip(trade, older)[f] = trade[f]
               \/ trade[f] = "retry_pending" /\ Skip(trade, older)[f] = "skipped"
  BY <1>2, SkipAside
<1> HIDE DEF older
<1>4. ASSUME NEW status \in {"skipped", "exit_pending"}
      PROVE  /\ tr(status) \in [Events -> Statuses]
             /\ tr(status)[e] = status
             /\ \A f \in Events \ {e} : tr(status)[f] = Skip(trade, older)[f]
  BY <1>3 DEF Statuses
<1>5. intent'[e] # "active"
  BY <1>3
<1>6. CASE trade' = tr("skipped") /\ UNCHANGED <<book, exit>>
  <2>1. /\ trade' \in [Events -> Statuses] /\ trade'[e] = "skipped"
        /\ \A f \in Events \ {e} : trade'[f] = Skip(trade, older)[f]
    BY <1>4, <1>6
  <2>2. trade'[e] \in Lifecycle!First(e)
    BY <2>1 DEF Lifecycle!First
  <2>3. Lifecycle!LStep /\ WaitingKinds'
    BY <1>3, <2>1, <2>2, OneSignal DEF Aside
  <2>4. WaitingIsArmed'
    BY <1>3, <1>5, <2>1 DEF WaitingIsArmed
  <2>5. ExitSignals'
    BY <1>3, <1>6, <2>1 DEF SignalInv, ExitSignals, OpenSignal, BookInv, ExitRow
  <2>. QED
    BY <1>3, <2>1, <2>3, <2>4, <2>5 DEF SignalInv
<1>7. CASE /\ position.id # 0 /\ own[l].shares > 0
           /\ \E minimum \in {0, MinOrder},
                 part \in PartOf(Free(l), Source[e].size, leaderShares[l]) :
                 FillExit(l, x(part, minimum), tr("exit_pending"), minimum = MinOrder)
  <2>1. PICK minimum \in {0, MinOrder},
             part \in PartOf(Free(l), Source[e].size, leaderShares[l]) :
             FillExit(l, x(part, minimum), tr("exit_pending"), minimum = MinOrder)
    BY <1>7
  <2>2. minimum \in Nat /\ part \in Nat
    BY <1>1, MoneyAssumption DEF PartOf, Free, Kept, Smaller, BookInv, BookTypes, ExitRow
  <2>3. x(part, minimum) \in ExitRow
    BY <1>1, <2>2, ExitTargetType DEF ExitRow, BookInv, BookTypes
  <2>4. exit[l].gen + 1 > 0
    BY <1>1 DEF BookInv, ExitRow
  <2>5. \A f \in Events : trade[f] \in OpenSignal => tr("exit_pending")[f] = trade[f]
    BY <1>3, <1>4 DEF OpenSignal
  <2>6. Fillable(l, x(part, minimum), tr("exit_pending"))
    BY <1>4, <2>3, <2>4, <2>5 DEF Fillable, OpenSignal
  <2>7. /\ trade' \in [Events -> Statuses]
        /\ \A f \in Events :
              \/ trade'[f] = tr("exit_pending")[f]
              \/ /\ tr("exit_pending")[f] = "exit_pending"
                 /\ trade'[f] \in {"executed", "closed"}
        /\ ~Gone(l, x(part, minimum)) =>
              \A f \in x(part, minimum).trade :
                 trade'[f] \in {tr("exit_pending")[f], "executed"}
        /\ ExitSignals'
    <3> DEFINE y == x(part, minimum)
               done == tr("exit_pending")
    <3>1. /\ BookInv /\ SignalInv /\ l \in Leaders
          /\ Fillable(l, y, done) /\ FillExit(l, y, done, minimum = MinOrder)
      BY <1>1, <2>1, <2>6 DEF y, done
    <3> HIDE DEF Inv, x, tr, l, y, done
    <3>2. /\ trade' \in [Events -> Statuses]
          /\ \A f \in Events :
                \/ trade'[f] = done[f]
                \/ done[f] = "exit_pending" /\ trade'[f] \in {"executed", "closed"}
          /\ ~Gone(l, y) => \A f \in y.trade : trade'[f] \in {done[f], "executed"}
          /\ ExitSignals'
      BY <3>1, ZenonT(60), FillExitSignals
    <3>. QED
      BY <3>2 DEF y, done
  <2>8. ~Gone(l, x(part, minimum))
    BY <1>7 DEF Gone, BookInv, BookTypes
  <2>9. trade'[e] \in Lifecycle!First(e)
    <3>1. trade'[e] \in {"exit_pending", "executed"}
      BY <1>4, <2>7, <2>8
    <3>. QED
      BY <3>1 DEF Lifecycle!First, IsBuy, IsSell
  <2>10. \A f \in Events \ {e} : Aside(f)
    BY <1>3, <1>4, <2>7 DEF Aside
  <2>11. Lifecycle!LStep /\ WaitingKinds'
    BY <2>7, <2>9, <2>10, OneSignal
  <2>12. WaitingIsArmed'
    BY <1>3, <1>4, <1>5, <2>7, <2>8 DEF WaitingIsArmed
  <2>. QED
    BY <1>3, <2>7, <2>11, <2>12 DEF SignalInv
<1>8. CASE OutOfOrderExit(l, Source[e].ts)
           \/ ~(position.id # 0 /\ own[l].shares > 0 /\ leaderShares[l] > 0)
  BY <1>6, <1>8 DEF AcceptSell, older
<1>9. CASE /\ ~OutOfOrderExit(l, Source[e].ts)
           /\ position.id # 0 /\ own[l].shares > 0 /\ leaderShares[l] > 0
  BY <1>7, <1>9 DEF AcceptSell, older
<1>. QED
  BY <1>8, <1>9

LEMMA AcceptBuySignals ==
    ASSUME Inv, NEW e \in Events, trade[e] = "none", IsBuy(e), AcceptBuy(e)
    PROVE  SignalInv' /\ Lifecycle!LStep
<1> USE DEF Inv
<1>1. PICK status \in {"skipped", "retry_pending", "executed"} :
          /\ trade' = [trade EXCEPT ![e] = status]
          /\ IF status = "retry_pending"
             THEN intent' = [intent EXCEPT ![e] = "active"] ELSE intent' = intent
  BY DEF AcceptBuy, RefuseBuy, WaitBuy, FillBuy
<1>2. exit' = exit
  BY DEF AcceptBuy
<1>3. /\ trade' \in [Events -> Statuses] /\ trade'[e] = status
      /\ \A f \in Events \ {e} : trade'[f] = trade[f]
  BY <1>1 DEF SignalInv, Statuses
<1>4. trade'[e] \in Lifecycle!First(e)
  BY <1>3 DEF Lifecycle!First
<1>5. Lifecycle!LStep /\ WaitingKinds'
  BY <1>3, <1>4, OneSignal DEF Aside
<1>6. WaitingIsArmed' /\ intent' \in [Events -> {"none", "active", "done"}]
  BY <1>1, <1>3 DEF SignalInv, WaitingIsArmed
<1>7. ExitSignals'
  BY <1>2, <1>3 DEF SignalInv, ExitSignals, OpenSignal, BookInv, ExitRow
<1>. QED
  BY <1>3, <1>5, <1>6, <1>7 DEF SignalInv

(* A step that only gives up waiting entries or finishes waiting sells.    *)
LEMMA AsideOnly ==
    ASSUME Inv, trade' \in [Events -> Statuses],
           \A e \in Events : Aside(e),
           intent' \in [Events -> {"none", "active", "done"}],
           WaitingIsArmed', ExitSignals'
    PROVE  SignalInv' /\ Lifecycle!LStep
BY OneSignal DEF Inv, SignalInv

LEMMA StartBuySignals ==
    ASSUME Inv, NEW e \in Events, StartBuy(e)
    PROVE  SignalInv' /\ Lifecycle!LStep
<1> USE DEF Inv
<1>1. CASE UNCHANGED <<trade, intent, exit>>
  BY <1>1, AsideOnly DEF SignalInv, Aside, WaitingIsArmed, ExitSignals
<1>2. CASE trade' = Skip(trade, {e}) /\ DropIntents({e}) /\ exit' = exit
  <2>1. /\ trade' \in [Events -> Statuses]
        /\ intent' \in [Events -> {"none", "active", "done"}]
        /\ WaitingIsArmed'
        /\ \A f \in Events : \/ trade'[f] = trade[f]
                             \/ trade[f] = "retry_pending" /\ trade'[f] = "skipped"
    BY <1>2, SkipAside DEF WaitingIsArmed
  <2>2. ExitSignals'
    BY <1>2, <2>1 DEF SignalInv, ExitSignals, OpenSignal, BookInv, ExitRow
  <2>. QED
    BY <2>1, <2>2, AsideOnly DEF Aside
<1>. QED
  BY <1>1, <1>2 DEF StartBuy

LEMMA RunBuySignals ==
    ASSUME Inv, NEW e \in Events, RunBuy(e)
    PROVE  SignalInv' /\ Lifecycle!LStep
<1> USE DEF Inv
<1>1. CASE UNCHANGED <<trade, intent, exit>>
  BY <1>1, AsideOnly DEF SignalInv, Aside, WaitingIsArmed, ExitSignals
<1>2. CASE /\ intent[e] = "active" /\ DropIntents({e}) /\ exit' = exit
           /\ \E status \in {"skipped", "executed"} : trade' = [trade EXCEPT ![e] = status]
  <2>1. trade[e] = "retry_pending" /\ intent'[e] = "done"
        /\ \A f \in Events \ {e} : intent'[f] = intent[f]
    BY <1>2 DEF SignalInv, WaitingIsArmed, DropIntents
  <2>2. /\ trade' \in [Events -> Statuses] /\ trade'[e] \in {"skipped", "executed"}
        /\ \A f \in Events \ {e} : trade'[f] = trade[f]
    BY <1>2 DEF SignalInv, Statuses
  <2>3. Lifecycle!LStep /\ WaitingKinds'
    BY <2>1, <2>2, OneSignal DEF Aside
  <2>4. WaitingIsArmed' /\ intent' \in [Events -> {"none", "active", "done"}]
    BY <1>2, <2>1, <2>2 DEF SignalInv, WaitingIsArmed, DropIntents
  <2>5. ExitSignals'
    BY <1>2, <2>1, <2>2 DEF SignalInv, ExitSignals, OpenSignal, BookInv, ExitRow
  <2>. QED
    BY <2>2, <2>3, <2>4, <2>5 DEF SignalInv
<1>. QED
  BY <1>1, <1>2 DEF RunBuy, FillRetry, EndBuy

LEMMA RunExitSignals ==
    ASSUME Inv, NEW l \in Leaders, RunExit(l)
    PROVE  SignalInv' /\ Lifecycle!LStep
<1> USE DEF Inv
<1>1. CASE UNCHANGED <<trade, exit>>
  BY <1>1, AsideOnly DEF RunExit, SignalInv, Aside, WaitingIsArmed, ExitSignals
<1>2. CASE StillOpen(l) /\ FillExit(l, exit[l], trade, TRUE)
  <2>1. Fillable(l, exit[l], trade)
    BY DEF Fillable, SignalInv, ExitSignals, BookInv
  <2>2. /\ trade' \in [Events -> Statuses]
        /\ \A e \in Events :
              \/ trade'[e] = trade[e]
              \/ trade[e] = "exit_pending" /\ trade'[e] \in {"executed", "closed"}
        /\ ExitSignals'
    <3> DEFINE x == exit[l]
    <3>1. BookInv /\ SignalInv /\ Fillable(l, x, trade) /\ FillExit(l, x, trade, TRUE)
      BY <1>2, <2>1 DEF x
    <3> HIDE DEF Inv, x
    <3>. QED
      BY <3>1, ZenonT(60), FillExitSignals
  <2>3. intent' = intent
    BY DEF RunExit
  <2>4. WaitingIsArmed'
    BY <2>2, <2>3 DEF SignalInv, WaitingIsArmed
  <2>. QED
    BY <2>2, <2>3, <2>4, AsideOnly DEF Aside, SignalInv
<1>. QED
  BY <1>1, <1>2 DEF RunExit

LEMMA CloseExitSignals ==
    ASSUME Inv, NEW l \in Leaders, CloseExit(l)
    PROVE  SignalInv' /\ Lifecycle!LStep
<1> USE DEF Inv
<1>1. CASE UNCHANGED <<trade, exit>>
  BY <1>1, AsideOnly DEF CloseExit, SignalInv, Aside, WaitingIsArmed, ExitSignals
<1>2. CASE /\ exit' = [exit EXCEPT ![l].remaining = 0]
           /\ trade' = Finish(trade, OfLeader(l))
  <2>1. /\ trade' \in [Events -> Statuses]
        /\ \A e \in Events :
              \/ trade'[e] = trade[e]
              \/ /\ Leader(e) = l /\ trade[e] = "exit_pending"
                 /\ trade'[e] = "closed"
    BY <1>2, FinishType DEF SignalInv, OfLeader
  <2>2. intent' = intent
    BY DEF CloseExit
  <2>3. WaitingIsArmed'
    BY <2>1, <2>2 DEF SignalInv, WaitingIsArmed
  <2>4. ExitSignals'
    <3>1. \A m \in Leaders : exit'[m].trade = exit[m].trade /\ exit[m].trade \subseteq Events
      BY <1>2 DEF BookInv, ExitRow
    <3>2. exit'[l].remaining = 0 /\ \A m \in Leaders \ {l} : exit'[m] = exit[m]
      BY <1>2 DEF BookInv, ExitRow
    <3>3. \A m \in Leaders \ {l}, e \in Events : Leader(e) = m => trade'[e] = trade[e]
      BY <2>1
    <3>. QED
      BY <3>1, <3>2, <3>3 DEF SignalInv, ExitSignals
  <2>. QED
    BY <2>1, <2>2, <2>3, <2>4, AsideOnly DEF Aside, SignalInv
<1>. QED
  BY <1>1, <1>2 DEF CloseExit

(* A risk sell or a payout gives up every waiting entry and, when it ends  *)
(* the position, every waiting sell; an exit that stays open keeps its     *)
(* signals.                                                                *)
LEMMA DrainSignals ==
    ASSUME Inv, DropIntents(Events),
           \/ trade' = Skip(trade, Events)
           \/ trade' = Skip(Finish(trade, Events), Events)
    PROVE  /\ trade' \in [Events -> Statuses]
           /\ intent' \in [Events -> {"none", "active", "done"}]
           /\ WaitingIsArmed'
           /\ \A e \in Events : Aside(e)
           /\ trade' = Skip(trade, Events) =>
                 \A e \in Events : trade[e] \in OpenSignal => trade'[e] = trade[e]
<1> USE DEF Inv
<1>1. ASSUME NEW tr \in [Events -> Statuses],
             trade' = Skip(tr, Events),
             \A e \in Events : \/ tr[e] = trade[e]
                               \/ trade[e] = "exit_pending" /\ tr[e] = "closed"
      PROVE  /\ trade' \in [Events -> Statuses]
             /\ WaitingIsArmed'
             /\ \A e \in Events : Aside(e)
  <2>1. \A e \in Events :
            trade'[e] = IF intent[e] = "active" /\ tr[e] = "retry_pending"
                        THEN "skipped" ELSE tr[e]
    BY <1>1 DEF Skip
  <2>2. trade' \in [Events -> Statuses]
    BY <1>1 DEF Skip, Statuses
  <2>3. \A e \in Events : intent'[e] # "active"
    BY DEF DropIntents
  <2>4. \A e \in Events : trade'[e] # "retry_pending"
    BY <1>1, <2>1 DEF SignalInv, WaitingIsArmed
  <2>5. \A e \in Events : Aside(e)
    BY <1>1, <2>1 DEF Aside
  <2>. QED
    BY <2>2, <2>3, <2>4, <2>5 DEF WaitingIsArmed
<1>2. /\ Finish(trade, Events) \in [Events -> Statuses]
      /\ \A e \in Events :
            \/ Finish(trade, Events)[e] = trade[e]
            \/ trade[e] = "exit_pending" /\ Finish(trade, Events)[e] = "closed"
  BY FinishType DEF SignalInv
<1>3. intent' \in [Events -> {"none", "active", "done"}]
  BY DEF DropIntents, SignalInv
<1>4. trade' = Skip(trade, Events) =>
          \A e \in Events : trade[e] \in OpenSignal => trade'[e] = trade[e]
  BY DEF Skip, OpenSignal
<1>5. trade \in [Events -> Statuses]
  BY DEF SignalInv
<1>. QED
  BY <1>1, <1>2, <1>3, <1>4, <1>5

LEMMA RiskSellSignals ==
    ASSUME Inv, NEW q \in 1..position.shares, NEW p \in SellPrices, RiskSell(q, p)
    PROVE  SignalInv' /\ Lifecycle!LStep
<1> USE DEF Inv
<1> DEFINE total == position.shares
<1>1. total \in Nat \ {0}
  BY DEF BookInv, BookTypes
<1>2. exit' = ScaledExits(q, total)
  BY DEF RiskSell
<1>3. DropIntents(Events)
  BY DEF RiskSell
<1>4. trade' = IF q = total THEN Skip(Finish(trade, Events), Events) ELSE Skip(trade, Events)
  BY DEF RiskSell
<1>5. /\ trade' \in [Events -> Statuses]
      /\ intent' \in [Events -> {"none", "active", "done"}]
      /\ WaitingIsArmed'
      /\ \A e \in Events : Aside(e)
      /\ q # total =>
            \A e \in Events : trade[e] \in OpenSignal => trade'[e] = trade[e]
  BY <1>3, <1>4, DrainSignals
<1>6. ExitSignals'
  <2>1. SUFFICES ASSUME NEW l \in Leaders
                 PROVE  /\ exit'[l].remaining > 0 => exit'[l].gen > 0
                        /\ \A e \in exit'[l].trade :
                              /\ Leader(e) = l /\ IsSell(e)
                              /\ exit'[l].remaining > 0 => trade'[e] \in OpenSignal
    BY DEF ExitSignals
  <2>2. exit[l] \in ExitRow /\ exit[l].remaining \in Nat /\ exit[l].gen \in Nat
        /\ exit[l].trade \subseteq Events
    BY DEF BookInv, ExitRow
  <2>3. CASE exit[l].remaining > 0
    <3>1. /\ exit'[l].remaining = Scaled(exit[l].remaining, q, total)
          /\ exit'[l].trade = exit[l].trade
          /\ exit'[l].gen = exit[l].gen + 1
      BY <1>2, <2>2, <2>3 DEF ScaledExits, ExitRow
    <3>2. CASE q = total
      <4>1. exit'[l].remaining = 0
        BY <1>1, <2>2, <3>1, <3>2, ScaledType
      <4>. QED
        BY <3>1, <4>1 DEF SignalInv, ExitSignals
    <3>3. CASE q # total
      BY <1>5, <2>2, <2>3, <3>1, <3>3 DEF SignalInv, ExitSignals
    <3>. QED
      BY <3>2, <3>3
  <2>4. CASE ~(exit[l].remaining > 0)
    <3>1. exit'[l] = exit[l]
      BY <1>2, <2>4 DEF ScaledExits
    <3>. QED
      BY <2>4, <3>1 DEF SignalInv, ExitSignals
  <2>. QED
    BY <2>3, <2>4
<1>. QED
  BY <1>5, <1>6, AsideOnly

LEMMA SettleSignals ==
    ASSUME Inv, NEW p \in Payouts, Settle(p)
    PROVE  SignalInv' /\ Lifecycle!LStep
<1> USE DEF Inv
<1>1. exit' = [l \in Leaders |->
                  IF exit[l].gen = 0 THEN exit[l]
                  ELSE [exit[l] EXCEPT !.remaining = 0, !.gen = @ + 1]]
  BY DEF Settle
<1>2. DropIntents(Events)
  BY DEF Settle
<1>3. trade' = Skip(Finish(trade, Events), Events)
  BY DEF Settle
<1>4. /\ trade' \in [Events -> Statuses]
      /\ intent' \in [Events -> {"none", "active", "done"}]
      /\ WaitingIsArmed'
      /\ \A e \in Events : Aside(e)
  BY <1>2, <1>3, DrainSignals
<1>5. \A l \in Leaders : exit'[l].remaining = 0 /\ exit'[l].trade = exit[l].trade
  <2>1. SUFFICES ASSUME NEW l \in Leaders
                 PROVE  exit'[l].remaining = 0 /\ exit'[l].trade = exit[l].trade
    OBVIOUS
  <2>2. exit[l] \in ExitRow
    BY DEF BookInv
  <2>3. CASE exit[l].gen = 0
    <3>1. exit'[l] = exit[l]
      BY <1>1, <2>3
    <3>2. exit[l].remaining = 0
      BY <2>2, <2>3 DEF ExitRow, SignalInv, ExitSignals
    <3>. QED
      BY <3>1, <3>2
  <2>4. CASE exit[l].gen # 0
    <3>1. exit'[l] = [exit[l] EXCEPT !.remaining = 0, !.gen = @ + 1]
      BY <1>1, <2>4
    <3>. QED
      BY <2>2, <3>1 DEF ExitRow
  <2>. QED
    BY <2>3, <2>4
<1>6. ExitSignals'
  BY <1>5 DEF SignalInv, ExitSignals
<1>. QED
  BY <1>4, <1>6, AsideOnly

LEMMA ResetSignals ==
    ASSUME Inv, Reset
    PROVE  SignalInv' /\ Lifecycle!LWipe
<1>1. /\ trade' = [e \in Events |-> "none"]
      /\ intent' = [e \in Events |-> "none"]
      /\ exit' = [l \in Leaders |-> NoExit]
  BY DEF Reset
<1>2. ResetBelow > 0
  BY BoundsAssumption DEF Reset, Inv, BookInv, BookTypes
<1>3. WaitingIsArmed' /\ WaitingKinds'
  BY <1>1 DEF WaitingIsArmed, WaitingKinds
<1>4. ExitSignals'
  BY <1>1 DEF ExitSignals, NoExit
<1>. QED
  BY <1>1, <1>2, <1>3, <1>4 DEF SignalInv, Statuses, Lifecycle!LWipe

LEMMA NextKeepsSignals ==
    ASSUME Inv, [Next]_vars
    PROVE  SignalInv' /\ [Lifecycle!LStep \/ Lifecycle!LWipe]_trade
<1> USE DEF Inv
<1>1. CASE UNCHANGED <<trade, intent, exit>>
  BY <1>1 DEF SignalInv, WaitingIsArmed, WaitingKinds, ExitSignals
<1>2. CASE \E l \in Leaders : Process(l)
  <2>1. PICK l \in Leaders : Process(l)
    BY <1>2
  <2> DEFINE e == Head(queue[l])
  <2>2. e \in Events
    BY <2>1, HeadIsTrade DEF Process
  <2>3. \/ UNCHANGED <<trade, intent, exit>>
        \/ trade[e] = "none" /\ RejectInvalid(e)
        \/ trade[e] = "none" /\ IsSell(e) /\ AcceptSell(e)
        \/ trade[e] = "none" /\ IsBuy(e) /\ AcceptBuy(e)
    BY <2>1 DEF Process, signals, Recorded
  <2> HIDE DEF e
  <2>4. CASE trade[e] = "none" /\ RejectInvalid(e)
    <3>1. /\ trade' \in [Events -> Statuses] /\ trade'[e] = "skipped"
          /\ \A f \in Events \ {e} : trade'[f] = trade[f]
          /\ intent' = intent /\ exit' = exit
      BY <2>2, <2>4 DEF RejectInvalid, SignalInv, Statuses
    <3>2. Lifecycle!LStep /\ WaitingKinds'
      BY <2>4, <3>1, OneSignal DEF Aside, Lifecycle!First
    <3>3. WaitingIsArmed' /\ ExitSignals'
      BY <2>4, <3>1 DEF SignalInv, WaitingIsArmed, ExitSignals, OpenSignal, BookInv, ExitRow
    <3>. QED
      BY <3>1, <3>2, <3>3 DEF SignalInv
  <2>. QED
    BY <1>1, <2>2, <2>3, <2>4, AcceptSellSignals, AcceptBuySignals
<1>3. CASE \E e \in Events : StartBuy(e) \/ RunBuy(e)
  BY <1>3, StartBuySignals, RunBuySignals
<1>4. CASE \E l \in Leaders : RunExit(l) \/ CloseExit(l)
  BY <1>4, RunExitSignals, CloseExitSignals
<1>5. CASE RunRisk
  <2>1. CASE \E q \in SellFills(Smaller(riskJob.shares, position.shares)),
                p \in SellPrices : RiskSell(q, p)
    <3>1. PICK q \in SellFills(Smaller(riskJob.shares, position.shares)),
               p \in SellPrices : RiskSell(q, p)
      BY <2>1
    <3>2. q \in 1..position.shares
      BY <1>5 DEF SellFills, Smaller, BookInv, BookTypes
    <3>. QED
      BY <3>1, <3>2, RiskSellSignals
  <2>. QED
    BY <1>1, <1>5, <2>1 DEF RunRisk
<1>6. CASE RunSettle
  BY <1>1, <1>6, SettleSignals DEF RunSettle
<1>7. CASE Reset
  BY <1>7, ResetSignals
<1>. QED
  BY <1>1, <1>2, <1>3, <1>4, <1>5, <1>6, <1>7 DEF Next, vars, signals, Schedule, Forget,
     StartExit, ReadExitPosition, ToggleLeader, StartRisk, StartSettle,
     TogglePause, SetRule, Restart

LEMMA Invariant == Spec => []Inv
<1>1. Init => Inv
  BY InitBook, InitQueue, InitSignals DEF Inv
<1>2. Inv /\ [Next]_vars => Inv'
  BY NextKeepsBook, NextKeepsQueue, NextKeepsSignals DEF Inv
<1>. QED
  BY <1>1, <1>2, PTL DEF Spec

(* A copy is shown as waiting for a better price exactly while its retry   *)
(* is armed, whichever of process_event, _retry_buy, _accept_exit, the     *)
(* risk monitor and the settlement ended it.                               *)
THEOREM WaitingIsArmedHolds == Spec => []WaitingIsArmed
<1>1. Inv => WaitingIsArmed
  BY DEF Inv, SignalInv
<1>. QED
  BY <1>1, Invariant, PTL

(* The rows of CopyTrade implement the life cycle of SignalLifecycle: what *)
(* the order history calls finished is never touched again, and one step   *)
(* decides one new trade at most; a reset wipes all of it.                 *)
THEOREM LifecycleImplemented == Spec => ImplementsLifecycle
<1>1. Init => Lifecycle!LInit
  BY DEF Init, Lifecycle!LInit
<1>2. Inv /\ [Next]_vars => [Lifecycle!LStep \/ Lifecycle!LWipe]_trade
  BY NextKeepsSignals
<1>. QED
  BY <1>1, <1>2, Invariant, PTL DEF Spec, Lifecycle!LSpec, ImplementsLifecycle

-----------------------------------------------------------------------------
(* What a pause stops: every worker reads it again under the lock, so what *)
(* changes the position in spite of it is a payout or a reset.             *)
LEMMA PausedStep ==
    ASSUME [Next]_vars, paused
    PROVE  \/ position' = position \/ Wiped'
           \/ position' = NoPosition /\ settleJob' # settleJob
<1>1. CASE UNCHANGED position
  BY <1>1
<1>2. CASE \E e \in Events : RunBuy(e)
  BY <1>2 DEF RunBuy, book
<1>3. CASE \E l \in Leaders : RunExit(l)
  BY <1>3 DEF RunExit, StillOpen, book
<1>4. CASE RunRisk
  BY <1>4 DEF RunRisk, book
<1>5. CASE RunSettle
  <2>1. CASE UNCHANGED book
    BY <2>1 DEF book
  <2>2. CASE \E p \in Payouts : Settle(p)
    BY <1>5, <2>2 DEF RunSettle, Settle, Sell
  <2>. QED
    BY <1>5, <2>1, <2>2 DEF RunSettle
<1>6. CASE Reset
  BY <1>6 DEF Reset, Wiped
<1>. QED
  BY <1>1, <1>2, <1>3, <1>4, <1>5, <1>6
     DEF Next, vars, book, Process, Schedule, Forget, StartBuy, StartExit,
         ReadExitPosition, CloseExit, ToggleLeader, StartRisk, StartSettle,
         TogglePause, SetRule, Restart

(* process_event, _retry_exit, _retry_buy and the risk monitor trade       *)
(* nothing once the pause is set, whatever they had begun before it.       *)
THEOREM PauseHoldsAlways == Spec => PauseHolds
<1>1. [Next]_vars =>
        [paused => \/ position' = position \/ Wiped'
                   \/ position' = NoPosition /\ settleJob' # settleJob]_vars
  BY PausedStep
<1>. QED
  BY <1>1, PTL DEF Spec, PauseHolds

-----------------------------------------------------------------------------
(* Only a BUY that is looked at, or retried, can be filled: an exit names  *)
(* sells alone, and whatever ends waiting copies executes none of them.    *)
NewFill(e) == ~Filled(e) /\ Filled(e)'

LEMMA FilledByExit ==
    ASSUME NEW l \in Leaders, NEW x, NEW tr \in [Events -> Statuses], NEW usable,
           FillExit(l, x, tr, usable), \A f \in x.trade : IsSell(f),
           NEW e \in Events, IsBuy(e), trade'[e] = "executed"
    PROVE  tr[e] = "executed"
<1>1. e \notin x.trade
  BY DEF IsBuy, IsSell
<1>2. ASSUME NEW q, NEW p, SellPart(l, x, tr, q, p) PROVE tr[e] = "executed"
  <2>. DEFINE done == [f \in Events |-> IF f \in x.trade THEN "executed" ELSE tr[f]]
  <2>1. done[e] = tr[e]
    BY <1>1
  <2>2. trade' = Finish(done, OfLeader(l)) \/ trade' = done
    BY <1>2 DEF SellPart
  <2>. HIDE DEF done
  <2>. QED
    BY <2>1, <2>2 DEF Finish
<1>. QED
  BY <1>2 DEF FillExit, Finish

LEMMA NoFillAside ==
    ASSUME NEW S, NEW tr, NEW e \in Events,
           Skip(tr, S)[e] = "executed" \/ Finish(tr, S)[e] = "executed"
    PROVE  tr[e] = "executed"
  BY DEF Skip, Finish

LEMMA SellFillsNoBuy ==
    ASSUME Inv, NEW s \in Events, IsSell(s), AcceptSell(s), NEW e \in Events, NewFill(e)
    PROVE  FALSE
<1>. DEFINE l == Leader(s)
            older == {f \in OfLeader(l) : Source[f].ts <= Source[s].ts}
            tr(status) == [Skip(trade, older) EXCEPT ![s] = status]
            x(part, minimum) ==
               [remaining |-> ExitTarget(l, part, LeaderAfter(s, NextTid(s)), minimum),
                pos |-> position.id, trade |-> {s}, ts |-> Source[s].ts,
                gen |-> exit[l].gen + 1]
<1>1. IsBuy(e) /\ e # s /\ trade[e] # "executed" /\ trade'[e] = "executed"
  BY DEF NewFill, Filled, IsBuy, IsSell
<1>2. Skip(trade, older)[e] # "executed"
  BY <1>1, NoFillAside
<1>3. \A status \in Statuses : tr(status) \in [Events -> Statuses] /\ tr(status)[e] # "executed"
  BY <1>1, <1>2 DEF Skip, Inv, SignalInv, Statuses
<1>4. trade' # tr("skipped")
  BY <1>1, <1>3 DEF Statuses
<1>5. \E minimum \in {0, MinOrder}, part \in PartOf(Free(l), Source[s].size, leaderShares[l]) :
          FillExit(l, x(part, minimum), tr("exit_pending"), minimum = MinOrder)
  BY <1>4 DEF AcceptSell
<1>6. PICK minimum \in {0, MinOrder},
           part \in PartOf(Free(l), Source[s].size, leaderShares[l]) :
          FillExit(l, x(part, minimum), tr("exit_pending"), minimum = MinOrder)
  BY <1>5
<1>7. tr("exit_pending") \in [Events -> Statuses] /\ tr("exit_pending")[e] # "executed"
  BY <1>3 DEF Statuses
<1>8. l \in Leaders /\ \A f \in x(part, minimum).trade : IsSell(f)
  BY SourceAssumption DEF Leader
<1>. HIDE DEF l, x, tr
<1>. QED
  BY <1>1, <1>6, <1>7, <1>8, FilledByExit

LEMMA WhoFills ==
    ASSUME Inv, Next, NEW e \in Events, NewFill(e)
    PROVE  \/ \E l \in Leaders : Process(l) /\ Head(queue[l]) = e /\ AcceptBuy(e)
           \/ RunBuy(e) /\ FillRetry(e)
<1>1. IsBuy(e) /\ trade[e] # "executed" /\ trade'[e] = "executed" /\ e \in DOMAIN trade
  BY DEF NewFill, Filled, IsBuy, Inv, SignalInv
<1>2. ~UNCHANGED trade
  BY <1>1
<1>3. ASSUME NEW l \in Leaders, Process(l)
      PROVE  Head(queue[l]) = e /\ AcceptBuy(e)
  <2>. DEFINE h == Head(queue[l])
  <2>1. h \in Events
    BY <1>3, HeadIsTrade DEF Process, Inv
  <2>2. \/ UNCHANGED trade \/ RejectInvalid(h)
        \/ IsSell(h) /\ AcceptSell(h)
        \/ AcceptBuy(h)
    BY <1>3 DEF Process, signals
  <2>. HIDE DEF h
  <2>3. ~RejectInvalid(h)
    BY <1>1, <2>1 DEF RejectInvalid, Inv, SignalInv
  <2>4. ~(IsSell(h) /\ AcceptSell(h))
    BY <2>1, SellFillsNoBuy
  <2>5. AcceptBuy(h) => h = e
    BY <1>1, <2>1 DEF AcceptBuy, RefuseBuy, WaitBuy, FillBuy, Inv, SignalInv
  <2>. QED
    BY <1>2, <2>2, <2>3, <2>4, <2>5 DEF h
<1>4. ASSUME NEW f \in Events, StartBuy(f) PROVE FALSE
  BY <1>1, <1>2, <1>4, NoFillAside DEF StartBuy
<1>5. ASSUME NEW f \in Events, RunBuy(f) PROVE f = e /\ FillRetry(e)
  BY <1>1, <1>2, <1>5 DEF RunBuy, FillRetry, EndBuy, Inv, SignalInv
<1>6. ASSUME NEW l \in Leaders, RunExit(l) PROVE FALSE
  <2>1. FillExit(l, exit[l], trade, TRUE)
    BY <1>2, <1>6 DEF RunExit
  <2>2. trade \in [Events -> Statuses] /\ \A f \in exit[l].trade : IsSell(f)
    BY <1>6 DEF Inv, SignalInv, ExitSignals
  <2>. QED
    BY <1>1, <2>1, <2>2, FilledByExit
<1>7. ASSUME NEW l \in Leaders, CloseExit(l) PROVE FALSE
  BY <1>1, <1>2, <1>7, NoFillAside DEF CloseExit
<1>8. ASSUME RunRisk \/ RunSettle PROVE FALSE
  <2>1. \/ UNCHANGED trade
        \/ trade' = Skip(trade, Events)
        \/ trade' = Skip(Finish(trade, Events), Events)
    BY <1>8 DEF RunRisk, RiskSell, RunSettle, Settle
  <2>. QED
    BY <1>1, <1>2, <2>1, NoFillAside
<1>9. ~Reset
  BY <1>1 DEF Reset
<1>. QED
  BY <1>2, <1>3, <1>4, <1>5, <1>6, <1>7, <1>8, <1>9
     DEF Next, signals, Schedule, Forget, StartExit, ReadExitPosition, ToggleLeader,
         StartRisk, StartSettle, TogglePause, SetRule, Restart

LEMMA FillNotSold ==
    ASSUME Inv, Next, NEW e \in Events, NewFill(e)
    PROVE  ~SellAtOrAfter(Leader(e), Source[e].ts)
<1>1. CASE AcceptBuy(e)
  <2>1. ~RefuseBuy(e)
    BY DEF RefuseBuy, NewFill, Filled, Inv, SignalInv
  <2>. QED
    BY <1>1, <2>1 DEF AcceptBuy, Superseded
<1>2. CASE FillRetry(e)
  BY <1>2 DEF FillRetry, LeaderSold
<1>. QED
  BY <1>1, <1>2, WhoFills

(* No BUY is filled once a SELL of its leader that is not older is in the  *)
(* history, by process_event or by a retry, after restarts and redelivery. *)
THEOREM NoBuyAfterSellAlways == Spec => NoBuyAfterRecordedSell
<1>1. Inv /\ [Next]_vars =>
        [\A e \in Events : ~Filled(e) /\ Filled(e)' =>
            ~SellAtOrAfter(Leader(e), Source[e].ts)]_vars
  BY FillNotSold DEF NewFill
<1>. QED
  BY <1>1, Invariant, PTL DEF Spec, NoBuyAfterRecordedSell

-----------------------------------------------------------------------------
(* A holding grows only with a fill: exits and risk sells take from it,    *)
(* payouts and resets empty it.                                            *)
Shrinks == \A l \in Leaders : own'[l].shares <= own[l].shares

LEMMA ScaledShrinks ==
    ASSUME NEW n \in Nat, NEW total \in Nat \ {0}, NEW q \in 1..total
    PROVE  Scaled(n, q, total) <= n
<1>1. n * (total - q) <= n * total
  <2>1. n * (total - q) = n * total - n * q /\ n * q \in Nat
    BY Products
  <2>. QED
    BY <2>1, Products
<1>2. (n * total) \div total = n
  OBVIOUS
<1>3. \A a, b \in Nat : a <= b => a \div total <= b \div total
  OBVIOUS
<1>4. n * (total - q) \in Nat /\ n * total \in Nat
  BY Products
<1>. QED
  BY <1>1, <1>2, <1>3, <1>4 DEF Scaled

LEMMA ExitShrinks ==
    ASSUME BookInv, NEW l \in Leaders, NEW x \in ExitRow, NEW tr, NEW usable,
           FillExit(l, x, tr, usable)
    PROVE  Shrinks
<1>1. \A m \in Leaders : own[m].shares \in Nat
  BY DEF BookInv, BookTypes
<1>2. CASE UNCHANGED book
  BY <1>1, <1>2 DEF Shrinks, book
<1>3. CASE \E q \in SellFills(Smaller(x.remaining, Smaller(own[l].shares, position.shares))),
              p \in SellPrices : SellPart(l, x, tr, q, p)
  <2>1. PICK q \in SellFills(Smaller(x.remaining, Smaller(own[l].shares, position.shares))),
             p \in SellPrices : SellPart(l, x, tr, q, p)
    BY <1>3
  <2>3. q \in Nat
    BY DEF SellFills, Smaller, BookInv, BookTypes, ExitRow
  <2>2. own'[l].shares = own[l].shares - q /\ \A m \in Leaders \ {l} : own'[m] = own[m]
    BY <2>1 DEF SellPart, BookInv, BookTypes
  <2>. QED
    BY <1>1, <2>2, <2>3 DEF Shrinks
<1>. QED
  BY <1>2, <1>3 DEF FillExit

LEMMA RiskShrinks ==
    ASSUME BookInv, NEW q \in 1..position.shares, NEW p, RiskSell(q, p)
    PROVE  Shrinks
<1>1. position.shares \in Nat \ {0} /\ \A l \in Leaders : own[l].shares \in Nat
  BY DEF BookInv, BookTypes
<1>2. \A l \in Leaders : own'[l].shares = Scaled(own[l].shares, q, position.shares)
  BY DEF RiskSell
<1>. QED
  BY <1>1, <1>2, ScaledShrinks DEF Shrinks

LEMMA SellShrinks ==
    ASSUME Inv, NEW s \in Events, IsSell(s), AcceptSell(s)
    PROVE  Shrinks
<1>. DEFINE l == Leader(s)
            older == {f \in OfLeader(l) : Source[f].ts <= Source[s].ts}
            tr(status) == [Skip(trade, older) EXCEPT ![s] = status]
            x(part, minimum) ==
               [remaining |-> ExitTarget(l, part, LeaderAfter(s, NextTid(s)), minimum),
                pos |-> position.id, trade |-> {s}, ts |-> Source[s].ts,
                gen |-> exit[l].gen + 1]
<1>1. l \in Leaders /\ Source[s].ts \in Nat
  BY SourceAssumption DEF Leader
<1>2. CASE UNCHANGED book
  BY <1>2 DEF Shrinks, Inv, BookInv, BookTypes, book
<1>3. CASE \E minimum \in {0, MinOrder},
              part \in PartOf(Free(l), Source[s].size, leaderShares[l]) :
              FillExit(l, x(part, minimum), tr("exit_pending"), minimum = MinOrder)
  <2>1. PICK minimum \in {0, MinOrder},
             part \in PartOf(Free(l), Source[s].size, leaderShares[l]) :
             FillExit(l, x(part, minimum), tr("exit_pending"), minimum = MinOrder)
    BY <1>3
  <2>2. minimum \in Nat /\ part \in Nat
    BY <1>1, MoneyAssumption DEF PartOf, Free, Kept, Smaller, Inv, BookInv, BookTypes, ExitRow
  <2>3. x(part, minimum) \in ExitRow
    BY <1>1, <2>2, ExitTargetType DEF ExitRow, Inv, BookInv, BookTypes
  <2>. HIDE DEF l, x, tr
  <2>. QED
    BY <1>1, <2>1, <2>3, ExitShrinks DEF Inv
<1>. QED
  BY <1>2, <1>3 DEF AcceptSell

LEMMA BuyGrowsOwn ==
    ASSUME BookInv, NEW e \in Events, NEW q \in BuyFills, Buy(e, q)
    PROVE  \A l \in Leaders \ {Leader(e)} : own'[l] = own[l]
  BY DEF Buy, BookInv, BookTypes

LEMMA GrowsByFill ==
    ASSUME Inv, [Next]_vars, NEW l \in Leaders, own'[l].shares > own[l].shares
    PROVE  \E e \in OfLeader(l) : NewFill(e)
<1>1. ~Shrinks
  <2>1. BookInv'
    BY NextKeepsBook DEF Inv
  <2>2. own[l].shares \in Nat /\ own'[l].shares \in Nat
    BY <2>1 DEF Inv, BookInv, BookTypes
  <2>. QED
    BY <2>2 DEF Shrinks
<1>2. ~UNCHANGED own
  BY <1>1 DEF Shrinks, Inv, BookInv, BookTypes
<1>3. ASSUME NEW e \in Events, IsBuy(e), trade[e] # "executed",
             NEW q \in BuyFills, Buy(e, q), trade' = [trade EXCEPT ![e] = "executed"]
      PROVE  \E f \in OfLeader(l) : NewFill(f)
  <2>1. Leader(e) = l
    BY <1>3, BuyGrowsOwn DEF Inv, BookInv, BookTypes
  <2>2. trade'[e] = "executed"
    BY <1>3 DEF Inv, SignalInv
  <2>3. NewFill(e)
    BY <1>3, <2>2 DEF NewFill, Filled, IsBuy
  <2>. QED
    BY <2>1, <2>3 DEF OfLeader
<1>4. ASSUME NEW m \in Leaders, Process(m) PROVE \E f \in OfLeader(l) : NewFill(f)
  <2>. DEFINE h == Head(queue[m])
  <2>1. h \in Events
    BY <1>4, HeadIsTrade DEF Process, Inv
  <2>2. \/ UNCHANGED own
        \/ IsSell(h) /\ AcceptSell(h)
        \/ IsBuy(h) /\ trade[h] = "none" /\ AcceptBuy(h)
    BY <1>4 DEF Process, RejectInvalid, book, Recorded
  <2>. HIDE DEF h
  <2>3. IsBuy(h) /\ trade[h] = "none" /\ FillBuy(h)
    BY <1>1, <1>2, <2>1, <2>2, SellShrinks DEF AcceptBuy, RefuseBuy, WaitBuy, book
  <2>. QED
    BY <1>3, <2>1, <2>3 DEF FillBuy
<1>5. ASSUME NEW e \in Events, RunBuy(e) PROVE \E f \in OfLeader(l) : NewFill(f)
  <2>1. intent[e] = "active" /\ FillRetry(e)
    BY <1>2, <1>5 DEF RunBuy, book
  <2>2. trade[e] = "retry_pending" /\ IsBuy(e)
    BY <2>1 DEF Inv, SignalInv, WaitingIsArmed, WaitingKinds
  <2>. QED
    BY <1>3, <2>1, <2>2 DEF FillRetry, EndBuy
<1>6. ASSUME NEW m \in Leaders, RunExit(m) PROVE FALSE
  <2>1. FillExit(m, exit[m], trade, TRUE)
    BY <1>2, <1>6 DEF RunExit, book
  <2>2. exit[m] \in ExitRow
    BY <1>6 DEF Inv, BookInv
  <2>. QED
    BY <1>1, <2>1, <2>2, ExitShrinks DEF Inv
<1>7. ASSUME RunRisk PROVE FALSE
  <2>1. PICK q \in SellFills(Smaller(riskJob.shares, position.shares)),
             p \in SellPrices : RiskSell(q, p)
    BY <1>2, <1>7 DEF RunRisk, book
  <2>2. q \in 1..position.shares
    BY <1>7 DEF SellFills, Smaller, Inv, BookInv, BookTypes
  <2>. QED
    BY <1>1, <2>1, <2>2, RiskShrinks DEF Inv
<1>8. ASSUME RunSettle PROVE FALSE
  <2>1. own' = [m \in Leaders |-> NoHolding]
    BY <1>2, <1>8 DEF RunSettle, Settle, book
  <2>. QED
    BY <1>1, <2>1 DEF Shrinks, NoHolding, Inv, BookInv, BookTypes
<1>9. ~Reset
  BY <1>1 DEF Reset, Shrinks, NoHolding, Inv, BookInv, BookTypes
<1>. QED
  BY <1>2, <1>4, <1>5, <1>6, <1>7, <1>8, <1>9
     DEF Next, vars, book, Schedule, Forget, StartBuy, StartExit, ReadExitPosition,
         CloseExit, ToggleLeader, StartRisk, StartSettle, TogglePause, SetRule, Restart

LEMMA FilledStays ==
    ASSUME Inv, [Next]_vars, NEW e \in Events, Filled(e)
    PROVE  Filled(e)' \/ Wiped'
<1>1. CASE UNCHANGED trade
  BY <1>1 DEF Filled, IsBuy
<1>2. CASE Lifecycle!LStep
  BY <1>2 DEF Filled, IsBuy, Lifecycle!LStep, Lifecycle!Stays, Lifecycle!Decided,
              Lifecycle!Outcomes
<1>3. CASE Lifecycle!LWipe
  BY <1>3 DEF Lifecycle!LWipe, Wiped
<1>. QED
  BY <1>1, <1>2, <1>3, NextKeepsSignals

(* First attempt, retries and redelivery together fill a signal at most    *)
(* once, and a leader's holding grows by nothing else.                     *)
THEOREM FilledOnceAlways == Spec => FilledOnce
<1>1. Inv /\ [Next]_vars =>
        [/\ \A e \in Events : Filled(e) => Filled(e)' \/ Wiped'
         /\ \A l \in Leaders : own'[l].shares > own[l].shares =>
               \E e \in OfLeader(l) : ~Filled(e) /\ Filled(e)']_vars
  BY FilledStays, GrowsByFill DEF NewFill
<1>. QED
  BY <1>1, Invariant, PTL DEF Spec, FilledOnce
-----------------------------------------------------------------------------
(* The types.  The leader's own shares are the hard part: a trade that     *)
(* arrives late makes the code replay all rows in time order, and that the *)
(* replay meets a row at every place needs rows whose order is strict,     *)
(* that is, row numbers that differ.  They differ because a trade gets a   *)
(* number exactly when it is recorded, one more than there are rows.       *)

RowsOf(l, ids) == {f \in OfLeader(l) : ids[f] # 0}

Numbered(ids) ==
    /\ ids \in [Events -> Nat]
    /\ \A e, f \in Events :
          Leader(e) = Leader(f) /\ ids[e] = ids[f] /\ ids[e] # 0 => e = f

RowsInv ==
    /\ Numbered(tid)
    /\ \A e \in Events : tid[e] <= Cardinality(RowsOf(Leader(e), tid))
    /\ \A e \in Events : Recorded(e) <=> tid[e] # 0
    /\ leaderShares \in [Leaders -> Nat]

LEMMA RowsFinite ==
    ASSUME NEW l, NEW ids
    PROVE  /\ IsFiniteSet(RowsOf(l, ids)) /\ Cardinality(RowsOf(l, ids)) \in Nat
           /\ \A S \in SUBSET RowsOf(l, ids) :
                 /\ IsFiniteSet(S) /\ Cardinality(S) \in Nat
<1>1. \A S \in SUBSET Events : IsFiniteSet(S)
  BY FiniteAssumption, FS_Subset
<1>2. \A S \in SUBSET Events : Cardinality(S) \in Nat
  BY <1>1, FS_CardinalityType
<1>3. RowsOf(l, ids) \in SUBSET Events
  BY DEF RowsOf, OfLeader
<1>. QED
  BY <1>1, <1>2, <1>3

LEMMA TradedType ==
    ASSUME NEW e \in Events, NEW n \in Nat
    PROVE  Traded(n, e) \in Nat
<1>1. Source[e].size \in Nat
  BY SourceAssumption
<1>. QED
  BY <1>1 DEF Traded, Positive

(* Replaying numbered rows in time order gives whole, non-negative shares. *)
LEMMA ReplayType ==
    ASSUME NEW e \in Events, NEW ids, Numbered(ids), leaderShares \in [Leaders -> Nat]
    PROVE  LeaderAfter(e, ids) \in Nat
<1> DEFINE l == Leader(e)
           rows == {f \in OfLeader(l) : ids[f] # 0 /\ Source[f].valid}
           n == Cardinality(rows)
           Below == [f \in rows |-> {g \in rows : Before(g, f, ids)}]
           nth(i) == CHOOSE f \in rows : Cardinality({g \in rows : Before(g, f, ids)}) = i - 1
           held == CHOOSE h : h = [i \in 0..n |->
                       IF i = 0 THEN 0 ELSE Traded(h[i - 1], nth(i))]
<1>1. l \in Leaders /\ leaderShares[l] \in Nat
  BY SourceAssumption DEF Leader
<1>2. Traded(leaderShares[l], e) \in Nat
  BY <1>1, TradedType
<1>3. rows \in SUBSET RowsOf(l, ids) /\ rows \subseteq Events
  BY DEF RowsOf, OfLeader
<1>4. IsFiniteSet(rows) /\ n \in Nat
  BY <1>3, RowsFinite
<1>5. \A f \in rows : /\ Source[f].ts \in Nat /\ ids[f] \in Nat /\ ids[f] # 0
                      /\ Leader(f) = l
  BY <1>3, SourceAssumption DEF Numbered, OfLeader
<1>6. \A f, g \in rows : ids[f] = ids[g] => f = g
  BY <1>3, <1>5 DEF Numbered
<1>7. \A i \in 1..n : \E f \in rows : Cardinality({g \in rows : Before(g, f, ids)}) = i - 1
  <2> HIDE DEF rows, l
  <2>1. Below \in [rows -> SUBSET rows]
    OBVIOUS
  <2>2. \A f \in rows : f \notin Below[f]
    BY <1>5 DEF Before
  <2>3. \A f, g \in rows : f \in Below[g] <=> Before(f, g, ids)
    OBVIOUS
  <2>4. \A f, g, h \in rows : Before(h, f, ids) /\ Before(f, g, ids) => Before(h, g, ids)
    BY <1>5 DEF Before
  <2>5. \A f, g \in rows : f \in Below[g] => Below[f] \subseteq Below[g]
    BY <2>1, <2>3, <2>4
  <2>6. \A f, g \in rows : f # g => f \in Below[g] \/ g \in Below[f]
    BY <1>5, <1>6, <2>3 DEF Before
  <2>7. \A f \in rows : Below[f] = {g \in rows : Before(g, f, ids)}
    OBVIOUS
  <2> HIDE DEF Below, n
  <2>8. \A i \in 1..Cardinality(rows) : \E f \in rows : Cardinality(Below[f]) = i - 1
    BY <1>4, <2>1, <2>2, <2>5, <2>6, EveryRank
  <2>. QED
    BY <2>7, <2>8 DEF n
<1>8. \A i \in 1..n : nth(i) \in rows
  BY <1>7
<1> HIDE DEF nth
<1>9. \A i \in 1..n : nth(i) \in Events
  BY <1>3, <1>8
<1> HIDE DEF rows, n, l
<1> DEFINE step == [a \in (1..n) \X Nat |-> Traded(a[2], nth(a[1]))]
<1>10. step \in [(1..n) \X Nat -> Nat]
  BY <1>9, TradedType
<1>11. PICK h \in [0..n -> Nat] :
          h[0] = 0 /\ \A i \in 1..n : h[i] = Traded(h[i - 1], nth(i))
  <2>1. Runs(n, Nat, 0, step) # {}
    <3> HIDE DEF step
    <3>. QED
      BY <1>4, <1>10, StepsExist
  <2>2. PICK h \in [0..n -> Nat] :
          h[0] = 0 /\ \A i \in 1..n : h[i] = step[<<i, h[i - 1]>>]
    <3> HIDE DEF step
    <3>. QED
      BY <2>1 DEF Runs
  <2>3. \A i \in 1..n : i - 1 \in 0..n
    BY <1>4
  <2>4. \A i \in 1..n : step[<<i, h[i - 1]>>] = Traded(h[i - 1], nth(i))
    BY <2>3
  <2>. QED
    BY <2>2, <2>4
<1>12. h = [i \in 0..n |-> IF i = 0 THEN 0 ELSE Traded(h[i - 1], nth(i))]
  <2>1. \A i \in 0..n : i # 0 => i \in 1..n
    BY <1>4
  <2>. QED
    BY <1>11, <2>1
<1>13. held = [i \in 0..n |-> IF i = 0 THEN 0 ELSE Traded(held[i - 1], nth(i))]
  BY <1>12
<1> HIDE DEF held
<1>14. held[0] \in Nat /\ \A i \in 1..n : held[i - 1] \in Nat => held[i] \in Nat
  <2>1. 0 \in 0..n /\ \A i \in 1..n : i \in 0..n /\ i # 0
    BY <1>4
  <2>2. held[0] = 0 /\ \A i \in 1..n : held[i] = Traded(held[i - 1], nth(i))
    BY <1>13, <2>1
  <2>3. ASSUME NEW i \in 1..n, held[i - 1] \in Nat PROVE held[i] \in Nat
    <3>1. Traded(held[i - 1], nth(i)) \in Nat
      BY <1>9, <2>3, TradedType
    <3>. QED
      BY <2>2, <3>1
  <2>. QED
    BY <2>2, <2>3
<1>15. held[n] \in Nat
  <2>1. \A i \in 0..n : held[i] \in Nat
    BY <1>4, <1>14, StepsStay
  <2>. QED
    BY <1>4, <2>1
<1>16. LeaderAfter(e, ids) = IF \E f \in OfLeader(l) : ids[f] # 0 /\ Source[f].ts > Source[e].ts
                             THEN held[n] ELSE Traded(leaderShares[l], e)
  BY DEF LeaderAfter, held, n, nth, rows, l
<1>. QED
  BY <1>2, <1>15, <1>16
(* Which steps record a trade: one that takes it from the queue, and no    *)
(* other gives a row to a trade or takes its row away.                     *)
SameRows(tr) == \A f \in Events : trade'[f] = "none" <=> tr[f] = "none"

Records(e) ==
    /\ ~Recorded(e)
    /\ \A f \in Events : trade'[f] = "none" <=> f # e /\ trade[f] = "none"
    /\ tid' = NextTid(e)
    /\ \/ leaderShares' = leaderShares
       \/ leaderShares' = [leaderShares EXCEPT ![Leader(e)] = LeaderAfter(e, NextTid(e))]

LEMMA SkipFinishRows ==
    ASSUME NEW S, NEW tr, NEW f \in Events
    PROVE  /\ Skip(tr, S)[f] = "none" <=> tr[f] = "none"
           /\ Finish(tr, S)[f] = "none" <=> tr[f] = "none"
BY DEF Skip, Finish

LEMMA FillExitRows ==
    ASSUME NEW l, NEW x, NEW tr \in [Events -> Statuses], NEW usable,
           FillExit(l, x, tr, usable), \A f \in x.trade : tr[f] # "none"
    PROVE  SameRows(tr)
<1>1. ASSUME NEW q, NEW p, SellPart(l, x, tr, q, p) PROVE SameRows(tr)
  <2> DEFINE done == [f \in Events |-> IF f \in x.trade THEN "executed" ELSE tr[f]]
  <2>1. \A f \in Events : done[f] = "none" <=> tr[f] = "none"
    OBVIOUS
  <2>2. trade' = Finish(done, OfLeader(l)) \/ trade' = done
    BY <1>1 DEF SellPart
  <2> HIDE DEF done
  <2>3. CASE trade' = done
    BY <2>1, <2>3 DEF SameRows
  <2>4. CASE trade' = Finish(done, OfLeader(l))
    BY <2>1, <2>4, SkipFinishRows DEF SameRows
  <2>. QED
    BY <2>2, <2>3, <2>4
<1>2. CASE trade' = Finish(tr, OfLeader(l))
  BY <1>2, SkipFinishRows DEF SameRows
<1>3. CASE trade' = tr
  BY <1>3 DEF SameRows
<1>. QED
  BY <1>1, <1>2, <1>3 DEF FillExit

LEMMA AcceptSellRecords ==
    ASSUME Inv, NEW e \in Events, ~Recorded(e), AcceptSell(e)
    PROVE  Records(e)
<1> DEFINE l == Leader(e)
           older == {f \in OfLeader(l) : Source[f].ts <= Source[e].ts}
           tr(status) == [Skip(trade, older) EXCEPT ![e] = status]
           x(part, minimum) ==
               [remaining |-> ExitTarget(l, part, LeaderAfter(e, NextTid(e)), minimum),
                pos |-> position.id, trade |-> {e}, ts |-> Source[e].ts,
                gen |-> exit[l].gen + 1]
<1>1. ASSUME NEW status \in {"skipped", "exit_pending"}
      PROVE  /\ tr(status) \in [Events -> Statuses]
             /\ \A f \in Events : tr(status)[f] = "none" <=> f # e /\ trade[f] = "none"
  <2>1. Skip(trade, older) \in [Events -> Statuses]
    BY DEF Skip, Inv, SignalInv, Statuses
  <2>2. \A f \in Events : Skip(trade, older)[f] = "none" <=> trade[f] = "none"
    BY SkipFinishRows
  <2> HIDE DEF older
  <2>. QED
    BY <2>1, <2>2 DEF Statuses
<1>2. CASE trade' = tr("skipped")
  BY <1>1, <1>2 DEF AcceptSell, Records
<1>3. CASE \E minimum \in {0, MinOrder},
              part \in PartOf(Free(l), Source[e].size, leaderShares[l]) :
              FillExit(l, x(part, minimum), tr("exit_pending"), minimum = MinOrder)
  <2>1. PICK minimum \in {0, MinOrder},
             part \in PartOf(Free(l), Source[e].size, leaderShares[l]) :
             FillExit(l, x(part, minimum), tr("exit_pending"), minimum = MinOrder)
    BY <1>3
  <2>2. \A f \in x(part, minimum).trade : f = e
    OBVIOUS
  <2> DEFINE y == x(part, minimum)
             pending == tr("exit_pending")
  <2>3. /\ pending \in [Events -> Statuses]
        /\ \A f \in Events : pending[f] = "none" <=> f # e /\ trade[f] = "none"
    BY <1>1
  <2>4. FillExit(l, y, pending, minimum = MinOrder) /\ \A f \in y.trade : f = e
    BY <2>1, <2>2
  <2> HIDE DEF y, pending, x, tr, l
  <2>5. SameRows(pending)
    BY <2>3, <2>4, FillExitRows
  <2>. QED
    BY <2>3, <2>5 DEF SameRows, AcceptSell, Records
<1>. QED
  BY <1>2, <1>3 DEF AcceptSell

LEMMA NextRecords ==
    ASSUME Inv, [Next]_vars
    PROVE  \/ UNCHANGED <<tid, leaderShares>> /\ SameRows(trade)
           \/ \E e \in Events : Records(e)
           \/ Reset
<1>1. ASSUME trade' = trade PROVE SameRows(trade)
  BY <1>1 DEF SameRows
<1>2. ASSUME NEW e \in Events, NEW status \in Statuses \ {"none"},
             trade' = [trade EXCEPT ![e] = status]
      PROVE  \A f \in Events : trade'[f] = "none" <=> f # e /\ trade[f] = "none"
  BY <1>2 DEF Inv, SignalInv
<1>3. ASSUME NEW l \in Leaders, Process(l)
      PROVE  \/ UNCHANGED <<tid, leaderShares>> /\ SameRows(trade)
             \/ \E e \in Events : Records(e)
  <2> DEFINE e == Head(queue[l])
  <2>1. e \in Events
    BY <1>3, HeadIsTrade DEF Process, Inv
  <2>2. \/ UNCHANGED <<book, signals>>
        \/ ~Recorded(e) /\ (RejectInvalid(e) \/ AcceptSell(e) \/ AcceptBuy(e))
    BY <1>3 DEF Process
  <2> HIDE DEF e
  <2>3. CASE UNCHANGED <<book, signals>>
    BY <1>1, <2>3 DEF signals
  <2>4. CASE ~Recorded(e) /\ RejectInvalid(e)
    BY <1>2, <2>1, <2>4 DEF RejectInvalid, Records, Statuses
  <2>5. CASE ~Recorded(e) /\ AcceptBuy(e)
    BY <1>2, <2>1, <2>5 DEF AcceptBuy, RefuseBuy, WaitBuy, FillBuy, Records, Statuses
  <2>. QED
    BY <2>1, <2>2, <2>3, <2>4, <2>5, AcceptSellRecords
<1>4. ASSUME NEW e \in Events, StartBuy(e) PROVE SameRows(trade)
  BY <1>1, <1>4, SkipFinishRows DEF StartBuy, SameRows
<1>5. ASSUME NEW e \in Events, RunBuy(e) PROVE SameRows(trade)
  <2>1. CASE trade' = trade
    BY <1>1, <2>1
  <2>2. CASE intent[e] = "active" /\ \E status \in {"skipped", "executed"} : EndBuy(e, status)
    <3>1. trade[e] # "none"
      BY <2>2 DEF Inv, SignalInv, WaitingIsArmed
    <3>. QED
      BY <1>2, <2>2, <3>1 DEF EndBuy, SameRows, Statuses
  <2>. QED
    BY <1>5, <2>1, <2>2 DEF RunBuy, FillRetry
<1>6. ASSUME NEW l \in Leaders, RunExit(l) PROVE SameRows(trade)
  <2>1. CASE trade' = trade
    BY <1>1, <2>1
  <2>2. CASE StillOpen(l) /\ FillExit(l, exit[l], trade, TRUE)
    <3>1. trade \in [Events -> Statuses] /\ \A f \in exit[l].trade : trade[f] # "none"
      BY <1>6, <2>2 DEF StillOpen, Inv, SignalInv, ExitSignals, OpenSignal
    <3>. QED
      BY <2>2, <3>1, FillExitRows
  <2>. QED
    BY <1>6, <2>1, <2>2 DEF RunExit
<1>7. ASSUME NEW l \in Leaders, CloseExit(l) PROVE SameRows(trade)
  BY <1>1, <1>7, SkipFinishRows DEF CloseExit, SameRows
<1>8. ASSUME RunRisk \/ RunSettle PROVE SameRows(trade)
  <2>1. \/ trade' = trade
        \/ trade' = Skip(trade, Events)
        \/ trade' = Skip(Finish(trade, Events), Events)
    BY <1>8 DEF RunRisk, RiskSell, RunSettle, Settle
  <2>. QED
    BY <1>1, <2>1, SkipFinishRows DEF SameRows
<1>. QED
  BY <1>1, <1>3, <1>4, <1>5, <1>6, <1>7, <1>8 DEF Next, vars, signals, Schedule, Forget,
     StartExit, ReadExitPosition, ToggleLeader, StartRisk, StartSettle, TogglePause,
     SetRule, Restart, StartBuy, RunBuy, RunExit, CloseExit, RunRisk, RunSettle
LEMMA InitRows == Init => RowsInv
<1>. SUFFICES ASSUME Init PROVE RowsInv
  OBVIOUS
<1>1. \A e \in Events : Cardinality(RowsOf(Leader(e), tid)) \in Nat
  BY RowsFinite
<1>. QED
  BY <1>1 DEF Init, RowsInv, Numbered, Recorded

LEMMA NextKeepsRows ==
    ASSUME Inv, RowsInv, [Next]_vars
    PROVE  RowsInv'
<1>1. CASE UNCHANGED <<tid, leaderShares>> /\ SameRows(trade)
  BY <1>1 DEF RowsInv, Numbered, RowsOf, Recorded, SameRows
<1>2. CASE \E e \in Events : Records(e)
  <2>1. PICK e \in Events : Records(e)
    BY <1>2
  <2> DEFINE l == Leader(e)
             n == Cardinality(RowsOf(l, tid))
  <2>2. l \in Leaders /\ n \in Nat /\ IsFiniteSet(RowsOf(l, tid))
    BY SourceAssumption, RowsFinite DEF Leader
  <2>3. tid[e] = 0 /\ tid \in [Events -> Nat]
    BY <2>1 DEF Records, RowsInv, Numbered
  <2>4. NextTid(e) = [tid EXCEPT ![e] = n + 1]
    BY DEF NextTid, RowsOf
  <2>5. \A f \in Events : Leader(f) = l => tid[f] <= n
    BY DEF RowsInv
  <2> HIDE DEF n
  <2>6. Numbered(NextTid(e))
    BY <2>2, <2>3, <2>4, <2>5 DEF Numbered, RowsInv
  <2>7. \A m : m # l => RowsOf(m, NextTid(e)) = RowsOf(m, tid)
    BY <2>3, <2>4 DEF RowsOf, OfLeader
  <2>8. RowsOf(l, NextTid(e)) = RowsOf(l, tid) \cup {e} /\ e \notin RowsOf(l, tid)
    <3>1. e \notin RowsOf(l, tid)
      BY <2>3 DEF RowsOf
    <3>2. \A f \in Events : NextTid(e)[f] # 0 <=> f = e \/ tid[f] # 0
      BY <2>2, <2>3, <2>4
    <3>. QED
      BY <3>1, <3>2 DEF RowsOf, OfLeader
  <2>9. Cardinality(RowsOf(l, NextTid(e))) = n + 1
    BY <2>2, <2>8, FS_AddElement DEF n
  <2>10. \A f \in Events : NextTid(e)[f] <= Cardinality(RowsOf(Leader(f), NextTid(e)))
    <3>. SUFFICES ASSUME NEW f \in Events
                  PROVE  NextTid(e)[f] <= Cardinality(RowsOf(Leader(f), NextTid(e)))
      OBVIOUS
    <3>1. CASE f = e
      BY <2>2, <2>3, <2>4, <2>9, <3>1
    <3>2. CASE f # e /\ Leader(f) = l
      <4>1. NextTid(e)[f] = tid[f] /\ tid[f] \in Nat
        BY <2>3, <2>4, <3>2
      <4>. QED
        BY <4>1, <2>2, <2>5, <2>9, <3>2
    <3>3. CASE Leader(f) # l
      <4>1. NextTid(e)[f] = tid[f]
        BY <2>3, <2>4, <3>3
      <4>. QED
        BY <4>1, <2>7, <3>3 DEF RowsInv
    <3>. QED
      BY <3>1, <3>2, <3>3
  <2>11. \A f \in Events : trade'[f] # "none" <=> NextTid(e)[f] # 0
    BY <2>1, <2>2, <2>3, <2>4 DEF Records, RowsInv, Recorded
  <2>12. leaderShares' \in [Leaders -> Nat]
    <3>1. LeaderAfter(e, NextTid(e)) \in Nat
      BY <2>6, ReplayType DEF RowsInv
    <3>. QED
      BY <2>1, <2>2, <3>1 DEF Records, RowsInv
  <2>13. tid' = NextTid(e)
    BY <2>1 DEF Records
  <2> HIDE DEF l
  <2>. QED
    BY <2>6, <2>10, <2>11, <2>12, <2>13 DEF RowsInv, Numbered, Recorded, RowsOf
<1>3. CASE Reset
  <2>1. /\ trade' = [e \in Events |-> "none"] /\ tid' = [e \in Events |-> 0]
        /\ leaderShares' = [l \in Leaders |-> 0]
    BY <1>3 DEF Reset
  <2>2. \A e \in Events : Cardinality(RowsOf(Leader(e), tid')) \in Nat
    BY RowsFinite
  <2>. QED
    BY <2>1, <2>2 DEF RowsInv, Numbered, Recorded, RowsOf
<1>. QED
  BY <1>1, <1>2, <1>3, NextRecords

(* The switches, and what the workers carry from their reading to the lock. *)
WorkerTypes ==
    /\ paused \in BOOLEAN
    /\ active \in [Leaders -> BOOLEAN]
    /\ rule \in RuleValues \cup {Off}
    /\ watermark \in [Leaders -> Nat]
    /\ exitJob \in [Leaders -> [step : {"idle", "read", "fill", "close"},
                                gen : Nat, pos : Nat]]
    /\ buyJob \in [Events -> BOOLEAN]
    /\ riskJob \in [pos : Nat, shares : Nat, rule : RuleValues \cup {Off}]
    /\ settleJob \in Nat

LEMMA IdleTypes ==
    /\ IdleExit \in [step : {"idle", "read", "fill", "close"}, gen : Nat, pos : Nat]
    /\ IdleRisk \in [pos : Nat, shares : Nat, rule : RuleValues \cup {Off}]
BY DEF IdleExit, IdleRisk

LEMMA InitWorkers == Init => WorkerTypes
<1>. SUFFICES ASSUME Init PROVE WorkerTypes
  OBVIOUS
<1>1. /\ exitJob \in [Leaders -> [step : {"idle", "read", "fill", "close"},
                                   gen : Nat, pos : Nat]]
      /\ riskJob \in [pos : Nat, shares : Nat, rule : RuleValues \cup {Off}]
  BY IdleTypes DEF Init
<1>2. /\ paused \in BOOLEAN /\ active \in [Leaders -> BOOLEAN]
      /\ rule \in RuleValues \cup {Off} /\ watermark \in [Leaders -> Nat]
      /\ buyJob \in [Events -> BOOLEAN] /\ settleJob \in Nat
  BY DEF Init
<1>. QED
  BY <1>1, <1>2 DEF WorkerTypes

LEMMA NextKeepsWorkers ==
    ASSUME BookInv, WorkerTypes, [Next]_vars
    PROVE  WorkerTypes'
<1> USE DEF WorkerTypes
<1>1. UNCHANGED <<control, watermark, jobs>> => WorkerTypes'
  BY DEF control, jobs
<1>2. ASSUME NEW e \in Events, Schedule(e) PROVE WorkerTypes'
  <2>1. UNCHANGED <<control, jobs>>
        /\ (watermark' = watermark \/ watermark' = [watermark EXCEPT ![Leader(e)] = Source[e].ts])
    BY <1>2 DEF Schedule
  <2>2. Source[e].ts \in Nat
    BY SourceAssumption
  <2>. QED
    BY <2>1, <2>2 DEF control, jobs
<1>3. ASSUME NEW e \in Events, StartBuy(e) \/ RunBuy(e) PROVE WorkerTypes'
  <2>1. /\ UNCHANGED <<control, watermark, exitJob, riskJob, settleJob>>
        /\ \/ buyJob' = buyJob
           \/ buyJob' = [buyJob EXCEPT ![e] = TRUE]
           \/ buyJob' = [buyJob EXCEPT ![e] = FALSE]
    BY <1>3 DEF StartBuy, RunBuy
  <2>. QED
    BY <2>1 DEF control
<1>4. ASSUME NEW l \in Leaders, Process(l) \/ Forget(l) PROVE WorkerTypes'
  BY <1>1, <1>4 DEF Process, Forget
<1>5. ASSUME NEW l \in Leaders,
             StartExit(l) \/ ReadExitPosition(l) \/ RunExit(l) \/ CloseExit(l)
      PROVE  WorkerTypes'
  <2>1. UNCHANGED <<control, watermark, buyJob, riskJob, settleJob>>
    BY <1>5 DEF StartExit, ReadExitPosition, RunExit, CloseExit
  <2>2. exit[l].gen \in Nat /\ exit[l].pos \in Nat
    BY DEF BookInv, ExitRow
  <2>3. CASE StartExit(l)
    BY <2>1, <2>2, <2>3 DEF StartExit, control
  <2>4. CASE ReadExitPosition(l)
    BY <2>1, <2>4 DEF ReadExitPosition, control
  <2>5. CASE RunExit(l) \/ CloseExit(l)
    <3>1. exitJob' = [exitJob EXCEPT ![l] = IdleExit]
      BY <2>5 DEF RunExit, CloseExit
    <3>. QED
      BY <2>1, <3>1, IdleTypes DEF control
  <2>. QED
    BY <1>5, <2>3, <2>4, <2>5
<1>6. ASSUME NEW l \in Leaders, ToggleLeader(l) PROVE WorkerTypes'
  BY <1>6 DEF ToggleLeader, jobs
<1>7. ASSUME StartRisk \/ RunRisk PROVE WorkerTypes'
  <2>1. UNCHANGED <<paused, active, watermark, exitJob, buyJob, settleJob>>
    BY <1>7 DEF StartRisk, RunRisk, control
  <2>2. rule' \in RuleValues \cup {Off}
    BY <1>7 DEF StartRisk, RunRisk, RiskSell, control
  <2>3. riskJob' \in [pos : Nat, shares : Nat, rule : RuleValues \cup {Off}]
    <3>1. CASE StartRisk
      <4>1. position.id \in Nat /\ position.shares \in Nat
        BY DEF BookInv, BookTypes
      <4>. QED
        BY <3>1, <4>1 DEF StartRisk
    <3>2. CASE RunRisk
      BY <3>2, IdleTypes DEF RunRisk
    <3>. QED
      BY <1>7, <3>1, <3>2
  <2>. QED
    BY <2>1, <2>2, <2>3
<1>8. ASSUME StartSettle \/ RunSettle PROVE WorkerTypes'
  <2>1. UNCHANGED <<paused, active, watermark, exitJob, buyJob, riskJob>>
    BY <1>8 DEF StartSettle, RunSettle, control
  <2>2. rule' \in RuleValues \cup {Off}
    BY <1>8 DEF StartSettle, RunSettle, Settle, control
  <2>3. settleJob' \in Nat
    BY <1>8 DEF StartSettle, RunSettle, BookInv, BookTypes
  <2>. QED
    BY <2>1, <2>2, <2>3
<1>9. ASSUME TogglePause \/ \E r \in RuleValues \cup {Off} : SetRule(r)
      PROVE  WorkerTypes'
  BY <1>9 DEF TogglePause, SetRule, jobs
<1>10. CASE Restart
  BY <1>10, IdleTypes DEF Restart, control
<1>11. CASE Reset
  BY <1>11 DEF Reset
<1>12. CASE UNCHANGED vars
  BY <1>1, <1>12 DEF vars
<1>. QED
  BY <1>2, <1>3, <1>4, <1>5, <1>6, <1>7, <1>8, <1>9, <1>10, <1>11, <1>12 DEF Next

(* Every row, amount and worker stays of its type; in particular a leader  *)
(* is never remembered with a negative number of shares, however late and  *)
(* in whatever order its trades arrive (update_leader_position).           *)
THEOREM LedgerTypesHold == Spec => []TypeOK
<1>1. Init => RowsInv /\ WorkerTypes
  BY InitRows, InitWorkers
<1>2. Inv /\ (RowsInv /\ WorkerTypes) /\ [Next]_vars => (RowsInv /\ WorkerTypes)'
  BY NextKeepsRows, NextKeepsWorkers DEF Inv
<1>3. Inv /\ RowsInv /\ WorkerTypes => TypeOK
  BY DEF Inv, BookInv, QueueInv, SignalInv, RowsInv, Numbered, WorkerTypes,
     TypeOK, SignalTypes, ControlTypes, ExitRow
<1>. QED
  BY <1>1, <1>2, <1>3, Invariant, PTL DEF Spec
=============================================================================
