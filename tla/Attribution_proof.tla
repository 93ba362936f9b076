-------------------------- MODULE Attribution_proof --------------------------
(***************************************************************************)
(* For every finite set of leaders and trades: the shared position is what *)
(* the order history gives to each leader, an open exit is covered by what *)
(* its leader owns, and the account is never overdrawn.                    *)
(***************************************************************************)
EXTENDS CopyLedger_proof

-----------------------------------------------------------------------------
(* Arithmetic.  A quotient the model takes is exact, so it is a factor.    *)
LEMMA Quotient ==
    ASSUME NEW n \in Int, NEW s \in Nat \ {0}, Exact(n, s)
    PROVE  n \div s \in Int /\ s * (n \div s) = n
BY DEF Exact

(* The cost of q of s shares that cost c.                                  *)
LEMMA PartOfCost ==
    ASSUME NEW s \in Nat \ {0}, NEW q \in 1..s, NEW c \in Nat, Exact(c * q, s)
    PROVE  /\ (c * q) \div s \in Nat
           /\ (c * q) \div s <= c
           /\ q = s => (c * q) \div s = c
<1>1. c * q \in Nat
  BY Products
<1> DEFINE d == (c * q) \div s
<1>2. d \in Nat /\ s * d = c * q
  BY <1>1, Quotient, Quotients
<1> HIDE DEF d
<1>3. c * q <= c * s /\ c * s = s * c
  BY Larger
<1>4. s * d <= s * c
  BY <1>2, <1>3
<1>5. d <= c
  BY <1>2, <1>4, Cancels
<1>6. q = s => s * d = s * c
  BY <1>2, <1>3
<1>7. q = s => d = c
  BY <1>2, <1>6, Cancels
<1>. QED
  BY <1>2, <1>5, <1>7 DEF d

(* What a risk sell of q of `total' shares leaves of a part of them.       *)
LEMMA ScaledExactly ==
    ASSUME NEW n \in Nat, NEW total \in Nat \ {0}, NEW q \in 1..total,
           Exact(n * q, total)
    PROVE  /\ Scaled(n, q, total) \in Nat
           /\ total * Scaled(n, q, total) = (total - q) * n
<1> DEFINE k == (n * q) \div total
<1>1. n * q \in Nat /\ n * (total - q) \in Nat
  BY Products
<1>2. k \in Int /\ total * k = n * q
  BY <1>1, Quotient
<1> HIDE DEF k
<1>3. n * (total - q) = n * total - n * q /\ n * total = total * n
  OBVIOUS
<1>4. total * (n - k) = total * n - total * k
  BY <1>2
<1>5. n * (total - q) = total * (n - k)
  BY <1>2, <1>3, <1>4
<1>6. n - k \in Int
  BY <1>2
<1> DEFINE r == n - k
<1>7. (total * r) \div total = r
  BY <1>6
<1>8. Scaled(n, q, total) = n - k
  BY <1>5, <1>7 DEF Scaled
<1>9. n * (total - q) = (total - q) * n
  OBVIOUS
<1>. QED
  BY <1>5, <1>8, <1>9, ScaledType

-----------------------------------------------------------------------------
(* The holdings.  Attribution is kept by a sell only because a cost is     *)
(* never negative and goes with the last share, and because the row of the *)
(* position goes with its last share; an exit stays covered only because   *)
(* it is, when it is made.                                                 *)
Shares == [l \in Leaders |-> own[l].shares]
Costs == [l \in Leaders |-> own[l].cost]

Holding(h) == h.shares \in Nat /\ h.cost \in Nat /\ (h.shares = 0 => h.cost = 0)

HoldingsSound ==
    /\ \A l \in Leaders : Holding(own[l])
    /\ position.shares = SumOver(Shares, Leaders)
    /\ position.cost = SumOver(Costs, Leaders)
    /\ position.id = 0 <=> position.shares = 0

AttributionInv == HoldingsSound /\ ExitCovered

LEMMA SoundIsAttributed == HoldingsSound => Attributed
BY DEF HoldingsSound, Holding, Attributed, TotalOf, Shares, Costs

LEMMA HoldingTypes ==
    ASSUME HoldingsSound
    PROVE  /\ Ints(Shares, Leaders) /\ Ints(Costs, Leaders)
           /\ position.shares \in Nat /\ position.cost \in Nat
           /\ \A l \in Leaders : own[l].shares <= position.shares
           /\ \A l, m \in Leaders : l # m => own[l].shares + own[m].shares <= position.shares
<1>1. /\ \A l \in Leaders : Shares[l] \in Nat /\ Shares[l] = own[l].shares
      /\ \A l \in Leaders : Costs[l] \in Nat
  BY DEF HoldingsSound, Holding, Shares, Costs
<1>2. IsFiniteSet(Leaders)
  BY FiniteAssumption
<1>3. Ints(Shares, Leaders) /\ Ints(Costs, Leaders)
  BY <1>1, <1>2 DEF Ints
<1>4. /\ SumOver(Shares, Leaders) \in Nat /\ SumOver(Costs, Leaders) \in Nat
      /\ \A l \in Leaders : Shares[l] <= SumOver(Shares, Leaders)
      /\ \A l, m \in Leaders : l # m => Shares[l] + Shares[m] <= SumOver(Shares, Leaders)
  BY <1>1, <1>2, SumBounds
<1>. QED
  BY <1>1, <1>3, <1>4 DEF HoldingsSound

(* Nobody owns anything of a position without shares.                      *)
LEMMA NothingOwned ==
    ASSUME HoldingsSound, position.shares = 0
    PROVE  \A l \in Leaders : own[l].shares = 0 /\ own[l].cost = 0
BY HoldingTypes DEF HoldingsSound, Holding

(* Who owns all shares of it owns all its cost, and nobody else any.       *)
LEMMA SoleOwner ==
    ASSUME HoldingsSound, NEW l \in Leaders, own[l].shares = position.shares
    PROVE  /\ own[l].cost = position.cost
           /\ \A m \in Leaders \ {l} : own[m].shares = 0 /\ own[m].cost = 0
<1>1. \A m \in Leaders : Holding(own[m])
  BY DEF HoldingsSound
<1>2. \A m \in Leaders \ {l} : own[m].shares = 0 /\ own[m].cost = 0
  BY <1>1, HoldingTypes DEF Holding
<1> DEFINE none == [m \in Leaders |-> 0]
<1>3. Ints(none, Leaders) /\ IsFiniteSet(Leaders) /\ \A m \in Leaders : none[m] = 0
  BY FiniteAssumption DEF Ints
<1>4. SumOver(none, Leaders) = 0
  BY <1>3, SumZero
<1>5. Costs[l] = own[l].cost /\ \A m \in Leaders \ {l} : Costs[m] = none[m]
  BY <1>2 DEF Costs
<1>6. Costs[l] \in Int
  BY <1>1, <1>5 DEF Holding
<1>7. SumOver(Costs, Leaders) = SumOver(none, Leaders) + Costs[l] - none[l]
  BY <1>3, <1>5, <1>6, SumChanges
<1>. QED
  BY <1>2, <1>4, <1>5, <1>6, <1>7 DEF HoldingsSound

(* One leader's holding changes, and the position by as much.              *)
LEMMA OneHolding ==
    ASSUME HoldingsSound, NEW l \in Leaders, NEW h, Holding(h),
           own' = [own EXCEPT ![l] = h],
           own \in [Leaders -> [shares : Nat, cost : Int]],
           position'.shares = position.shares + h.shares - own[l].shares,
           position'.cost = position.cost + h.cost - own[l].cost,
           position'.id = 0 <=> position'.shares = 0
    PROVE  HoldingsSound'
<1>1. own'[l] = h /\ \A m \in Leaders \ {l} : own'[m] = own[m]
  OBVIOUS
<1>2. /\ Shares'[l] = h.shares /\ \A m \in Leaders \ {l} : Shares'[m] = Shares[m]
      /\ Costs'[l] = h.cost /\ \A m \in Leaders \ {l} : Costs'[m] = Costs[m]
      /\ Shares[l] = own[l].shares /\ Costs[l] = own[l].cost
  BY <1>1 DEF Shares, Costs
<1>3. h.shares \in Int /\ h.cost \in Int
  BY DEF Holding
<1>4. SumOver(Shares', Leaders) = SumOver(Shares, Leaders) + h.shares - own[l].shares
  BY <1>2, <1>3, SumChanges, HoldingTypes
<1>5. SumOver(Costs', Leaders) = SumOver(Costs, Leaders) + h.cost - own[l].cost
  BY <1>2, <1>3, SumChanges, HoldingTypes
<1>6. \A m \in Leaders : Holding(own'[m])
  BY <1>1 DEF HoldingsSound
<1>. QED
  BY <1>4, <1>5, <1>6 DEF HoldingsSound

(* Nothing is left of anything.                                            *)
LEMMA AllGone ==
    ASSUME \A l \in Leaders : own'[l].shares = 0 /\ own'[l].cost = 0,
           position' = NoPosition
    PROVE  HoldingsSound'
<1>1. \A l \in Leaders : Shares'[l] = 0 /\ Costs'[l] = 0
  BY DEF Shares, Costs
<1>2. SumOver(Shares', Leaders) = 0 /\ SumOver(Costs', Leaders) = 0
  BY <1>1, SumZero, FiniteAssumption
<1>. QED
  BY <1>2 DEF HoldingsSound, Holding, NoPosition

-----------------------------------------------------------------------------
LEMMA InitAttribution == Init => AttributionInv
<1>. SUFFICES ASSUME Init PROVE AttributionInv
  OBVIOUS
<1>1. \A l \in Leaders : own[l].shares = 0 /\ own[l].cost = 0 /\ exit[l].remaining = 0
  BY DEF Init, NoHolding, NoExit
<1>2. \A l \in Leaders : Shares[l] = 0 /\ Costs[l] = 0
  BY <1>1 DEF Shares, Costs
<1>3. SumOver(Shares, Leaders) = 0 /\ SumOver(Costs, Leaders) = 0
  BY <1>2, SumZero, FiniteAssumption
<1>4. position.id = 0 /\ position.shares = 0 /\ position.cost = 0
  BY DEF Init, NoPosition
<1>. QED
  BY <1>1, <1>3, <1>4 DEF AttributionInv, HoldingsSound, Holding, ExitCovered

LEMMA BuyAttribution ==
    ASSUME BookInv, AttributionInv, NEW e \in Events, NEW q \in BuyFills, Buy(e, q),
           exit' = exit
    PROVE  AttributionInv'
<1> DEFINE l == Leader(e)
           cost == Source[e].price * q
           h == [shares |-> own[l].shares + q, cost |-> own[l].cost + cost]
<1>1. l \in Leaders /\ q \in Nat \ {0} /\ Source[e].price \in Nat
  BY MoneyAssumption, SourceAssumption DEF Leader
<1>2. cost \in Nat
  BY <1>1, Products
<1>3. own' = [own EXCEPT ![l] = h]
  BY DEF Buy
<1>4. /\ position'.shares = position.shares + q
      /\ position'.cost = position.cost + cost
      /\ position'.id = IF position.id = 0 THEN lastId + 1 ELSE position.id
  BY DEF Buy
<1> HIDE DEF l, cost
<1>5. Holding(own[l]) /\ own \in [Leaders -> [shares : Nat, cost : Int]]
      /\ position \in [id : Nat, shares : Nat, cost : Int] /\ lastId \in Nat
  BY <1>1 DEF AttributionInv, HoldingsSound, BookInv, BookTypes
<1>6. Holding(h)
  BY <1>1, <1>2, <1>5 DEF Holding
<1>7. position'.id # 0 /\ position'.shares # 0
  BY <1>1, <1>4, <1>5
<1>8. HoldingsSound'
  <2>1. /\ position'.shares = position.shares + h.shares - own[l].shares
        /\ position'.cost = position.cost + h.cost - own[l].cost
    BY <1>1, <1>2, <1>4, <1>5 DEF Holding
  <2> HIDE DEF h
  <2>. QED
    BY <1>1, <1>3, <1>5, <1>6, <1>7, <2>1, OneHolding DEF AttributionInv
<1>9. ASSUME NEW m \in Leaders, exit[m].remaining > 0
      PROVE  exit[m].pos = position'.id /\ exit[m].remaining <= own'[m].shares
  <2>1. exit[m].pos = position.id /\ exit[m].remaining <= own[m].shares
    BY <1>9 DEF AttributionInv, ExitCovered
  <2>2. exit[m].remaining \in Nat /\ own[m].shares \in Nat
    BY DEF BookInv, BookTypes, ExitRow
  <2>3. position.shares # 0
    BY <1>9, <2>1, <2>2, NothingOwned DEF AttributionInv
  <2>4. position.id # 0
    BY <2>3 DEF AttributionInv, HoldingsSound
  <2>5. own'[m].shares >= own[m].shares
    BY <1>1, <1>3, <1>5, <2>2
  <2>6. own'[m].shares \in Nat
    BY <1>8 DEF HoldingsSound, Holding
  <2>. QED
    BY <1>4, <2>1, <2>2, <2>4, <2>5, <2>6
<1>. QED
  BY <1>8, <1>9 DEF AttributionInv, ExitCovered

(* A sell out of one leader's holding.                                     *)
LEMMA SellPartAttribution ==
    ASSUME BookInv, AttributionInv, NEW l \in Leaders, NEW x \in ExitRow,
           x.remaining <= own[l].shares, ~Gone(l, x),
           NEW q \in SellFills(Smaller(x.remaining, Smaller(own[l].shares, position.shares))),
           NEW p, NEW tr, SellPart(l, x, tr, q, p)
    PROVE  /\ AttributionInv'
           /\ own'[l].shares = own[l].shares - q
           /\ \A m \in Leaders \ {l} : own'[m] = own[m]
           /\ q \in Nat \ {0} /\ q <= x.remaining
<1> DEFINE h == [shares |-> own[l].shares - q, cost |-> own[l].cost - OwnCost(l, q)]
<1>1. /\ Holding(own[l]) /\ own[l].shares \in Nat \ {0}
      /\ own \in [Leaders -> [shares : Nat, cost : Int]]
      /\ position \in [id : Nat, shares : Nat, cost : Int]
      /\ x.remaining \in Nat
  BY DEF AttributionInv, HoldingsSound, BookInv, BookTypes, Gone, ExitRow
<1>2. q \in Nat \ {0} /\ q <= x.remaining /\ q <= own[l].shares /\ q <= position.shares
  BY <1>1 DEF SellFills, Smaller
<1>3. own' = [own EXCEPT ![l] = h]
  BY DEF SellPart
<1>4. /\ OwnCost(l, q) \in Nat /\ OwnCost(l, q) <= own[l].cost
      /\ q = own[l].shares => OwnCost(l, q) = own[l].cost
  <2>1. q \in 1..own[l].shares /\ own[l].cost \in Nat /\ Exact(own[l].cost * q, own[l].shares)
    BY <1>1, <1>2 DEF Holding, SellPart
  <2>. QED
    BY <1>1, <2>1, PartOfCost DEF OwnCost
<1>5. Holding(h)
  BY <1>1, <1>2, <1>4 DEF Holding
<1>6. /\ position'.shares = position.shares - q
      /\ position'.cost = position.cost - OwnCost(l, q)
      /\ position'.id = 0 <=> position'.shares = 0
      /\ position'.shares # 0 => position'.id = position.id
  <2>1. CASE q = position.shares
    <3>1. position' = NoPosition
      BY <2>1 DEF SellPart, Sell
    <3>2. own[l].shares = position.shares
      BY <1>1, <1>2, <2>1, HoldingTypes DEF AttributionInv
    <3>3. own[l].cost = position.cost
      BY <3>2, SoleOwner DEF AttributionInv
    <3>. QED
      BY <1>1, <1>4, <2>1, <3>1, <3>2, <3>3 DEF NoPosition
  <2>2. CASE q # position.shares
    <3>1. position' = [position EXCEPT !.shares = @ - q, !.cost = @ - OwnCost(l, q)]
      BY <2>2 DEF SellPart, Sell, ReleasedCost
    <3>2. position.id # 0
      BY DEF Gone
    <3>. QED
      BY <1>1, <1>2, <2>2, <3>1, <3>2
  <2>. QED
    BY <2>1, <2>2
<1>7. HoldingsSound'
  <2>1. /\ position'.shares = position.shares + h.shares - own[l].shares
        /\ position'.cost = position.cost + h.cost - own[l].cost
    BY <1>1, <1>2, <1>4, <1>6 DEF Holding
  <2> HIDE DEF h
  <2>. QED
    BY <1>1, <1>3, <1>5, <1>6, <2>1, OneHolding DEF AttributionInv
<1>8. own'[l].shares = own[l].shares - q /\ \A m \in Leaders \ {l} : own'[m] = own[m]
  BY <1>1, <1>3
<1>9. exit' = [exit EXCEPT ![l] = [x EXCEPT !.remaining = @ - q]]
  BY DEF SellPart
<1>10. /\ exit'[l].remaining = x.remaining - q /\ exit'[l].pos = x.pos
       /\ \A m \in Leaders \ {l} : exit'[m] = exit[m]
  BY <1>9 DEF BookInv, ExitRow
<1>11. x.pos = position.id
  BY DEF Gone
<1>12. ASSUME NEW m \in Leaders, exit'[m].remaining > 0
       PROVE  exit'[m].pos = position'.id /\ exit'[m].remaining <= own'[m].shares
  <2>1. exit'[m].pos = position.id /\ exit'[m].remaining <= own'[m].shares
    BY <1>1, <1>2, <1>8, <1>10, <1>11, <1>12 DEF AttributionInv, ExitCovered
  <2>2. own'[m].shares # 0
    <3>1. exit'[m].remaining \in Nat
      BY <1>1, <1>2, <1>10 DEF BookInv, ExitRow
    <3>. QED
      BY <1>12, <2>1, <3>1
  <2>3. position'.shares # 0
    <3>1. own[m].shares \in Nat /\ own[m].shares <= position.shares
          /\ (m # l => own[l].shares + own[m].shares <= position.shares)
      BY HoldingTypes DEF AttributionInv, HoldingsSound, Holding
    <3>2. m # l => own'[m].shares = own[m].shares
      BY <1>8
    <3>3. q \in Nat /\ own[l].shares \in Nat /\ position.shares \in Nat
      BY <1>1, <1>2
    <3>. QED
      BY <1>2, <1>6, <1>8, <2>2, <3>1, <3>2, <3>3
  <2>. QED
    BY <1>6, <2>1, <2>3
<1>. QED
  BY <1>2, <1>7, <1>8, <1>12 DEF AttributionInv, ExitCovered

(* Exits that shrink or end, with the book as it is.                       *)
LEMMA ExitsAttribution ==
    ASSUME BookInv, AttributionInv, UNCHANGED book,
           \A l \in Leaders : exit'[l].remaining > 0 =>
               exit'[l].pos = position.id /\ exit'[l].remaining <= own[l].shares
    PROVE  AttributionInv'
<1>1. HoldingsSound'
  BY DEF AttributionInv, HoldingsSound, book, Shares, Costs
<1>. QED
  BY <1>1 DEF AttributionInv, ExitCovered, book

LEMMA FillExitAttribution ==
    ASSUME BookInv, AttributionInv, NEW l \in Leaders, NEW x \in ExitRow,
           x.remaining <= own[l].shares, NEW tr, NEW usable,
           FillExit(l, x, tr, usable)
    PROVE  AttributionInv'
<1>1. CASE UNCHANGED book /\ Gone(l, x) /\ exit' = [exit EXCEPT ![l] = [x EXCEPT !.remaining = 0]]
  BY <1>1, ExitsAttribution DEF AttributionInv, ExitCovered, BookInv, ExitRow
<1>2. CASE UNCHANGED book /\ ~Gone(l, x) /\ exit' = [exit EXCEPT ![l] = x]
  BY <1>2, ExitsAttribution DEF AttributionInv, ExitCovered, BookInv, Gone
<1>3. CASE ~Gone(l, x) /\ \E q \in SellFills(Smaller(x.remaining,
                                  Smaller(own[l].shares, position.shares))),
                             p \in SellPrices : SellPart(l, x, tr, q, p)
  BY <1>3, SellPartAttribution
<1>. QED
  BY <1>1, <1>2, <1>3 DEF FillExit

(* A SELL never asks for more than its leader owns.                        *)
LEMMA ExitTargetBound ==
    ASSUME BookInv, NEW l \in Leaders, NEW minimum \in Nat, NEW after,
           NEW size, NEW before, NEW part \in PartOf(Free(l), size, before)
    PROVE  ExitTarget(l, part, after, minimum) <= own[l].shares
<1>1. own[l].shares \in Nat /\ exit[l].remaining \in Nat
  BY DEF BookInv, BookTypes, ExitRow
<1>2. Kept(l) \in Nat /\ Kept(l) <= own[l].shares /\ Free(l) = own[l].shares - Kept(l)
  BY <1>1 DEF Kept, Smaller, Free
<1>3. part \in Nat /\ part <= Free(l)
  BY <1>2 DEF PartOf
<1>4. Kept(l) + part <= own[l].shares
  BY <1>1, <1>2, <1>3
<1>. QED
  BY <1>1, <1>2, <1>3, <1>4 DEF ExitTarget, Smaller, Positive

LEMMA RiskSellAttribution ==
    ASSUME BookInv, AttributionInv, NEW q \in 1..position.shares, NEW p, RiskSell(q, p)
    PROVE  /\ AttributionInv'
           /\ q # position.shares =>
                 \A l \in Leaders : own[l].shares > 0 => own'[l].shares > 0
<1> DEFINE total == position.shares
           rest == total - q
<1>1. /\ total \in Nat \ {0} /\ position.cost \in Nat /\ q \in 1..total /\ rest \in Nat
      /\ \A l \in Leaders : Holding(own[l]) /\ exit[l].remaining \in Nat
      /\ position \in [id : Nat, shares : Nat, cost : Int]
      /\ position.id # 0
      /\ total = SumOver(Shares, Leaders) /\ position.cost = SumOver(Costs, Leaders)
  BY HoldingTypes DEF AttributionInv, HoldingsSound, BookInv, BookTypes, ExitRow
<1>2. \A l \in Leaders : /\ own'[l].shares = Scaled(own[l].shares, q, total)
                         /\ own'[l].cost = Scaled(own[l].cost, q, total)
  BY DEF RiskSell
<1>3. \A l \in Leaders :
          /\ Exact(own[l].shares * q, total) /\ Exact(own[l].cost * q, total)
          /\ Exact(exit[l].remaining * q, total)
  BY DEF RiskSell
<1>4. \A l \in Leaders :
          /\ own'[l].shares \in Nat /\ total * own'[l].shares = rest * own[l].shares
          /\ own'[l].cost \in Nat /\ total * own'[l].cost = rest * own[l].cost
          /\ Scaled(exit[l].remaining, q, total) \in Nat
          /\ total * Scaled(exit[l].remaining, q, total) = rest * exit[l].remaining
  <2>. HIDE DEF total
  <2>1. TAKE l \in Leaders
  <2>2. own[l].shares \in Nat /\ own[l].cost \in Nat /\ exit[l].remaining \in Nat
    BY <1>1 DEF Holding
  <2>3. /\ Scaled(own[l].shares, q, total) \in Nat
        /\ total * Scaled(own[l].shares, q, total) = rest * own[l].shares
    BY <1>1, <1>3, <2>2, ScaledExactly
  <2>4. /\ Scaled(own[l].cost, q, total) \in Nat
        /\ total * Scaled(own[l].cost, q, total) = rest * own[l].cost
    BY <1>1, <1>3, <2>2, ScaledExactly
  <2>5. /\ Scaled(exit[l].remaining, q, total) \in Nat
        /\ total * Scaled(exit[l].remaining, q, total) = rest * exit[l].remaining
    BY <1>1, <1>3, <2>2, ScaledExactly
  <2>. QED
    BY <1>2, <2>3, <2>4, <2>5
<1>5. \A l \in Leaders :
          /\ exit[l].remaining > 0 =>
                exit'[l].pos = exit[l].pos /\ exit'[l].remaining = Scaled(exit[l].remaining, q, total)
          /\ exit[l].remaining = 0 => exit'[l] = exit[l]
  <2>1. exit' = ScaledExits(q, total)
    BY DEF RiskSell
  <2>. SUFFICES ASSUME NEW l \in Leaders
                PROVE  /\ exit[l].remaining > 0 =>
                            /\ exit'[l].pos = exit[l].pos
                            /\ exit'[l].remaining = Scaled(exit[l].remaining, q, total)
                       /\ exit[l].remaining = 0 => exit'[l] = exit[l]
    OBVIOUS
  <2>2. exit[l] \in ExitRow
    BY DEF BookInv
  <2>3. CASE exit[l].remaining > 0
    <3> DEFINE n == Scaled(exit[l].remaining, q, total)
               y == [exit[l] EXCEPT !.remaining = n]
    <3>1. exit'[l] = [y EXCEPT !.gen = @ + 1]
      BY <2>1, <2>3 DEF ScaledExits
    <3>2. y.remaining = n /\ y.pos = exit[l].pos
      BY <2>2 DEF ExitRow
    <3>3. exit'[l].remaining = y.remaining /\ exit'[l].pos = y.pos
      <4>1. y \in [remaining : {n}, pos : Nat, trade : SUBSET Events, ts : Nat, gen : Nat]
        BY <2>2 DEF ExitRow
      <4> HIDE DEF y
      <4>. QED
        BY <3>1, <4>1
    <3>. QED
      BY <2>2, <2>3, <3>2, <3>3 DEF ExitRow
  <2>4. CASE ~(exit[l].remaining > 0)
    BY <2>1, <2>4 DEF ScaledExits
  <2>. QED
    BY <2>2, <2>3, <2>4 DEF ExitRow
<1> HIDE DEF rest, total
<1>6. CASE q = total
  <2>1. \A l \in Leaders : own'[l].shares = 0 /\ own'[l].cost = 0
    <3>1. TAKE l \in Leaders
    <3>2. own[l].shares \in Int /\ own[l].cost \in Int
      BY <1>1 DEF Holding
    <3>3. Scaled(own[l].shares, q, total) = 0 /\ Scaled(own[l].cost, q, total) = 0
      BY <1>1, <1>6, <3>2, ScaledType
    <3>. QED
      BY <1>2, <3>3
  <2>2. position' = NoPosition
    BY <1>6 DEF RiskSell, Sell, total
  <2>3. HoldingsSound'
    BY <2>1, <2>2, AllGone
  <2>4. \A l \in Leaders : exit'[l].remaining = 0
    <3>1. TAKE l \in Leaders
    <3>2. Scaled(exit[l].remaining, q, total) = 0
      BY <1>1, <1>6, ScaledType
    <3>. QED
      BY <1>1, <1>5, <3>2
  <2>. QED
    BY <1>6, <2>3, <2>4 DEF AttributionInv, ExitCovered, total
<1>7. CASE q # total
  <2> DEFINE cost == (position.cost * q) \div total
  <2>1. position' = [position EXCEPT !.shares = @ - q, !.cost = @ - cost]
    BY <1>7 DEF RiskSell, Sell, total
  <2>2. position'.id = position.id /\ position'.shares = rest /\ position'.cost = position.cost - cost
    BY <1>1, <2>1 DEF rest, total
  <2>3. cost \in Int /\ total * cost = position.cost * q
    <3> DEFINE n == position.cost * q
    <3>1. Exact(n, total)
      BY DEF RiskSell, total
    <3>2. n \in Int /\ total \in Nat \ {0}
      BY <1>1, Products
    <3>3. cost = n \div total
      OBVIOUS
    <3> HIDE DEF n, cost
    <3>4. n \div total \in Int /\ total * (n \div total) = n
      BY <3>1, <3>2, Quotient
    <3>5. cost \in Int /\ total * cost = n
      BY <3>3, <3>4
    <3>. QED
      BY <3>5 DEF n
  <2> HIDE DEF cost
  <2>4. rest \in Nat \ {0}
    BY <1>1, <1>7 DEF rest
  <2>5. \A l \in Leaders : Shares'[l] = own'[l].shares /\ Costs'[l] = own'[l].cost
                           /\ Shares[l] = own[l].shares /\ Costs[l] = own[l].cost
    BY DEF Shares, Costs
  <2>6. Ints(Shares', Leaders) /\ Ints(Costs', Leaders)
        /\ Ints(Shares, Leaders) /\ Ints(Costs, Leaders)
    BY <1>4, <2>5, FiniteAssumption, HoldingTypes DEF Ints, AttributionInv
  <2>7. SumOver(Shares', Leaders) = rest
    <3>1. total * SumOver(Shares', Leaders) = rest * SumOver(Shares, Leaders)
      <4>1. \A l \in Leaders : total * Shares'[l] = rest * Shares[l]
        BY <1>4, <2>5
      <4>2. total \in Int /\ rest \in Int
        BY <1>1
      <4>. QED
        BY <2>6, <4>1, <4>2, SumScales
    <3>2. rest * total = total * rest
      BY <1>1
    <3>3. SumOver(Shares', Leaders) \in Int
      BY <2>6, SumType
    <3>. QED
      BY <1>1, <3>1, <3>2, <3>3, Cancels
  <2>8. SumOver(Costs', Leaders) = position.cost - cost
    <3>1. total * SumOver(Costs', Leaders) = rest * position.cost
      <4>1. \A l \in Leaders : total * Costs'[l] = rest * Costs[l]
        BY <1>4, <2>5
      <4>2. total \in Int /\ rest \in Int
        BY <1>1
      <4>. QED
        BY <1>1, <2>6, <4>1, <4>2, SumScales
    <3>2. rest * position.cost = total * position.cost - q * position.cost
      BY <1>1 DEF rest
    <3>3. q * position.cost = position.cost * q
      BY <1>1
    <3>4. total * (position.cost - cost) = total * position.cost - total * cost
      BY <1>1, <2>3
    <3>5. total * SumOver(Costs', Leaders) = total * (position.cost - cost)
      BY <2>3, <3>1, <3>2, <3>3, <3>4
    <3>6. SumOver(Costs', Leaders) \in Int /\ position.cost - cost \in Int
      BY <1>1, <2>3, <2>6, SumType
    <3>. QED
      BY <1>1, <3>5, <3>6, Cancels
  <2>9. \A l \in Leaders : own'[l].shares = 0 => own[l].shares = 0
    <3>. SUFFICES ASSUME NEW l \in Leaders, own'[l].shares = 0 PROVE own[l].shares = 0
      OBVIOUS
    <3>1. rest * own[l].shares = rest * 0
      BY <1>1, <1>4
    <3>. QED
      BY <1>1, <2>4, <3>1, Cancels DEF Holding
  <2>10. \A l \in Leaders : Holding(own'[l])
    <3>. SUFFICES ASSUME NEW l \in Leaders PROVE Holding(own'[l])
      OBVIOUS
    <3>1. CASE own'[l].shares = 0
      <4>1. own[l].cost = 0
        BY <1>1, <2>9, <3>1 DEF Holding
      <4>2. total * own'[l].cost = total * 0
        BY <1>1, <1>4, <4>1
      <4>3. own'[l].cost = 0
        BY <1>1, <1>4, <4>2, Cancels
      <4>. QED
        BY <1>4, <4>3 DEF Holding
    <3>2. CASE own'[l].shares # 0
      BY <1>4, <3>2 DEF Holding
    <3>. QED
      BY <3>1, <3>2
  <2>11. HoldingsSound'
    BY <1>1, <2>2, <2>4, <2>7, <2>8, <2>10 DEF HoldingsSound
  <2>12. ASSUME NEW l \in Leaders, exit'[l].remaining > 0
         PROVE  exit'[l].pos = position'.id /\ exit'[l].remaining <= own'[l].shares
    <3>1. exit[l].remaining > 0
      BY <1>1, <1>5, <2>12
    <3>2. exit[l].pos = position.id /\ exit[l].remaining <= own[l].shares
      BY <3>1 DEF AttributionInv, ExitCovered
    <3>3. rest * exit[l].remaining <= rest * own[l].shares
      BY <1>1, <3>2, Larger DEF Holding
    <3>4. total * exit'[l].remaining <= total * own'[l].shares
      BY <1>4, <1>5, <3>1, <3>3
    <3>5. exit'[l].remaining <= own'[l].shares
      BY <1>1, <1>4, <1>5, <3>1, <3>4, Cancels
    <3>. QED
      BY <1>5, <2>2, <3>1, <3>2, <3>5
  <2>. QED
    BY <1>1, <1>4, <2>9, <2>11, <2>12 DEF AttributionInv, ExitCovered
<1>. QED
  BY <1>6, <1>7

(* A payout and a reset leave nothing.                                     *)
LEMMA NothingLeft ==
    ASSUME own' = [l \in Leaders |-> NoHolding], position' = NoPosition,
           \A l \in Leaders : exit'[l].remaining = 0
    PROVE  AttributionInv'
<1>1. \A l \in Leaders : own'[l].shares = 0 /\ own'[l].cost = 0
  BY DEF NoHolding
<1>. QED
  BY <1>1, AllGone DEF AttributionInv, ExitCovered

-----------------------------------------------------------------------------
(* What one step may do to the holdings, the open exits and the pending    *)
(* signals: nothing, a purchase, a part of an exit, a risk sell, a payout  *)
(* or a reset.                                                             *)
Lingers(f) == trade'[f] = "exit_pending" => trade[f] = "exit_pending"

Quiet ==
    /\ UNCHANGED book
    /\ \/ exit' = exit
       \/ \E l \in Leaders : exit' = [exit EXCEPT ![l].remaining = 0]
    /\ \A f \in Events : Lingers(f)

Bought ==
    \E e \in Events, q \in BuyFills, retried \in BOOLEAN :
        /\ Affordable(Source[e].price * q, retried)
        /\ Buy(e, q) /\ exit' = exit
        /\ trade' = [trade EXCEPT ![e] = "executed"]

(* An exit is filled on statuses that call a signal pending only when it   *)
(* was or when its leader owns something.                                  *)
Exited ==
    \E l \in Leaders, x \in ExitRow : \E tr, usable :
        /\ x.remaining <= own[l].shares
        /\ \A f \in x.trade : Leader(f) = l
        /\ \A f \in Events : tr[f] = "exit_pending" =>
              trade[f] = "exit_pending" \/ (Leader(f) = l /\ own[l].shares > 0)
        /\ FillExit(l, x, tr, usable)

RiskSold == \E q \in 1..position.shares, p \in SellPrices : RiskSell(q, p)
PaidOut == \E p \in Payouts : Settle(p)

LEMMA AcceptSellMoves ==
    ASSUME Inv, NEW e \in Events, AcceptSell(e)
    PROVE  Quiet \/ Exited
<1> DEFINE l == Leader(e)
           older == {f \in OfLeader(l) : Source[f].ts <= Source[e].ts}
           tr(status) == [Skip(trade, older) EXCEPT ![e] = status]
           after == LeaderAfter(e, NextTid(e))
           x(part, minimum) ==
               [remaining |-> ExitTarget(l, part, after, minimum),
                pos |-> position.id, trade |-> {e}, ts |-> Source[e].ts,
                gen |-> exit[l].gen + 1]
<1>1. l \in Leaders /\ Source[e].ts \in Nat
  BY SourceAssumption DEF Leader
<1>2. CASE trade' = tr("skipped") /\ UNCHANGED <<book, exit>>
  BY <1>2 DEF Quiet, Lingers, Skip, Inv, SignalInv
<1>3. CASE /\ own[l].shares > 0
           /\ \E minimum \in {0, MinOrder},
                 part \in PartOf(Free(l), Source[e].size, leaderShares[l]) :
                 FillExit(l, x(part, minimum), tr("exit_pending"), minimum = MinOrder)
  <2>1. PICK minimum \in {0, MinOrder},
             part \in PartOf(Free(l), Source[e].size, leaderShares[l]) :
             FillExit(l, x(part, minimum), tr("exit_pending"), minimum = MinOrder)
    BY <1>3
  <2>2. minimum \in Nat /\ part \in Nat
    BY <1>1, MoneyAssumption DEF PartOf, Free, Kept, Smaller, Inv, BookInv, BookTypes, ExitRow
  <2>3. ExitTarget(l, part, after, minimum) \in Nat
        /\ ExitTarget(l, part, after, minimum) <= own[l].shares
    BY <1>1, <2>2, ExitTargetType, ExitTargetBound DEF Inv
  <2>4. x(part, minimum) \in ExitRow
    BY <1>1, <2>2, <2>3 DEF ExitRow, Inv, BookInv, BookTypes
  <2>5. x(part, minimum).remaining <= own[l].shares
        /\ \A f \in x(part, minimum).trade : Leader(f) = l
    BY <2>3
  <2>6. \A f \in Events : tr("exit_pending")[f] = "exit_pending" =>
            trade[f] = "exit_pending" \/ (Leader(f) = l /\ own[l].shares > 0)
    BY <1>3 DEF Skip
  <2> HIDE DEF x, tr, l
  <2>. QED
    BY <1>1, <2>1, <2>4, <2>5, <2>6 DEF Exited
<1>. QED
  BY <1>2, <1>3 DEF AcceptSell

LEMMA Moves ==
    ASSUME Inv, ExitCovered, [Next]_vars
    PROVE  Quiet \/ Bought \/ Exited \/ RiskSold \/ PaidOut \/ Reset
<1>1. ASSUME UNCHANGED book, exit' = exit, trade' = trade PROVE Quiet
  BY <1>1 DEF Quiet, Lingers
<1>2. ASSUME NEW e \in Events, UNCHANGED book, exit' = exit,
             \/ \E S : trade' = Skip(trade, S)
             \/ \E status \in Statuses \ {"exit_pending"} : trade' = [trade EXCEPT ![e] = status]
      PROVE  Quiet
  <2>1. ASSUME NEW S, trade' = Skip(trade, S) PROVE \A f \in Events : Lingers(f)
    BY <2>1 DEF Lingers, Skip
  <2>2. ASSUME NEW status \in Statuses \ {"exit_pending"}, trade' = [trade EXCEPT ![e] = status]
        PROVE  \A f \in Events : Lingers(f)
    BY <2>2 DEF Lingers, Inv, SignalInv
  <2>. QED
    BY <1>2, <2>1, <2>2 DEF Quiet
<1>3. ASSUME NEW l \in Leaders, Process(l) PROVE Quiet \/ Bought \/ Exited
  <2> DEFINE e == Head(queue[l])
  <2>1. e \in Events
    BY <1>3, HeadIsTrade DEF Process, Inv
  <2>2. UNCHANGED <<book, signals>> \/ RejectInvalid(e) \/ AcceptSell(e) \/ AcceptBuy(e)
    BY <1>3 DEF Process
  <2> HIDE DEF e
  <2>3. CASE AcceptBuy(e)
    <3>1. CASE FillBuy(e)
      BY <2>1, <2>3, <3>1 DEF AcceptBuy, FillBuy, Bought
    <3>2. CASE RefuseBuy(e) \/ WaitBuy(e)
      BY <1>2, <2>1, <2>3, <3>2 DEF AcceptBuy, RefuseBuy, WaitBuy, Statuses
    <3>. QED
      BY <2>3, <3>1, <3>2 DEF AcceptBuy
  <2>4. CASE RejectInvalid(e)
    BY <1>2, <2>1, <2>4 DEF RejectInvalid, Statuses
  <2>. QED
    BY <1>1, <2>1, <2>2, <2>3, <2>4, AcceptSellMoves DEF signals
<1>4. ASSUME NEW e \in Events, StartBuy(e) PROVE Quiet
  BY <1>1, <1>2, <1>4 DEF StartBuy
<1>5. ASSUME NEW e \in Events, RunBuy(e) PROVE Quiet \/ Bought
  <2>1. CASE FillRetry(e)
    BY <1>5, <2>1 DEF RunBuy, FillRetry, EndBuy, Bought
  <2>2. CASE UNCHANGED book /\ trade' = trade
    BY <1>1, <1>5, <2>2 DEF RunBuy
  <2>3. CASE EndBuy(e, "skipped") /\ UNCHANGED book
    BY <1>2, <1>5, <2>3 DEF RunBuy, EndBuy, Statuses
  <2>. QED
    BY <1>5, <2>1, <2>2, <2>3 DEF RunBuy
<1>6. ASSUME NEW l \in Leaders, RunExit(l) PROVE Quiet \/ Exited
  <2>1. CASE UNCHANGED book /\ exit' = exit /\ trade' = trade
    BY <1>1, <2>1
  <2>2. CASE StillOpen(l) /\ FillExit(l, exit[l], trade, TRUE)
    <3>1. exit[l] \in ExitRow /\ \A f \in exit[l].trade : Leader(f) = l
      BY <1>6 DEF Inv, BookInv, SignalInv, ExitSignals
    <3>2. exit[l].remaining <= own[l].shares
      BY <1>6, <2>2 DEF StillOpen, ExitCovered
    <3>. QED
      BY <1>6, <2>2, <3>1, <3>2 DEF Exited
  <2>. QED
    BY <1>6, <2>1, <2>2 DEF RunExit
<1>7. ASSUME NEW l \in Leaders, CloseExit(l) PROVE Quiet
  <2>1. CASE exit' = exit /\ trade' = trade
    BY <1>1, <1>7, <2>1 DEF CloseExit
  <2>2. CASE exit' = [exit EXCEPT ![l].remaining = 0] /\ trade' = Finish(trade, OfLeader(l))
    <3>1. \A f \in Events : Lingers(f)
      BY <2>2 DEF Lingers, Finish
    <3>. QED
      BY <1>7, <2>2, <3>1 DEF CloseExit, Quiet
  <2>. QED
    BY <1>7, <2>1, <2>2 DEF CloseExit
<1>8. ASSUME RunRisk PROVE Quiet \/ RiskSold
  <2>1. CASE UNCHANGED book /\ exit' = exit /\ trade' = trade
    BY <1>1, <2>1
  <2>2. ASSUME NEW q \in SellFills(Smaller(riskJob.shares, position.shares)),
               NEW p \in SellPrices, RiskSell(q, p)
        PROVE  RiskSold
    <3>1. q \in 1..position.shares
      BY <1>8 DEF SellFills, Smaller, Inv, BookInv, BookTypes
    <3>. QED
      BY <2>2, <3>1 DEF RiskSold
  <2>. QED
    BY <1>8, <2>1, <2>2 DEF RunRisk
<1>9. ASSUME RunSettle PROVE Quiet \/ PaidOut
  BY <1>1, <1>9 DEF RunSettle, PaidOut
<1>. QED
  BY <1>1, <1>3, <1>4, <1>5, <1>6, <1>7, <1>8, <1>9 DEF Next, vars, signals, Schedule,
     Forget, StartExit, ReadExitPosition, ToggleLeader, StartRisk, StartSettle,
     TogglePause, SetRule, Restart

-----------------------------------------------------------------------------
LEMMA NextKeepsAttribution ==
    ASSUME Inv, AttributionInv, [Next]_vars
    PROVE  AttributionInv'
<1>1. CASE Quiet
  <2>1. \A l \in Leaders : exit'[l].remaining > 0 =>
            exit'[l].pos = position.id /\ exit'[l].remaining <= own[l].shares
    <3>1. \A l \in Leaders : exit'[l].remaining > 0 => exit'[l] = exit[l]
      BY <1>1 DEF Quiet, Inv, BookInv, ExitRow
    <3>. QED
      BY <3>1 DEF AttributionInv, ExitCovered
  <2>. QED
    BY <1>1, <2>1, ExitsAttribution DEF Quiet, Inv
<1>2. CASE Bought
  BY <1>2, BuyAttribution DEF Bought, Inv
<1>3. CASE Exited
  BY <1>3, FillExitAttribution DEF Exited, Inv
<1>4. CASE RiskSold
  BY <1>4, RiskSellAttribution DEF RiskSold, Inv
<1>5. CASE PaidOut
  <2>1. PICK p \in Payouts : Settle(p)
    BY <1>5 DEF PaidOut
  <2>2. own' = [l \in Leaders |-> NoHolding] /\ position' = NoPosition
    BY <2>1 DEF Settle, Sell
  <2>3. \A l \in Leaders : exit'[l].remaining = 0
    <3>1. TAKE l \in Leaders
    <3>2. exit[l] \in ExitRow /\ (exit[l].remaining > 0 => exit[l].gen > 0)
      BY DEF Inv, BookInv, SignalInv, ExitSignals
    <3>3. CASE exit[l].gen = 0
      <4>1. exit'[l] = exit[l]
        BY <2>1, <3>3 DEF Settle
      <4>2. exit[l].remaining \in Nat /\ exit[l].remaining <= 0
        BY <3>2, <3>3 DEF ExitRow
      <4>. QED
        BY <4>1, <4>2
    <3>4. CASE exit[l].gen # 0
      <4> DEFINE y == [exit[l] EXCEPT !.remaining = 0]
      <4>1. exit'[l] = [y EXCEPT !.gen = @ + 1]
        BY <2>1, <3>4 DEF Settle
      <4>2. y.remaining = 0 /\ y \in ExitRow
        BY <3>2 DEF ExitRow
      <4> HIDE DEF y
      <4>. QED
        BY <4>1, <4>2 DEF ExitRow
    <3>. QED
      BY <3>3, <3>4
  <2>. QED
    BY <2>2, <2>3, NothingLeft
<1>6. CASE Reset
  <2>1. \A l \in Leaders : exit'[l].remaining = 0
    BY <1>6 DEF Reset, NoExit
  <2>. QED
    BY <1>6, <2>1, NothingLeft DEF Reset
<1>. QED
  BY <1>1, <1>2, <1>3, <1>4, <1>5, <1>6, Moves DEF AttributionInv

LEMMA AttributionInvariant == Spec => []AttributionInv
<1>1. Init => AttributionInv
  BY InitAttribution
<1>2. Inv /\ AttributionInv /\ [Next]_vars => AttributionInv'
  BY NextKeepsAttribution
<1>. QED
  BY <1>1, <1>2, Invariant, PTL DEF Spec

(* The order history gives every share and every cent of the shared        *)
(* position to a leader: apply_fill and accounting.replay agree after      *)
(* every purchase, exit, risk sell and payout of any number of leaders.    *)
THEOREM AttributedHolds == Spec => []Attributed
<1>1. AttributionInv => Attributed
  BY SoundIsAttributed DEF AttributionInv
<1>. QED
  BY <1>1, AttributionInvariant, PTL

(* An open exit refers to the position that is there and never asks for    *)
(* more than its leader owns, whatever _monitor_risk_token,                *)
(* _settle_position and the exits of the other leaders took meanwhile.     *)
THEOREM ExitCoveredHolds == Spec => []ExitCovered
<1>1. AttributionInv => ExitCovered
  BY DEF AttributionInv
<1>. QED
  BY <1>1, AttributionInvariant, PTL

-----------------------------------------------------------------------------
(* A pending SELL.  An exit that sells the last share of its leader ends   *)
(* with it, because it asks for no more than the leader owns.              *)
LEMMA FillExitPending ==
    ASSUME BookInv, AttributionInv, PendingExitOwnsShares,
           NEW l \in Leaders, NEW x \in ExitRow, x.remaining <= own[l].shares,
           NEW tr, NEW usable, FillExit(l, x, tr, usable),
           \A f \in x.trade : Leader(f) = l,
           \A f \in Events : tr[f] = "exit_pending" =>
              trade[f] = "exit_pending" \/ (Leader(f) = l /\ own[l].shares > 0)
    PROVE  PendingExitOwnsShares'
<1>1. \A f \in Events : tr[f] = "exit_pending" => own[Leader(f)].shares > 0
  BY DEF PendingExitOwnsShares
<1>2. CASE UNCHANGED book /\ (trade' = tr \/ trade' = Finish(tr, OfLeader(l)))
  BY <1>1, <1>2 DEF PendingExitOwnsShares, book, Finish
<1>3. ASSUME ~Gone(l, x),
             NEW q \in SellFills(Smaller(x.remaining, Smaller(own[l].shares, position.shares))),
             NEW p \in SellPrices, SellPart(l, x, tr, q, p)
      PROVE  PendingExitOwnsShares'
  <2> DEFINE done == [f \in Events |-> IF f \in x.trade THEN "executed" ELSE tr[f]]
  <2>1. /\ own'[l].shares = own[l].shares - q
        /\ \A m \in Leaders \ {l} : own'[m] = own[m]
        /\ q \in Nat \ {0} /\ q <= x.remaining
    BY <1>3, SellPartAttribution
  <2>2. trade' = IF q = x.remaining THEN Finish(done, OfLeader(l)) ELSE done
    BY <1>3 DEF SellPart
  <2>. SUFFICES ASSUME NEW f \in Events, trade'[f] = "exit_pending"
                PROVE  own'[Leader(f)].shares > 0
    BY DEF PendingExitOwnsShares, Leader
  <2>3. done[f] = "exit_pending" /\ (q = x.remaining => f \notin OfLeader(l))
    BY <2>2 DEF Finish
  <2>4. own[Leader(f)].shares > 0 /\ Leader(f) \in Leaders
    BY <1>1, <2>3, SourceAssumption DEF Leader
  <2>5. CASE Leader(f) # l
    BY <2>1, <2>4, <2>5
  <2>6. CASE Leader(f) = l
    <3>1. q # x.remaining
      BY <2>3, <2>6 DEF OfLeader
    <3>2. own[l].shares \in Nat /\ x.remaining \in Nat
      BY DEF BookInv, BookTypes, ExitRow
    <3>. QED
      BY <2>1, <2>6, <3>1, <3>2
  <2>. QED
    BY <2>5, <2>6
<1>. QED
  BY <1>2, <1>3 DEF FillExit

LEMMA NextKeepsPending ==
    ASSUME Inv, AttributionInv, PendingExitOwnsShares, [Next]_vars
    PROVE  PendingExitOwnsShares'
<1>1. \A f \in Events : Leader(f) \in Leaders
  BY SourceAssumption DEF Leader
<1>2. CASE Quiet
  BY <1>2 DEF Quiet, Lingers, PendingExitOwnsShares, book, Leader
<1>3. CASE Bought
  <2>1. PICK e \in Events, q \in BuyFills : Buy(e, q) /\ trade' = [trade EXCEPT ![e] = "executed"]
    BY <1>3 DEF Bought
  <2>2. \A l \in Leaders : own[l].shares > 0 => own'[l].shares > 0
    <3>1. own'[Leader(e)].shares = own[Leader(e)].shares + q
      BY <1>1, <2>1 DEF Buy, Inv, BookInv, BookTypes
    <3>2. q \in Nat \ {0} /\ \A l \in Leaders : own[l].shares \in Nat
      BY MoneyAssumption DEF Inv, BookInv, BookTypes
    <3>3. \A l \in Leaders \ {Leader(e)} : own'[l] = own[l]
      BY <2>1, BuyGrowsOwn DEF Inv
    <3>. QED
      BY <3>1, <3>2, <3>3
  <2>3. \A f \in Events : trade'[f] = "exit_pending" => trade[f] = "exit_pending"
    BY <2>1 DEF Inv, SignalInv
  <2>. QED
    BY <1>1, <2>2, <2>3 DEF PendingExitOwnsShares, Leader
<1>4. CASE Exited
  BY <1>4, FillExitPending DEF Exited, Inv
<1>5. CASE RiskSold
  <2>1. PICK q \in 1..position.shares, p \in SellPrices : RiskSell(q, p)
    BY <1>5 DEF RiskSold
  <2>2. CASE q = position.shares
    <3>1. trade' = Skip(Finish(trade, Events), Events)
      BY <2>1, <2>2 DEF RiskSell
    <3>2. \A f \in Events : trade'[f] # "exit_pending"
      BY <3>1 DEF Skip, Finish
    <3>. QED
      BY <3>2 DEF PendingExitOwnsShares
  <2>3. CASE q # position.shares
    <3>1. trade' = Skip(trade, Events)
      BY <2>1, <2>3 DEF RiskSell
    <3>2. \A f \in Events : trade'[f] = "exit_pending" => trade[f] = "exit_pending"
      BY <3>1 DEF Skip
    <3>3. \A l \in Leaders : own[l].shares > 0 => own'[l].shares > 0
      BY <2>1, <2>3, RiskSellAttribution DEF Inv
    <3>. QED
      BY <1>1, <3>2, <3>3 DEF PendingExitOwnsShares, Leader
  <2>. QED
    BY <2>2, <2>3
<1>6. CASE PaidOut
  <2>1. trade' = Skip(Finish(trade, Events), Events)
    BY <1>6 DEF PaidOut, Settle
  <2>2. \A f \in Events : trade'[f] # "exit_pending"
    BY <2>1 DEF Skip, Finish
  <2>. QED
    BY <2>2 DEF PendingExitOwnsShares
<1>7. CASE Reset
  <2>1. \A f \in Events : trade'[f] # "exit_pending"
    BY <1>7 DEF Reset
  <2>. QED
    BY <2>1 DEF PendingExitOwnsShares
<1>. QED
  BY <1>2, <1>3, <1>4, <1>5, <1>6, <1>7, Moves DEF AttributionInv

(* A SELL shown as pending has shares of its leader left to sell: whoever  *)
(* closed the holding, _fill_exit, the risk monitor or the settlement,     *)
(* also closed the signal.                                                 *)
THEOREM PendingExitOwnsSharesHolds == Spec => []PendingExitOwnsShares
<1>1. Init => PendingExitOwnsShares
  BY DEF Init, PendingExitOwnsShares
<1>2. Inv /\ AttributionInv /\ PendingExitOwnsShares /\ [Next]_vars => PendingExitOwnsShares'
  BY NextKeepsPending
<1>. QED
  BY <1>1, <1>2, Invariant, AttributionInvariant, PTL DEF Spec

-----------------------------------------------------------------------------
(* The balance.  What a purchase may spend is in the account because the   *)
(* open cost, and with it the reserve, is never negative.                  *)
LEMMA WithinBalance ==
    ASSUME NEW cost \in Nat, cash \in Nat, position.cost \in Nat,
           NEW retried, Affordable(cost, retried)
    PROVE  cost <= cash
<1>1. CASE WithinReserve(cost)
  <2>1. /\ ReserveNum * (cash + position.cost) \in Nat
        /\ ReserveDen * cost \in Nat /\ ReserveDen * cash \in Nat
    BY MoneyAssumption, Products
  <2>2. ReserveDen * cost <= ReserveDen * cash
    BY <1>1, <2>1 DEF WithinReserve
  <2>. QED
    BY <2>2, Cancels, MoneyAssumption
<1>. QED
  BY <1>1 DEF Affordable

LEMMA SellPays ==
    ASSUME cash \in Nat, NEW q \in Nat, NEW p \in Nat, NEW cost, Sell(q, p, cost)
    PROVE  cash' \in Nat
<1>1. p * q \in Nat
  BY Products
<1>. QED
  BY <1>1 DEF Sell

Funded == cash \in Nat

LEMMA NextKeepsCash ==
    ASSUME Inv, AttributionInv, cash \in Nat, [Next]_vars
    PROVE  cash' \in Nat
<1>1. SellPrices \subseteq Nat /\ Payouts \subseteq Nat /\ StartCash \in Nat
      /\ BuyFills \subseteq Nat /\ \A e \in Events : Source[e].price \in Nat
  BY MoneyAssumption, SourceAssumption
<1>2. position.shares \in Nat /\ position.cost \in Nat
      /\ \A l \in Leaders : own[l].shares \in Nat
  BY HoldingTypes DEF AttributionInv, HoldingsSound, Holding
<1>3. CASE Bought
  <2>1. PICK e \in Events, q \in BuyFills, retried \in BOOLEAN :
             Affordable(Source[e].price * q, retried) /\ Buy(e, q)
    BY <1>3 DEF Bought
  <2> DEFINE cost == Source[e].price * q
  <2>2. cost \in Nat
    BY <1>1, Products
  <2>3. cash' = cash - cost
    BY <2>1 DEF Buy
  <2> HIDE DEF cost
  <2>4. cost <= cash
    BY <1>2, <2>1, <2>2, WithinBalance DEF cost
  <2>. QED
    BY <2>2, <2>3, <2>4
<1>4. CASE Exited
  <2>0. PICK l \in Leaders, x \in ExitRow : \E tr, usable : FillExit(l, x, tr, usable)
    BY <1>4 DEF Exited
  <2>1. PICK tr, usable : FillExit(l, x, tr, usable)
    BY <2>0
  <2>2. ASSUME NEW q \in SellFills(Smaller(x.remaining, Smaller(own[l].shares, position.shares))),
               NEW p \in SellPrices, SellPart(l, x, tr, q, p)
        PROVE  cash' \in Nat
    <3>1. q \in Nat
      BY <1>2 DEF SellFills, Smaller, ExitRow
    <3>. QED
      BY <1>1, <2>2, <3>1, SellPays DEF SellPart
  <2>. QED
    BY <2>1, <2>2 DEF FillExit, book
<1>5. CASE RiskSold
  <2>1. PICK q \in 1..position.shares, p \in SellPrices : RiskSell(q, p)
    BY <1>5 DEF RiskSold
  <2>2. \E cost : Sell(q, p, cost)
    BY <2>1 DEF RiskSell
  <2>3. q \in Nat
    BY <1>2
  <2>. QED
    BY <1>1, <2>2, <2>3, SellPays
<1>6. CASE PaidOut
  BY <1>1, <1>2, <1>6, SellPays DEF PaidOut, Settle
<1>7. CASE Quiet \/ Reset
  BY <1>1, <1>7 DEF Quiet, book, Reset
<1>. QED
  BY <1>3, <1>4, <1>5, <1>6, <1>7, Moves DEF AttributionInv

(* The account is never overdrawn: process_event and _retry_buy size an    *)
(* entry from the balance they find under the lock, and every sell and     *)
(* payout only adds to it.                                                 *)
THEOREM SolventHolds == Spec => []Solvent
<1>1. Init => Funded
  BY MoneyAssumption DEF Init, Funded
<1>2. Inv /\ AttributionInv /\ Funded /\ [Next]_vars => Funded'
  BY NextKeepsCash DEF Funded
<1>3. Funded => Solvent
  BY DEF Solvent, Funded
<1>. QED
  BY <1>1, <1>2, <1>3, Invariant, AttributionInvariant, PTL DEF Spec
=============================================================================
