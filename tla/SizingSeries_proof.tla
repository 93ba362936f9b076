------------------------- MODULE SizingSeries_proof -------------------------
(***************************************************************************)
(* What holds of the sizing series for every finite set of trades, every   *)
(* window, limit, mode and book: the windows of two series never overlap,  *)
(* a series the leader sold out of is closed for good, a buy is counted    *)
(* once, and no order exceeds its series' budget, the cash, the reserve or *)
(* the exposure limit.                                                     *)
(***************************************************************************)
EXTENDS SizingSeries, Sums_proof

(* Closing is not inductive by itself: a series is opened only while no    *)
(* later sell is recorded, joining one keeps it open or closed, and a sell *)
(* is recorded by the very step that closes what began before it.          *)
Columns == {"seconds", "spent", "closed"}

KeyTypes ==
    /\ seconds \in Nat \ {0}
    /\ DOMAIN series \subseteq Nat
    /\ \A k \in DOMAIN series :
          series[k].seconds \in Nat \ {0} /\ Columns \subseteq DOMAIN series[k]

SoldIsClosed == \A k \in DOMAIN series : SoldSince(k) => series[k].closed

SeriesInv == KeyTypes /\ OneBudgetPerMoment /\ SoldIsClosed

LEMMA InitSeries == Init => SeriesInv
<1>. SUFFICES ASSUME Init PROVE SeriesInv
  OBVIOUS
<1>1. DOMAIN series = {}
  BY DEF Init
<1>2. seconds \in Nat \ {0}
  BY ChoiceAssumption DEF Init
<1>. QED
  BY <1>1, <1>2 DEF SeriesInv, KeyTypes, OneBudgetPerMoment, SoldIsClosed

-----------------------------------------------------------------------------
(* A step that keeps every key, its window and what is closed, and records *)
(* no sell, keeps the invariant.                                           *)
SameSells == Sells \cap Recorded' \subseteq Sells \cap Recorded

KeepsKeys ==
    /\ DOMAIN series' = DOMAIN series
    /\ \A k \in DOMAIN series :
          /\ series'[k].seconds = series[k].seconds
          /\ DOMAIN series'[k] = DOMAIN series[k]
          /\ series[k].closed => series'[k].closed

LEMMA KeptSeries ==
    ASSUME SeriesInv, KeepsKeys, SameSells, seconds' \in Nat \ {0}
    PROVE  SeriesInv'
<1>1. KeyTypes'
  BY DEF SeriesInv, KeyTypes, KeepsKeys
<1>2. OneBudgetPerMoment'
  BY DEF SeriesInv, OneBudgetPerMoment, KeepsKeys
<1>3. SoldIsClosed'
  BY DEF SeriesInv, SoldIsClosed, KeepsKeys, SameSells, SoldSince, Ts
<1>. QED
  BY <1>1, <1>2, <1>3 DEF SeriesInv

(* Marking a buy records no sell.                                          *)
LEMMA MarkBuy ==
    ASSUME NEW e \in Events, e \in Buys \/ status[e] # "none", NEW s, Mark(e, s)
    PROVE  SameSells
BY DEF Mark, SameSells, Recorded, Buys, Sells

-----------------------------------------------------------------------------
(* What a series is after a sized entry: the row of its key with another   *)
(* size or another sum spent.                                              *)
LEMMA JoinedRow ==
    ASSUME NEW e \in Events, NEW k
    PROVE  /\ k \in DOMAIN series => /\ Joined(e, k).seconds = series[k].seconds
                                     /\ Joined(e, k).closed = series[k].closed
                                     /\ Joined(e, k).spent = series[k].spent
                                     /\ DOMAIN Joined(e, k) = DOMAIN series[k]
           /\ k \notin DOMAIN series => /\ Joined(e, k).seconds = seconds
                                        /\ Columns \subseteq DOMAIN Joined(e, k)
<1>1. Opened(e).seconds = seconds /\ Columns \subseteq DOMAIN Opened(e)
  BY DEF Opened, Columns
<1>. QED
  BY <1>1 DEF Joined

SameTerms(row, base) ==
    /\ row.seconds = base.seconds /\ row.closed = base.closed
    /\ DOMAIN row = DOMAIN base

LEMMA WindowStart ==
    ASSUME KeyTypes, NEW e \in Events
    PROVE  StartOf(e) \in Nat /\ Bucket(Ts(e)) \in Nat
<1>1. Ts(e) \in Nat /\ seconds \in Nat \ {0}
  BY SourceAssumption DEF KeyTypes, Ts
<1>2. \A a, b \in Nat : a * b \in Nat
  OBVIOUS
<1>3. Ts(e) \div seconds \in Nat
  BY <1>1
<1>4. Bucket(Ts(e)) \in Nat
  BY <1>1, <1>2, <1>3 DEF Bucket
<1>. QED
  BY <1>1, <1>4 DEF StartOf

LEMMA PutSeries ==
    ASSUME SeriesInv, NEW e \in Events, NEW row, NEW k \in Nat,
           k \in DOMAIN series \/ Joinable(k),
           SameTerms(row, Joined(e, k)),
           Put(k, row), SameSells, UNCHANGED seconds
    PROVE  SeriesInv'
<1>1. seconds' \in Nat \ {0}
  BY DEF SeriesInv, KeyTypes
<1>2. CASE k \in DOMAIN series
  <2>1. KeepsKeys
    BY <1>2, JoinedRow DEF Put, KeepsKeys, SameTerms
  <2>. QED
    BY <1>1, <2>1, KeptSeries
<1>3. CASE k \notin DOMAIN series
  <2>1. ~Taken(k) /\ ~Barred(k) /\ row.seconds = seconds /\ Columns \subseteq DOMAIN row
    BY <1>3, JoinedRow DEF Joinable, SameTerms
  <2>2. /\ DOMAIN series' = DOMAIN series \cup {k}
        /\ series'[k] = row
        /\ \A j \in DOMAIN series : series'[j] = series[j]
    BY <1>3 DEF Put
  <2>3. KeyTypes'
    BY <1>1, <2>1, <2>2 DEF SeriesInv, KeyTypes
  <2>4. OneBudgetPerMoment'
    <3>. SUFFICES ASSUME NEW i \in DOMAIN series', NEW j \in DOMAIN series', i < j
                  PROVE  i + series'[i].seconds <= j
      BY DEF OneBudgetPerMoment
    <3>1. CASE i \in DOMAIN series /\ j \in DOMAIN series
      BY <2>2, <3>1 DEF SeriesInv, OneBudgetPerMoment
    <3>2. \A m \in DOMAIN series : /\ m \in Nat /\ series[m].seconds \in Nat \ {0}
                                   /\ ~(m < k + seconds /\ m + series[m].seconds > k)
      BY <2>1 DEF Taken, SeriesInv, KeyTypes
    <3>3. CASE i \in DOMAIN series /\ j = k
      BY <1>1, <2>2, <3>2, <3>3 DEF SeriesInv, KeyTypes
    <3>4. CASE i = k /\ j \in DOMAIN series
      BY <1>1, <2>1, <2>2, <3>2, <3>4 DEF SeriesInv, KeyTypes
    <3>. QED
      BY <2>2, <3>1, <3>3, <3>4
  <2>5. SoldIsClosed'
    <3>1. \A j : SoldSince(j)' => SoldSince(j)
      BY DEF SameSells, SoldSince, Ts
    <3>2. ~SoldSince(k)
      BY <2>1 DEF Barred, SoldSince
    <3>. QED
      BY <2>2, <3>1, <3>2 DEF SeriesInv, SoldIsClosed
  <2>. QED
    BY <2>3, <2>4, <2>5 DEF SeriesInv
<1>. QED
  BY <1>2, <1>3

-----------------------------------------------------------------------------
(* The actions.                                                            *)

LEMMA SpendStep ==
    ASSUME NEW e, NEW k, NEW row, NEW book, Spend(e, k, row, book)
    PROVE  /\ ~row.closed
           /\ Mark(e, "executed")
           /\ \E paid : Put(k, [row EXCEPT !.spent = @ + paid])
BY DEF Spend, Book, Orderable

LEMMA SizeKeeps ==
    ASSUME SeriesInv, NEW e \in Events, SizeBuy(e)
    PROVE  SeriesInv'
<1> DEFINE k == StartOf(e)
<1>1. k \in Nat /\ Joinable(k) /\ e \in Buys /\ UNCHANGED seconds
  BY WindowStart DEF SizeBuy, New, settings, SeriesInv
<1>2. PICK row, s : Put(k, row) /\ Mark(e, s) /\ SameTerms(row, Joined(e, k))
  <2>1. CASE \E book \in Books : Spend(e, k, Joined(e, k), book)
    <3>1. PICK paid : /\ Mark(e, "executed")
                      /\ Put(k, [Joined(e, k) EXCEPT !.spent = @ + paid])
      BY <2>1, SpendStep
    <3>2. SameTerms([Joined(e, k) EXCEPT !.spent = @ + paid], Joined(e, k))
      BY DEF SameTerms
    <3>. QED
      BY <3>1, <3>2
  <2>2. CASE Put(k, Joined(e, k)) /\ \E s : Mark(e, s)
    BY <2>2 DEF SameTerms
  <2>. QED
    BY <2>1, <2>2 DEF SizeBuy, Decline
<1>3. SameSells
  BY <1>1, <1>2, MarkBuy
<1>. QED
  BY <1>1, <1>2, <1>3, PutSeries

LEMMA RetryKeeps ==
    ASSUME SeriesInv, NEW e \in Events, RetrySeries(e)
    PROVE  SeriesInv'
<1> DEFINE k == Bucket(Ts(e))
<1>1. k \in DOMAIN series /\ status[e] # "none" /\ seconds' = seconds
  BY DEF RetrySeries, Waiting, settings
<1>2. KeepsKeys /\ \E s : Mark(e, s)
  <2>1. CASE \E book \in Books : Spend(e, k, series[k], book)
    <3>1. PICK paid : /\ Mark(e, "executed")
                      /\ Put(k, [series[k] EXCEPT !.spent = @ + paid])
      BY <2>1, SpendStep
    <3>. QED
      BY <1>1, <3>1 DEF Put, KeepsKeys
  <2>2. CASE UNCHANGED series /\ \E s : Mark(e, s)
    BY <2>2 DEF KeepsKeys
  <2>. QED
    BY <2>1, <2>2 DEF RetrySeries, RowForRetry, Decline
<1>3. SameSells
  BY <1>1, <1>2, MarkBuy
<1>. QED
  BY <1>1, <1>2, <1>3, KeptSeries DEF SeriesInv, KeyTypes

LEMMA SellKeeps ==
    ASSUME SeriesInv, NEW e \in Events, Sell(e)
    PROVE  SeriesInv'
<1> DEFINE shut(k) == [series[k] EXCEPT !.closed = TRUE]
<1>1. /\ seconds' = seconds
      /\ DOMAIN series' = DOMAIN series
      /\ \A k \in DOMAIN series : series'[k] = IF k <= Ts(e) THEN shut(k) ELSE series[k]
  BY DEF Sell, settings, ClosedUpTo
<1>2. \A k \in DOMAIN series : /\ DOMAIN shut(k) = DOMAIN series[k]
                               /\ shut(k).seconds = series[k].seconds
                               /\ shut(k).closed
  BY DEF SeriesInv, KeyTypes, Columns
<1> HIDE DEF shut
<1>3. \A k \in DOMAIN series :
         /\ DOMAIN series'[k] = DOMAIN series[k]
         /\ series'[k].seconds = series[k].seconds
         /\ k <= Ts(e) => series'[k].closed
         /\ series[k].closed => series'[k].closed
  BY <1>1, <1>2
<1>4. KeyTypes'
  BY <1>1, <1>3 DEF SeriesInv, KeyTypes
<1>5. OneBudgetPerMoment'
  BY <1>1, <1>3 DEF SeriesInv, OneBudgetPerMoment
<1>6. SoldIsClosed'
  <2>. SUFFICES ASSUME NEW k \in DOMAIN series, SoldSince(k)'
                PROVE  series'[k].closed
    BY <1>1 DEF SoldIsClosed
  <2>1. PICK f \in Sells : f \in Recorded' /\ Ts(f) >= k
    BY DEF SoldSince, Sells, Ts
  <2>2. CASE f = e
    <3>1. k \in Nat /\ Ts(e) \in Nat
      BY SourceAssumption DEF SeriesInv, KeyTypes, Ts
    <3>. QED
      BY <1>3, <2>1, <2>2, <3>1
  <2>3. CASE f # e
    <3>1. f \in Recorded
      BY <2>1, <2>3 DEF Sell, Recorded
    <3>2. SoldSince(k)
      BY <2>1, <3>1 DEF SoldSince
    <3>. QED
      BY <1>3, <3>2 DEF SeriesInv, SoldIsClosed
  <2>. QED
    BY <2>2, <2>3
<1>. QED
  BY <1>4, <1>5, <1>6 DEF SeriesInv

LEMMA CloseOutKeeps ==
    ASSUME SeriesInv, CloseOut
    PROVE  SeriesInv'
<1> DEFINE shut(k) == [series[k] EXCEPT !.closed = TRUE]
<1>1. /\ seconds' = seconds
      /\ DOMAIN series' = DOMAIN series
      /\ \A k \in DOMAIN series : series'[k] = shut(k)
  BY DEF CloseOut, settings
<1>2. \A k \in DOMAIN series : /\ DOMAIN shut(k) = DOMAIN series[k]
                               /\ shut(k).seconds = series[k].seconds
                               /\ shut(k).closed
  BY DEF SeriesInv, KeyTypes, Columns
<1> HIDE DEF shut
<1>3. KeepsKeys
  BY <1>1, <1>2 DEF KeepsKeys
<1>4. SameSells
  BY DEF CloseOut, Waiting, SameSells, Recorded
<1>. QED
  BY <1>1, <1>3, <1>4, KeptSeries DEF SeriesInv, KeyTypes

(* Whatever touches neither the series nor a sell.                         *)
LEMMA OtherKeeps ==
    ASSUME SeriesInv, UNCHANGED series, SameSells, seconds' \in Nat \ {0}
    PROVE  SeriesInv'
<1>1. KeepsKeys
  BY DEF KeepsKeys
<1>. QED
  BY <1>1, KeptSeries

LEMMA NextKeepsSeries ==
    ASSUME SeriesInv, [Next]_vars
    PROVE  SeriesInv'
<1>0. seconds \in Nat \ {0}
  BY DEF SeriesInv, KeyTypes
<1>1. CASE UNCHANGED vars
  <2>1. UNCHANGED <<series, seconds>> /\ SameSells
    BY <1>1 DEF vars, settings, SameSells, Recorded
  <2>. QED
    BY <1>0, <2>1, OtherKeeps
<1>2. ASSUME NEW e \in Events, SizeBuy(e) PROVE SeriesInv'
  BY <1>2, SizeKeeps
<1>3. ASSUME NEW e \in Events, RetrySeries(e) PROVE SeriesInv'
  BY <1>3, RetryKeeps
<1>4. ASSUME NEW e \in Events, Sell(e) PROVE SeriesInv'
  BY <1>4, SellKeeps
<1>5. CASE CloseOut
  BY <1>5, CloseOutKeeps
<1>6. ASSUME NEW e \in Events,
             RefuseBuy(e) \/ DelayBuy(e) \/ ClassicBuy(e) \/ RetryLost(e) \/ RetryClassic(e)
      PROVE  SeriesInv'
  <2>1. UNCHANGED <<series, seconds>>
    BY <1>6 DEF RefuseBuy, DelayBuy, ClassicBuy, RetryLost, RetryClassic, settings
  <2>2. (e \in Buys \/ status[e] # "none") /\ \E s : Mark(e, s)
    BY <1>6 DEF RefuseBuy, DelayBuy, ClassicBuy, RetryLost, RetryClassic, New, Waiting,
       ClassicOrder, Book
  <2>3. SameSells
    BY <2>2, MarkBuy
  <2>. QED
    BY <1>0, <2>1, <2>3, OtherKeeps
<1>7. CASE \/ \E m \in MaxSizes : SetMax(m)
           \/ \E m \in Modes : SetMode(m)
           \/ \E n \in Seconds : SetSeconds(n)
  <2>1. UNCHANGED series /\ SameSells
    BY <1>7 DEF SetMax, SetMode, SetSeconds, Change, SameSells, Recorded
  <2>2. seconds' \in Nat \ {0}
    BY <1>0, <1>7, ChoiceAssumption DEF SetMax, SetMode, SetSeconds, Change
  <2>. QED
    BY <2>1, <2>2, OtherKeeps
<1>. QED
  BY <1>1, <1>2, <1>3, <1>4, <1>5, <1>6, <1>7 DEF Next

THEOREM SeriesInvariant == Spec => []SeriesInv
<1>1. Init => SeriesInv
  BY InitSeries
<1>2. SeriesInv /\ [Next]_vars => SeriesInv'
  BY NextKeepsSeries
<1>. QED
  BY <1>1, <1>2, PTL DEF Spec

(* No moment of the leader's time is budgeted twice (_get_sizing_entry),   *)
(* whatever windows were configured and however sells and late buys arrive *)
(* around them.                                                            *)
THEOREM OneBudgetPerMomentHolds == Spec => []OneBudgetPerMoment
<1>1. SeriesInv => OneBudgetPerMoment
  BY DEF SeriesInv
<1>. QED
  BY <1>1, SeriesInvariant, PTL

-----------------------------------------------------------------------------
(* A closed series keeps what it spent: an order is made for an open row   *)
(* only, and every other step writes back the sum it read.                 *)
SpendsNothing ==
    \A k \in DOMAIN series :
        SoldSince(k) \/ series[k].closed => series'[k].spent = series[k].spent

LEMMA SizeSpends ==
    ASSUME NEW e \in Events, SizeBuy(e), NEW j \in DOMAIN series, series[j].closed
    PROVE  series'[j].spent = series[j].spent
<1> DEFINE k == StartOf(e)
<1>1. Joinable(k) /\ \E row : Put(k, row)
  BY DEF SizeBuy, Spend
<1>2. j # k
  BY <1>1 DEF Joinable
<1>. QED
  BY <1>1, <1>2 DEF Put

LEMMA RetrySpends ==
    ASSUME NEW e \in Events, RetrySeries(e), NEW j \in DOMAIN series, series[j].closed
    PROVE  series'[j].spent = series[j].spent
<1> DEFINE k == Bucket(Ts(e))
<1>1. CASE UNCHANGED series
  BY <1>1
<1>2. CASE \E book \in Books : Spend(e, k, series[k], book)
  <2>1. ~series[k].closed /\ \E row : Put(k, row)
    BY <1>2, SpendStep
  <2>2. j # k
    BY <2>1
  <2>. QED
    BY <2>1, <2>2 DEF Put
<1>. QED
  BY <1>1, <1>2 DEF RetrySeries, RowForRetry

LEMMA NextSpends ==
    ASSUME SeriesInv, [Next]_vars
    PROVE  SpendsNothing
<1>. SUFFICES ASSUME NEW j \in DOMAIN series, series[j].closed
              PROVE  series'[j].spent = series[j].spent
  BY DEF SpendsNothing, SeriesInv, SoldIsClosed
<1>1. CASE UNCHANGED series
  BY <1>1
<1>2. ASSUME NEW e \in Events, SizeBuy(e) PROVE series'[j].spent = series[j].spent
  BY <1>2, SizeSpends
<1>3. ASSUME NEW e \in Events, RetrySeries(e) PROVE series'[j].spent = series[j].spent
  BY <1>3, RetrySpends
<1>4. CASE CloseOut \/ \E e \in Events : Sell(e)
  <2> DEFINE shut == [series[j] EXCEPT !.closed = TRUE]
  <2>1. series'[j] = series[j] \/ series'[j] = shut
    BY <1>4 DEF CloseOut, Sell, ClosedUpTo
  <2>2. shut.spent = series[j].spent
    BY DEF SeriesInv, KeyTypes, Columns
  <2>. QED
    BY <2>1, <2>2
<1>. QED
  BY <1>1, <1>2, <1>3, <1>4 DEF Next, vars, RefuseBuy, DelayBuy, ClassicBuy, RetryLost,
     RetryClassic, SetMax, SetMode, SetSeconds, Change

(* Nothing is spent from a series once the leader has sold at or after its *)
(* start, or the outcome was left (process_event, _retry_buy).             *)
THEOREM SoldSeriesSpendsNothingHolds == Spec => SoldSeriesSpendsNothing
<1>1. SeriesInv /\ [Next]_vars => [SpendsNothing]_vars
  BY NextSpends
<1>. QED
  BY <1>1, SeriesInvariant, PTL DEF Spec, SoldSeriesSpendsNothing, SpendsNothing

-----------------------------------------------------------------------------
(* What the operators of a budget return.                                  *)
LEMMA LeastOf ==
    ASSUME NEW a \in Int, NEW b \in Int
    PROVE  /\ Least(a, b) \in {a, b} /\ Least(a, b) <= a /\ Least(a, b) <= b
           /\ Greatest(a, b) \in {a, b} /\ a <= Greatest(a, b) /\ b <= Greatest(a, b)
BY DEF Least, Greatest

LEMMA PowerType ==
    ASSUME NEW x \in Nat
    PROVE  ToPower(x) \in Nat /\ (x # 0 => ToPower(x) # 0)
<1> DEFINE V == IF x = 0 THEN Nat ELSE Nat \ {0}
           one == 1
           eq(g) == [i \in 0..Power |-> IF i = 0 THEN one ELSE x * g[i - 1]]
           step == [p \in (1..Power) \X V |-> x * p[2]]
           power == CHOOSE g : g = eq(g)
<1>0. Power \in Nat /\ one \in V
  BY SizeAssumption
<1>1. \A v \in V : x * v \in V
  <2>1. \A a, b \in Nat \ {0} : a * b \in Nat \ {0}
    OBVIOUS
  <2>. QED
    BY <2>1
<1>2. step \in [(1..Power) \X V -> V]
  <2> HIDE DEF V
  <2>. QED
    BY <1>1
<1>3. PICK h \in [0..Power -> V] :
          h[0] = one /\ \A i \in 1..Power : h[i] = step[<<i, h[i - 1]>>]
  <2>1. Power \in Nat
    BY <1>0
  <2>2. one \in V
    BY <1>0
  <2> HIDE DEF V, step, one
  <2>3. Runs(Power, V, one, step) # {}
    BY <2>1, <2>2, <1>2, StepsExist
  <2>. QED
    BY <2>3 DEF Runs
<1>4. h = eq(h)
  <2> HIDE DEF V
  <2>1. \A i \in 1..Power : h[i] = x * h[i - 1]
    <3>. SUFFICES ASSUME NEW i \in 1..Power PROVE h[i] = x * h[i - 1]
      OBVIOUS
    <3>1. i - 1 \in 0..Power /\ <<i, h[i - 1]>> \in (1..Power) \X V
      BY <1>0, <1>3
    <3>. QED
      BY <1>3, <3>1
  <2>. QED
    BY <1>0, <1>3, <2>1
<1>5. power = eq(power)
  BY <1>4
<1>6. power[0] = 1 /\ \A i \in 1..Power : power[i] = x * power[i - 1]
  <2> HIDE DEF power
  <2>1. /\ eq(power)[0] = 1
        /\ \A i \in 1..Power : eq(power)[i] = x * power[i - 1]
    BY <1>0
  <2> HIDE DEF eq
  <2>. QED
    BY <1>5, <2>1
<1>7. \A i \in 0..Power : power[i] \in V
  <2>1. \A i \in 1..Power : power[i - 1] \in V => power[i] \in V
    <3> HIDE DEF V, power
    <3>. QED
      BY <1>1, <1>6
  <2>2. power[0] \in V
    <3>1. power[0] = one
      BY <1>6
    <3> HIDE DEF V, power, one
    <3>. QED
      BY <1>0, <3>1
  <2> HIDE DEF V, power
  <2>. QED
    BY <1>0, <2>1, <2>2, StepsStay
<1>8. ToPower(x) = power[Power]
  BY DEF ToPower
<1>9. Power \in 0..Power
  BY <1>0
<1>. QED
  BY <1>7, <1>8, <1>9

-----------------------------------------------------------------------------
(* What the walk through a book spends: for every unit at most the fee of  *)
(* the cheapest ask is added.                                              *)
Rate(ask) == FeeNum * (One - ask)
Levels == Seq([price : 1..One, size : Nat])
Walked(budget, ask) ==
    {v \in [left : 0..budget, fee : Nat] : v.fee <= (budget - v.left) * Rate(ask)}
TakeLevel(v, level) ==
    LET spend == Least(v.left, level.price * level.size)
    IN  [left |-> v.left - spend, fee |-> v.fee + spend * FeeNum * (One - level.price)]

LEMMA TakeLevelStays ==
    ASSUME NEW budget \in Nat, NEW ask \in 1..One, NEW level \in [price : 1..One, size : Nat],
           ask <= level.price, NEW v \in Walked(budget, ask)
    PROVE  TakeLevel(v, level) \in Walked(budget, ask)
<1> DEFINE spend == Least(v.left, level.price * level.size)
           own == FeeNum * (One - level.price)
<1>0. One \in Nat /\ FeeNum \in Nat
  BY PriceAssumption, FeeAssumption
<1>1. level.price \in Nat /\ level.size \in Nat /\ level.price <= One
  BY <1>0
<1>2. level.price * level.size \in Nat
  BY <1>1, Products
<1>3. v.left \in Nat /\ v.left <= budget /\ v.fee \in Nat
      /\ v.fee <= (budget - v.left) * Rate(ask)
  BY DEF Walked
<1>4. spend \in Nat /\ spend <= v.left
  BY <1>2, <1>3 DEF Least
<1>5. own \in Nat /\ Rate(ask) \in Nat /\ own <= Rate(ask)
  <2>1. One - level.price \in Nat /\ One - ask \in Nat /\ One - level.price <= One - ask
    BY <1>0, <1>1
  <2>. QED
    BY <1>0, <2>1, Products, Larger DEF Rate
<1>6. spend * FeeNum * (One - level.price) = spend * own
  BY <1>0, <1>1, <1>4
<1> HIDE DEF own, spend
<1>7. spend * own \in Nat /\ spend * own <= spend * Rate(ask) /\ spend * Rate(ask) \in Nat
  BY <1>4, <1>5, Products, Larger
<1>8. (budget - v.left) * Rate(ask) + spend * Rate(ask)
        = (budget - (v.left - spend)) * Rate(ask)
  BY <1>3, <1>4, <1>5
<1>9. (budget - v.left) * Rate(ask) \in Nat
  BY <1>3, <1>5, Products
<1>10. v.fee + spend * own <= (budget - (v.left - spend)) * Rate(ask)
  BY <1>3, <1>7, <1>8, <1>9
<1>11. v.left - spend \in 0..budget /\ v.fee + spend * own \in Nat
  BY <1>3, <1>4, <1>7
<1>12. TakeLevel(v, level) = [left |-> v.left - spend, fee |-> v.fee + spend * own]
  BY <1>6 DEF TakeLevel, spend
<1>. QED
  BY <1>10, <1>11, <1>12 DEF Walked
LEMMA WalkBound ==
    ASSUME NEW levels \in Levels, NEW budget \in Nat, NEW ask \in 1..One,
           \A i \in DOMAIN levels : ask <= levels[i].price
    PROVE  \E v \in Walked(budget, ask) :
              Walk(levels, budget) = [notional |-> budget - v.left, fee |-> v.fee \div Net]
<1> DEFINE n == Len(levels)
           V == Walked(budget, ask)
           first == [left |-> budget, fee |-> 0]
           eq(g) == [i \in 0..n |-> IF i = 0 THEN first ELSE TakeLevel(g[i - 1], levels[i])]
           step == [p \in (1..n) \X V |-> TakeLevel(p[2], levels[p[1]])]
           taken == CHOOSE g : g = eq(g)
<1>0. n \in Nat /\ \A i \in 1..n : /\ levels[i] \in [price : 1..One, size : Nat]
                                   /\ ask <= levels[i].price
  <2> DEFINE L == [price : 1..One, size : Nat]
  <2>1. levels \in Seq(L)
    BY DEF Levels
  <2> HIDE DEF L
  <2>2. n \in Nat /\ DOMAIN levels = 1..n /\ \A i \in 1..n : levels[i] \in L
    BY <2>1
  <2>. QED
    BY <2>2 DEF L
<1>1. first \in V
  <2>1. Rate(ask) \in Nat /\ (budget - budget) * Rate(ask) = 0
    BY PriceAssumption, FeeAssumption, Products DEF Rate
  <2>. QED
    BY <2>1 DEF Walked
<1> HIDE DEF first, V, n
<1>2. \A i \in 1..n, v \in V : TakeLevel(v, levels[i]) \in V
  BY <1>0, TakeLevelStays DEF V
<1>3. step \in [(1..n) \X V -> V]
  BY <1>2
<1>4. PICK h \in Runs(n, V, first, step) : TRUE
  <2> HIDE DEF step
  <2>. QED
    BY <1>0, <1>1, <1>3, StepsExist
<1>5. h = eq(h)
  <2>1. \A i \in 1..n : h[i] = TakeLevel(h[i - 1], levels[i])
    <3>. SUFFICES ASSUME NEW i \in 1..n PROVE h[i] = TakeLevel(h[i - 1], levels[i])
      OBVIOUS
    <3>1. h \in [0..n -> V] /\ i - 1 \in 0..n
      BY <1>0, <1>4 DEF Runs
    <3>2. <<i, h[i - 1]>> \in (1..n) \X V
      BY <3>1
    <3>3. step[<<i, h[i - 1]>>] = TakeLevel(h[i - 1], levels[i])
      BY <3>2
    <3> HIDE DEF step
    <3>. QED
      BY <1>4, <3>3 DEF Runs
  <2>2. h \in [0..n -> V] /\ h[0] = first
    BY <1>4 DEF Runs
  <2>3. eq(h) = [i \in 0..n |-> h[i]]
    BY <1>0, <2>1, <2>2
  <2>. QED
    BY <2>2, <2>3
<1>6. taken = eq(taken)
  BY <1>5
<1>7. taken[0] = first /\ \A i \in 1..n : taken[i] = TakeLevel(taken[i - 1], levels[i])
  <2>1. /\ eq(taken)[0] = first
        /\ \A i \in 1..n : eq(taken)[i] = TakeLevel(taken[i - 1], levels[i])
    <3> HIDE DEF taken
    <3>. QED
      BY <1>0
  <2> HIDE DEF taken, eq
  <2>. QED
    BY <1>6, <2>1
<1>8. taken[n] \in V
  <2> HIDE DEF taken
  <2>1. \A i \in 1..n : taken[i - 1] \in V => taken[i] \in V
    BY <1>2, <1>7
  <2>2. \A i \in 0..n : taken[i] \in V
    BY <1>0, <1>1, <1>7, <2>1, StepsStay
  <2>. QED
    BY <1>0, <2>2
<1>9. Walk(levels, budget) =
          [notional |-> budget - taken[n].left, fee |-> taken[n].fee \div Net]
  BY DEF Walk, TakeLevel, first, n
<1>. QED
  BY <1>8, <1>9 DEF V

(* What may be paid X in all covers the cost of a budget that was computed *)
(* from X, with the fee of the best ask set aside.                         *)
LEMMA CostBound ==
    ASSUME NEW levels \in Levels, NEW budget \in Nat, NEW ask \in 1..One, NEW X \in Nat,
           \A i \in DOMAIN levels : ask <= levels[i].price,
           budget * Gross(ask) <= X * Net
    PROVE  Cost(levels, budget) \in Nat /\ Cost(levels, budget) <= X
<1>1. PICK v \in Walked(budget, ask) :
          Walk(levels, budget) = [notional |-> budget - v.left, fee |-> v.fee \div Net]
  BY WalkBound
<1> DEFINE paid == budget - v.left
           fee == v.fee \div Net
<1>2. Net \in Nat \ {0} /\ Rate(ask) \in Nat /\ Gross(ask) = Net + Rate(ask)
  <2>1. \A a, b \in Nat \ {0} : a * b \in Nat \ {0}
    OBVIOUS
  <2>2. One - ask \in Nat
    BY PriceAssumption
  <2>. QED
    BY <2>1, <2>2, PriceAssumption, FeeAssumption, Products DEF Net, Rate, Gross
<1>3. v.left \in 0..budget /\ v.fee \in Nat /\ v.fee <= paid * Rate(ask)
  BY DEF Walked
<1>4. paid \in Nat /\ paid <= budget
  BY <1>3
<1>5. fee \in Nat /\ fee * Net <= v.fee
  BY <1>2, <1>3, RoundedDown
<1>6. Cost(levels, budget) = paid + fee
  BY <1>1 DEF Cost
<1> HIDE DEF paid, fee
<1>7. (paid + fee) * Net = paid * Net + fee * Net
  BY <1>2, <1>4, <1>5
<1>8. paid * Gross(ask) = paid * Net + paid * Rate(ask)
  BY <1>2, <1>4
<1>9. Gross(ask) \in Nat
  BY <1>2
<1>10. paid * Gross(ask) <= budget * Gross(ask)
  BY <1>4, <1>9, Larger
<1>11. /\ paid * Gross(ask) \in Nat /\ budget * Gross(ask) \in Nat /\ X * Net \in Nat
       /\ paid * Net \in Nat /\ fee * Net \in Nat /\ paid * Rate(ask) \in Nat
       /\ (paid + fee) * Net \in Nat
  BY <1>2, <1>4, <1>5, <1>9, Products
<1>12. (paid + fee) * Net <= X * Net
  BY <1>3, <1>5, <1>7, <1>8, <1>10, <1>11
<1>13. Net * (paid + fee) <= Net * X
  BY <1>2, <1>4, <1>5, <1>12
<1>14. paid + fee \in Nat
  BY <1>4, <1>5
<1>. QED
  BY <1>2, <1>6, <1>13, <1>14, Cancels
LEMMA WithinLevels ==
    ASSUME NEW s, NEW price, NEW book \in Books, Ask(book) # 0
    PROVE  /\ Ask(book) \in 1..One
           /\ Within(s, price, book) \in Levels
           /\ \A i \in DOMAIN Within(s, price, book) :
                 Ask(book) <= Within(s, price, book)[i].price
<1> DEFINE L == [price : 1..One, size : Nat]
           n == Len(book)
           w == Within(s, price, book)
<1>1. book \in Seq(L) /\ \A i, j \in DOMAIN book : i <= j => book[i].price <= book[j].price
  BY ChoiceAssumption
<1> HIDE DEF L
<1>2. n \in Nat /\ DOMAIN book = 1..n /\ \A i \in 1..n : book[i] \in L
  BY <1>1
<1>3. book # <<>> /\ Ask(book) = book[1].price
  BY DEF Ask
<1>4. 1 \in 1..n
  BY <1>1, <1>2, <1>3
<1>5. Ask(book) \in 1..One
  BY <1>2, <1>3, <1>4 DEF L
<1>6. \A i \in 1..n : /\ w[i] = book[i] \/ w[i] = [book[i] EXCEPT !.size = 0]
                      /\ w[i] \in L /\ w[i].price = book[i].price
  BY <1>2 DEF Within, L
<1>7. w = [i \in 1..n |-> w[i]]
  BY <1>2 DEF Within
<1> HIDE DEF w, n
<1>8. w \in Seq(L) /\ DOMAIN w = 1..n
  <2>1. w \in [1..n -> L]
    BY <1>6, <1>7
  <2>. QED
    BY <1>2, <2>1
<1>9. \A i \in 1..n : Ask(book) <= w[i].price
  <2>1. TAKE i \in 1..n
  <2>2. 1 \in DOMAIN book /\ i \in DOMAIN book /\ 1 <= i
    BY <1>2, <1>4
  <2>3. book[1].price <= book[i].price
    BY <1>1, <2>2
  <2>4. w[i].price = book[i].price
    BY <1>6
  <2>. QED
    BY <1>3, <2>3, <2>4
<1>. QED
  BY <1>5, <1>8, <1>9 DEF Levels, w, L

-----------------------------------------------------------------------------
(* The target of a series is within the maximum frozen with it, and in the *)
(* percent mode within that share of the leader's notional.                *)
LEMMA GrossType ==
    ASSUME NEW ask \in 1..One
    PROVE  Gross(ask) \in Nat \ {0} /\ Net \in Nat \ {0}
<1>1. \A a, b \in Nat \ {0} : a * b \in Nat \ {0}
  OBVIOUS
<1>2. One - ask \in Nat
  BY PriceAssumption
<1>. QED
  BY <1>1, <1>2, PriceAssumption, FeeAssumption, Products DEF Net, Gross

LEMMA MinimumType ==
    ASSUME NEW s \in Row, NEW ask \in 1..One
    PROVE  MinimumAllIn(s, ask) \in Int
<1> DEFINE wanted == Greatest(MinNotional, MinShares * ask)
           whole == wanted * Gross(ask) + Net - 1
<1>1. wanted \in Int
  BY SizeAssumption, Products, LeastOf, PriceAssumption
<1> HIDE DEF wanted
<1>2. whole \in Int /\ Net \in Nat \ {0}
  BY <1>1, GrossType, Products
<1> HIDE DEF whole
<1>3. whole \div Net \in Int
  BY <1>2, Quotients
<1>4. s.base * FloorMultiple \in Int
  BY SizeAssumption, Products DEF Row
<1>. QED
  BY <1>3, <1>4, LeastOf DEF MinimumAllIn, wanted, whole

LEMMA OddsType ==
    ASSUME NEW s \in Row
    PROVE  Odds(s) \in Int
<1> DEFINE average == (80 * s.notional) \div (s.shares * One)
           raw == Least(140, Greatest(60, 60 + average))
<1>1. s.shares * One \in Nat \ {0}
  <2>1. \A a, b \in Nat \ {0} : a * b \in Nat \ {0}
    OBVIOUS
  <2>. QED
    BY <2>1, PriceAssumption DEF Row
<1>2. 80 * s.notional \in Int
  BY DEF Row
<1>3. average \in Int
  BY <1>1, <1>2, Quotients
<1> HIDE DEF average
<1>4. raw \in Int
  BY <1>3, LeastOf
<1> HIDE DEF raw
<1>5. (raw - 100) * OddsWeight \in Int
  BY <1>4, SizeAssumption, Products
<1>6. ((raw - 100) * OddsWeight) \div 100 \in Int
  BY <1>5, Quotients
<1>. QED
  BY <1>6 DEF Odds, raw, average

LEMMA RawTargetType ==
    ASSUME NEW s \in Row, NEW ask \in 1..One
    PROVE  RawTarget(s, ask) \in Int
<1> DEFINE sized == Conviction(s)
           shared == (sized * s.notional) \div (s.shares * ask)
           priced == IF ask = 0 THEN 0 ELSE Least(sized, shared)
<1>1. \A a, b \in Nat \ {0} : a * b \in Nat \ {0}
  OBVIOUS
<1>2. /\ s.base \in Nat /\ s.multiplier \in Nat /\ s.notional \in Nat
      /\ s.reference \in Nat \ {0} /\ s.shares \in Nat \ {0} /\ ask \in Nat \ {0}
  BY PriceAssumption DEF Row
<1>3. ToPower(s.notional) \in Nat /\ ToPower(s.reference) \in Nat \ {0}
  BY <1>2, PowerType
<1>4. s.base * ToPower(s.notional) \in Nat /\ s.base * s.multiplier \in Nat
  BY <1>2, <1>3, Products
<1>5. (s.base * ToPower(s.notional)) \div ToPower(s.reference) \in Int
  BY <1>3, <1>4, Quotients
<1>6. sized \in Int
  BY <1>4, <1>5, LeastOf DEF Conviction
<1> HIDE DEF sized
<1>7. sized * s.notional \in Int /\ s.shares * ask \in Nat \ {0}
  BY <1>1, <1>2, <1>6, Products
<1>8. shared \in Int
  BY <1>7, Quotients
<1> HIDE DEF shared
<1>9. priced \in Int
  BY <1>6, <1>8, LeastOf
<1> HIDE DEF priced
<1>10. priced * Odds(s) \in Int
  BY <1>9, OddsType, Products
<1>11. (priced * Odds(s)) \div 100 \in Int
  BY <1>10, Quotients
<1>. QED
  BY <1>11 DEF RawTarget, priced, shared, sized

LEMMA TargetBound ==
    ASSUME NEW s \in Row, NEW ask \in 1..One, NEW top \in Nat
    PROVE  /\ Target(s, ask, top) \in Int
           /\ Target(s, ask, top) <= s.max
           /\ s.percent # 0 => 100 * Target(s, ask, top) <= s.percent * s.notional
<1> DEFINE share == (s.notional * s.percent) \div 100
           wish == Greatest(RawTarget(s, ask), MinimumAllIn(s, ask))
<1>1. s.max \in Nat /\ s.percent \in Nat /\ s.notional \in Nat
  BY DEF Row
<1>2. Cap(s, top) \in Int /\ Cap(s, top) <= s.max
  BY <1>1, LeastOf DEF Cap
<1>3. s.notional * s.percent \in Nat /\ s.percent * s.notional = s.notional * s.percent
  BY <1>1, Products
<1>4. share \in Nat /\ share * 100 <= s.percent * s.notional
  BY <1>3, RoundedDown
<1>5. wish \in Int
  BY RawTargetType, MinimumType, LeastOf
<1> HIDE DEF share, wish
<1>6. /\ Least(Cap(s, top), share) \in Int /\ Least(Cap(s, top), share) <= share
      /\ Least(Cap(s, top), share) <= s.max
      /\ Least(Cap(s, top), wish) \in Int /\ Least(Cap(s, top), wish) <= s.max
  BY <1>1, <1>2, <1>4, <1>5, LeastOf
<1>7. Target(s, ask, top) \in {Least(Cap(s, top), share), Cap(s, top), Least(Cap(s, top), wish)}
      /\ (s.percent # 0 => Target(s, ask, top) = Least(Cap(s, top), share))
  BY DEF Target, share, wish
<1>8. s.percent * s.notional \in Nat
  BY <1>3
<1>9. s.percent # 0 => 100 * Target(s, ask, top) <= s.percent * s.notional
  BY <1>4, <1>6, <1>7, <1>8
<1>. QED
  BY <1>2, <1>6, <1>7, <1>9
-----------------------------------------------------------------------------
(* What an order pays: within the cash in every mode; from a series also   *)
(* within its budget, the reserve and the exposure limit.                  *)
Money == cash \in Nat /\ cost \in Nat /\ max \in Nat

LEMMA DeployableBound ==
    ASSUME Money
    PROVE  /\ Deployable \in Nat /\ Deployable <= cash
           /\ Deployable # 0 =>
                 ReserveDen * Deployable <= ReserveDen * cash - ReserveNum * (cash + cost)
<1> DEFINE whole == ReserveDen * cash - ReserveNum * (cash + cost)
           part == whole \div ReserveDen
<1>1. ReserveDen * cash \in Nat /\ ReserveNum * (cash + cost) \in Nat
  BY MoneyAssumption, Products DEF Money
<1>2. whole \in Int /\ whole <= ReserveDen * cash
  BY <1>1
<1> HIDE DEF whole
<1>3. part \in Int /\ part * ReserveDen <= whole
  BY <1>2, RoundedDown, MoneyAssumption
<1> HIDE DEF part
<1>4. ReserveDen * part = part * ReserveDen
  BY <1>3, MoneyAssumption
<1>5. ReserveDen * part <= whole /\ ReserveDen * part <= ReserveDen * cash
  BY <1>1, <1>2, <1>3, <1>4, MoneyAssumption, Products
<1>6. part <= cash
  BY <1>3, <1>5, MoneyAssumption, Cancels DEF Money
<1>7. Deployable = Greatest(0, part)
  BY DEF Deployable, part, whole
<1>8. Deployable = 0 \/ (part > 0 /\ Deployable = part)
  BY <1>3, <1>7 DEF Greatest
<1>. QED
  BY <1>3, <1>5, <1>6, <1>8 DEF Money, whole

LEMMA RoomBound ==
    ASSUME Money
    PROVE  Room \in Nat /\ (Room # 0 => cost + Room <= MaxExposure)
BY MoneyAssumption DEF Money, Room, Greatest

PaidRight(row, paid) ==
    /\ paid \in Nat /\ paid <= cash
    /\ row.spent + paid <= row.max
    /\ row.percent # 0 => 100 * (row.spent + paid) <= row.percent * row.notional
    /\ cost + paid <= MaxExposure
    /\ ReserveDen * (cash - paid) >= ReserveNum * (cash + cost)

LEMMA SpendPays ==
    ASSUME Money, NEW e, NEW k, NEW row \in Row, NEW book \in Books,
           Spend(e, k, row, book)
    PROVE  \E paid : /\ PaidRight(row, paid)
                     /\ Book(e, k, paid)
                     /\ Put(k, [row EXCEPT !.spent = @ + paid])
<1> DEFINE ask == Ask(book)
           target == Target(row, ask, max)
           left == Remaining(row, ask, max)
           limit == Least(left, Least(Deployable, Room))
           X == Greatest(0, limit)
           budget == OrderBudget(row, ask, max, Deployable, Room)
           levels == Within(row, Source[e].price, book)
           paid == Cost(levels, budget)
<1>1. /\ ask # 0
      /\ left > 0 /\ Room > 0 /\ budget >= Greatest(MinNotional, MinShares * ask)
      /\ Book(e, k, paid) /\ Put(k, [row EXCEPT !.spent = @ + paid])
  BY DEF Spend, Orderable, MarketUnfit
<1>2. /\ ask \in 1..One /\ levels \in Levels
      /\ \A i \in DOMAIN levels : ask <= levels[i].price
  BY <1>1, WithinLevels
<1> HIDE DEF ask, levels
<1>3. Deployable \in Nat /\ Room \in Nat /\ cash \in Nat /\ cost \in Nat /\ max \in Nat
  BY DeployableBound, RoomBound DEF Money
<1>4. /\ target \in Int /\ target <= row.max
      /\ row.percent # 0 => 100 * target <= row.percent * row.notional
  BY <1>2, <1>3, TargetBound
<1>5. row.spent \in Nat /\ row.max \in Nat /\ row.percent \in Nat /\ row.notional \in Nat
  BY DEF Row
<1>6. left = Greatest(0, target - row.spent)
  BY DEF Remaining
<1> HIDE DEF target, left
<1>7. left = target - row.spent
  BY <1>1, <1>4, <1>5, <1>6 DEF Greatest
<1>8. /\ limit \in Int /\ limit <= left /\ limit <= Deployable /\ limit <= Room
      /\ X \in Nat /\ (X = 0 \/ X = limit)
  BY <1>3, <1>4, <1>5, <1>7, LeastOf
<1>9. budget = (X * Net) \div Gross(ask)
  BY DEF OrderBudget, left
<1> HIDE DEF limit, X, budget
<1>10. Gross(ask) \in Nat \ {0} /\ Net \in Nat \ {0} /\ X * Net \in Nat
  BY <1>2, <1>8, GrossType, Products
<1>11. budget \in Nat /\ budget * Gross(ask) <= X * Net
  BY <1>9, <1>10, RoundedDown
<1>12. budget # 0
  <2>1. MinShares * ask \in Int /\ MinNotional \in Nat \ {0}
    BY <1>2, SizeAssumption, PriceAssumption, Products
  <2>2. Greatest(MinNotional, MinShares * ask) \in Int
        /\ Greatest(MinNotional, MinShares * ask) >= MinNotional
    BY <2>1, LeastOf
  <2>. QED
    BY <1>1, <1>11, <2>1, <2>2
<1>13. X # 0
  <2>1. X = 0 => X * Net = 0
    BY <1>10
  <2>2. 0 \div Gross(ask) = 0
    BY <1>10
  <2>. QED
    BY <1>9, <1>12, <2>1, <2>2
<1>14. paid \in Nat /\ paid <= X
  BY <1>2, <1>8, <1>11, CostBound
<1> HIDE DEF paid
<1>15. paid <= left /\ paid <= Deployable /\ paid <= Room /\ Deployable # 0
  BY <1>3, <1>4, <1>5, <1>7, <1>8, <1>13, <1>14
<1>16. row.spent + paid <= target
  BY <1>4, <1>5, <1>7, <1>14, <1>15
<1>17. row.percent # 0 => 100 * (row.spent + paid) <= row.percent * row.notional
  <2>1. row.percent * row.notional \in Nat
    BY <1>5, Products
  <2>. QED
    BY <1>4, <1>5, <1>14, <1>16, <2>1
<1>18. cost + paid <= MaxExposure /\ paid <= cash
  BY <1>1, <1>3, <1>14, <1>15, RoomBound, DeployableBound, MoneyAssumption
<1>19. ReserveDen * (cash - paid) >= ReserveNum * (cash + cost)
  <2>1. ReserveDen * Deployable <= ReserveDen * cash - ReserveNum * (cash + cost)
    BY <1>15, DeployableBound
  <2>2. ReserveDen * paid <= ReserveDen * Deployable
    BY <1>3, <1>14, <1>15, MoneyAssumption, Larger
  <2>3. ReserveDen * (cash - paid) = ReserveDen * cash - ReserveDen * paid
    BY <1>3, <1>14, MoneyAssumption
  <2>4. /\ ReserveDen * paid \in Nat /\ ReserveDen * Deployable \in Nat
        /\ ReserveDen * cash \in Nat /\ ReserveNum * (cash + cost) \in Nat
    BY <1>3, <1>14, MoneyAssumption, Products
  <2>. QED
    BY <2>1, <2>2, <2>3, <2>4
<1>20. row.spent + paid <= row.max
  BY <1>4, <1>5, <1>14, <1>16
<1>. QED
  BY <1>1, <1>14, <1>17, <1>18, <1>19, <1>20 DEF PaidRight, paid
LEMMA EventType ==
    ASSUME NEW e \in Events
    PROVE  /\ Ts(e) \in Nat /\ Source[e].size \in Nat \ {0} /\ Source[e].price \in Nat \ {0}
           /\ Notional(e) \in Nat \ {0}
<1>1. Source[e].size \in Nat \ {0} /\ Source[e].price \in Nat \ {0} /\ Ts(e) \in Nat
  BY SourceAssumption DEF Ts
<1>2. \A a, b \in Nat \ {0} : a * b \in Nat \ {0}
  OBVIOUS
<1>. QED
  BY <1>1, <1>2 DEF Notional

(* The classic budgets set the whole fee aside, whatever raises them.      *)
Affordable == (cash * FeeDen) \div (FeeDen + FeeNum)

LEMMA ClassicBound ==
    ASSUME Money, NEW e \in Events, NEW ask \in Nat
    PROVE  /\ Affordable \in Nat /\ Affordable * (FeeDen + FeeNum) <= cash * FeeDen
           /\ FirstBudget(e, ask) \in Int /\ FirstBudget(e, ask) <= Affordable
           /\ RetryBudget(e, ask) \in Int /\ RetryBudget(e, ask) <= Affordable
<1> DEFINE a == Affordable
           balance == (a * BalancePct) \div 100
           own == OwnCapacity
           classic == ClassicBudget(e)
           capacity == Least(own, Least(Deployable, Room))
           minimum == MinShares * ask
<1>1. cash * FeeDen \in Nat /\ FeeDen + FeeNum \in Nat \ {0}
  BY FeeAssumption, Products DEF Money
<1>2. a \in Nat /\ a * (FeeDen + FeeNum) <= cash * FeeDen
  BY <1>1, RoundedDown DEF Affordable
<1>3. OwnCapacity = Least(Least(a, balance), Least(max, TradeSize))
  BY DEF OwnCapacity, Affordable
<1> HIDE DEF a
<1>4. a * BalancePct \in Nat
  BY <1>2, MoneyAssumption, Products
<1>5. balance \in Int
  BY <1>4, Quotients
<1> HIDE DEF balance
<1>6. own \in Int /\ own <= a
  <2>1. Least(a, balance) \in Int /\ Least(a, balance) <= a
    BY <1>2, <1>5, LeastOf
  <2>2. Least(max, TradeSize) \in Int
    BY MoneyAssumption, LeastOf DEF Money
  <2>. QED
    BY <1>2, <1>3, <2>1, <2>2, LeastOf
<1>7. classic \in Int /\ classic <= own
  <2>1. Notional(e) \in Nat /\ OrderScale * Notional(e) \in Nat
    BY EventType, MoneyAssumption, Products
  <2>2. Greatest(MinNotional, OrderScale * Notional(e)) \in Int
    BY <2>1, SizeAssumption, LeastOf
  <2>3. /\ Least(own, Notional(e)) \in Int /\ Least(own, Notional(e)) <= own
        /\ Least(own, Greatest(MinNotional, OrderScale * Notional(e))) \in Int
        /\ Least(own, Greatest(MinNotional, OrderScale * Notional(e))) <= own
    BY <1>6, <2>1, <2>2, LeastOf
  <2>. QED
    BY <2>3 DEF ClassicBudget
<1>8. Deployable \in Int /\ Room \in Int /\ minimum \in Int
  BY DeployableBound, RoomBound, SizeAssumption, Products
<1> HIDE DEF own, classic, minimum
<1>9. capacity \in Int /\ capacity <= own
  BY <1>6, <1>8, LeastOf
<1> HIDE DEF capacity
<1>10. Least(classic, capacity) \in Int /\ Least(classic, capacity) <= capacity
       /\ Least(classic, Room) \in Int /\ Least(classic, Room) <= own
  BY <1>6, <1>7, <1>8, <1>9, LeastOf
<1>11. ASSUME NEW b \in Int, NEW c \in Int, b <= c, c <= own, NEW p
       PROVE  /\ RaisedToMinimum(b, c, p, ask) \in Int
              /\ RaisedToMinimum(b, c, p, ask) <= a
  BY <1>2, <1>6, <1>8, <1>11 DEF RaisedToMinimum, minimum
<1>12. /\ FirstBudget(e, ask) =
             RaisedToMinimum(Least(classic, capacity), capacity, Source[e].price, ask)
       /\ RetryBudget(e, ask) =
             RaisedToMinimum(Least(classic, Room), own, Source[e].price, ask)
  BY DEF FirstBudget, RetryBudget, classic, capacity, own
<1>13. FirstBudget(e, ask) \in Int /\ FirstBudget(e, ask) <= a
  BY <1>9, <1>10, <1>11, <1>12
<1>14. RetryBudget(e, ask) \in Int /\ RetryBudget(e, ask) <= a
  BY <1>6, <1>10, <1>11, <1>12
<1>. QED
  BY <1>2, <1>13, <1>14 DEF a

LEMMA ClassicPays ==
    ASSUME Money, NEW e \in Events, NEW book \in Books, NEW budget, NEW waiting,
           budget \in {FirstBudget(e, Ask(book)), RetryBudget(e, Ask(book))},
           ClassicOrder(e, budget, book, waiting)
    PROVE  \/ \E paid \in Nat : paid <= cash /\ Book(e, NoKey, paid)
           \/ /\ \E s \in {waiting, "skipped"} : Mark(e, s)
              /\ UNCHANGED <<market, order>>
<1> DEFINE ask == Ask(book)
           levels == Within(Sole(e), Source[e].price, book)
           paid == Cost(levels, budget)
<1>1. CASE ask # 0 /\ budget > 0 /\ Book(e, NoKey, paid)
  <2>1. /\ ask \in 1..One /\ levels \in Levels
        /\ \A i \in DOMAIN levels : ask <= levels[i].price
    BY <1>1, WithinLevels
  <2> HIDE DEF ask, levels
  <2>2. ask \in Nat
    BY <2>1
  <2>3. /\ Affordable \in Nat /\ Affordable * (FeeDen + FeeNum) <= cash * FeeDen
        /\ budget \in Nat /\ budget <= Affordable
    BY <1>1, <2>2, ClassicBound DEF ask
  <2>4. /\ One \in Nat /\ FeeDen \in Nat /\ FeeNum \in Nat /\ cash \in Nat
        /\ One - ask \in Nat /\ One - ask <= One
    BY <2>1, PriceAssumption, FeeAssumption DEF Money
  <2> DEFINE all == FeeDen + FeeNum
  <2>5. Gross(ask) <= all * One /\ Gross(ask) \in Nat
    <3>1. FeeNum * (One - ask) <= FeeNum * One
      BY <2>4, Larger
    <3>2. all * One = FeeDen * One + FeeNum * One
      BY <2>4
    <3>3. /\ FeeNum * (One - ask) \in Nat /\ FeeNum * One \in Nat
          /\ FeeDen * One \in Nat
      BY <2>4, Products
    <3>. QED
      BY <3>1, <3>2, <3>3 DEF Gross
  <2>6. all \in Nat /\ all * One \in Nat
    BY <2>4, Products
  <2>7. budget * Gross(ask) <= budget * (all * One)
    BY <2>3, <2>5, <2>6, Larger
  <2>8. budget * (all * One) <= Affordable * (all * One)
    BY <2>3, <2>6, Larger
  <2>9. Affordable * (all * One) = (Affordable * all) * One
    BY <2>3, <2>4, <2>6
  <2>10. (Affordable * all) * One <= (cash * FeeDen) * One
    <3>1. Affordable * all \in Nat /\ cash * FeeDen \in Nat
      BY <2>3, <2>4, <2>6, Products
    <3>2. Affordable * all <= cash * FeeDen
      BY <2>3
    <3> HIDE DEF all
    <3>. QED
      BY <2>4, <3>1, <3>2, Larger
  <2>11. (cash * FeeDen) * One = cash * Net
    BY <2>4 DEF Net
  <2>12. /\ budget * Gross(ask) \in Nat /\ budget * (all * One) \in Nat
         /\ Affordable * (all * One) \in Nat /\ cash * Net \in Nat
    BY <2>1, <2>3, <2>4, <2>5, <2>6, Products, GrossType
  <2> HIDE DEF all
  <2>13. budget * Gross(ask) <= cash * Net
    BY <2>7, <2>8, <2>9, <2>10, <2>11, <2>12
  <2>14. paid \in Nat /\ paid <= cash
    BY <2>1, <2>3, <2>4, <2>13, CostBound
  <2> HIDE DEF paid
  <2>. QED
    BY <1>1, <2>14
<1>2. CASE (\E s \in {waiting, "skipped"} : Mark(e, s)) /\ UNCHANGED <<market, order>>
  BY <1>2
<1>3. \/ ask # 0 /\ budget > 0 /\ Book(e, NoKey, paid)
      \/ (\E s \in {waiting, "skipped"} : Mark(e, s)) /\ UNCHANGED <<market, order>>
  BY DEF ClassicOrder, MarketUnfit
<1>. QED
  BY <1>1, <1>2, <1>3
-----------------------------------------------------------------------------
(* What is counted and paid is counted and paid once: an event that has a  *)
(* series is recorded, one that has an order is executed.                  *)
Statuses == {"none", "skipped", "retry_pending", "executed"}
Settled ==
    \A e \in Events :
        /\ counted[e] # NoKey => status[e] # "none"
        /\ order[e].key # NoKey => status[e] = "executed"

BudgetInv == TypeOK /\ Settled /\ CountedOnce /\ SeriesBudgetKept

LEMMA InitBudget == Init => BudgetInv
<1>. SUFFICES ASSUME Init PROVE BudgetInv
  OBVIOUS
<1>1. /\ DOMAIN series = {} /\ \A e \in Events : counted[e] = NoKey /\ order[e].key = NoKey
  BY DEF Init
<1>2. cash \in Nat /\ cost \in Nat
  BY MoneyAssumption DEF Init
<1>3. /\ status \in [Events -> {"none", "skipped", "retry_pending", "executed"}]
      /\ counted \in [Events -> DOMAIN series \cup {NoKey}]
      /\ order \in [Events -> [key : DOMAIN series \cup {NoKey}, cost : Nat]]
  BY DEF Init
<1>4. mode \in Modes /\ max \in MaxSizes /\ seconds \in Seconds /\ changes \in 0..MaxChanges
  BY ChoiceAssumption DEF Init
<1>5. TypeOK
  BY <1>1, <1>2, <1>3, <1>4 DEF TypeOK
<1>. QED
  BY <1>1, <1>5 DEF BudgetInv, Settled, CountedOnce, SeriesBudgetKept

LEMMA MoneyTypes == TypeOK => Money /\ KeyTypes
<1>. SUFFICES ASSUME TypeOK PROVE Money /\ KeyTypes
  OBVIOUS
<1>1. Money
  BY ChoiceAssumption DEF TypeOK, Money
<1>2. seconds \in Nat \ {0} /\ DOMAIN series \subseteq Nat
  BY ChoiceAssumption DEF TypeOK
<1>3. \A k \in DOMAIN series :
          series[k].seconds \in Nat \ {0} /\ Columns \subseteq DOMAIN series[k]
  BY DEF TypeOK, Row, Columns
<1>. QED
  BY <1>1, <1>2, <1>3 DEF KeyTypes

-----------------------------------------------------------------------------
(* The sums of a key, whether or not a series has begun under it.          *)
Noted(k) == IF k \in DOMAIN series THEN series[k].notional ELSE 0
Bought(k) == IF k \in DOMAIN series THEN series[k].shares ELSE 0
Paid(k) == IF k \in DOMAIN series THEN series[k].spent ELSE 0
Notionals == [e \in Events |-> Notional(e)]
Sizes == [e \in Events |-> Source[e].size]
Costs == [e \in Events |-> order[e].cost]
Paying(k) == {e \in Events : order[e].key = k}

LEMMA EventSums ==
    ASSUME TypeOK, NEW S \in SUBSET Events
    PROVE  IsFiniteSet(S) /\ Ints(Notionals, S) /\ Ints(Sizes, S) /\ Ints(Costs, S)
<1>1. IsFiniteSet(S)
  BY EventsAssumption, FS_Subset
<1>2. \A e \in S : Notionals[e] \in Int /\ Sizes[e] \in Int
  BY EventType DEF Notionals, Sizes
<1>3. \A e \in S : Costs[e] \in Int
  BY DEF TypeOK, Costs
<1>. QED
  BY <1>1, <1>2, <1>3 DEF Ints

LEMMA KeySums ==
    ASSUME BudgetInv, NEW k \in Nat
    PROVE  /\ Noted(k) = SumOver(Notionals, Members(k))
           /\ Bought(k) = SumOver(Sizes, Members(k))
           /\ Paid(k) = SumOver(Costs, Paying(k))
<1>1. CASE k \in DOMAIN series
  BY <1>1 DEF BudgetInv, CountedOnce, SeriesBudgetKept, PaidIn, Noted, Bought, Paid,
         Notionals, Sizes, Costs, Paying
<1>2. CASE k \notin DOMAIN series
  <2>1. k # NoKey
    BY DEF NoKey
  <2>2. Members(k) = {} /\ Paying(k) = {}
    BY <1>2, <2>1 DEF BudgetInv, TypeOK, Members, Paying
  <2>. QED
    BY <1>2, <2>2, SumEmpty DEF Noted, Bought, Paid
<1>. QED
  BY <1>1, <1>2

(* A term more.                                                            *)
LEMMA SumAdds ==
    ASSUME NEW f, NEW S, NEW x, x \notin S, Ints(f, S \cup {x})
    PROVE  SumOver(f, S \cup {x}) = SumOver(f, S) + f[x]
<1>1. SumOver(f, S \cup {x}) = f[x] + SumOver(f, (S \cup {x}) \ {x})
  BY SumSplit
<1>2. (S \cup {x}) \ {x} = S
  OBVIOUS
<1>3. Ints(f, S)
  BY FS_Subset DEF Ints
<1>4. f[x] \in Int /\ SumOver(f, S) \in Int
  BY <1>3, SumType DEF Ints
<1>5. SumOver(f, S \cup {x}) = f[x] + SumOver(f, S)
  BY <1>1, <1>2, Zenon
<1>6. f[x] + SumOver(f, S) = SumOver(f, S) + f[x]
  BY <1>4
<1>. QED
  BY <1>5, <1>6, Zenon

LEMMA CountSums ==
    ASSUME TypeOK, NEW e \in Events, counted[e] = NoKey, NEW k \in Nat,
           counted' = [counted EXCEPT ![e] = k]
    PROVE  /\ SumOver(Notionals, Members(k)') = SumOver(Notionals, Members(k)) + Notional(e)
           /\ SumOver(Sizes, Members(k)') = SumOver(Sizes, Members(k)) + Source[e].size
           /\ \A j \in Nat \ {k} : Members(j)' = Members(j)
<1>1. k # NoKey /\ \A j \in Nat : j # NoKey
  BY DEF NoKey
<1>2. /\ Members(k)' = Members(k) \cup {e} /\ e \notin Members(k)
      /\ \A j \in Nat \ {k} : Members(j)' = Members(j)
  BY <1>1 DEF TypeOK, Members
<1>3. Members(k) \cup {e} \in SUBSET Events
  BY DEF Members
<1>4. Ints(Notionals, Members(k) \cup {e}) /\ Ints(Sizes, Members(k) \cup {e})
  BY <1>3, EventSums
<1>5. Notionals[e] = Notional(e) /\ Sizes[e] = Source[e].size
  BY DEF Notionals, Sizes
<1> DEFINE S == Members(k)
<1> HIDE DEF S
<1>6. /\ SumOver(Notionals, S \cup {e}) = SumOver(Notionals, S) + Notionals[e]
      /\ SumOver(Sizes, S \cup {e}) = SumOver(Sizes, S) + Sizes[e]
  BY <1>2, <1>4, SumAdds DEF S
<1>. QED
  BY <1>2, <1>5, <1>6 DEF S

LEMMA PaySums ==
    ASSUME TypeOK, NEW e \in Events, order[e].key = NoKey, NEW k \in Nat \cup {NoKey},
           NEW paid \in Nat, order' = [order EXCEPT ![e] = [key |-> k, cost |-> paid]]
    PROVE  /\ k \in Nat => SumOver(Costs', Paying(k)') = SumOver(Costs, Paying(k)) + paid
           /\ \A j \in Nat \ {k} : SumOver(Costs', Paying(j)') = SumOver(Costs, Paying(j))
<1>1. NoKey \notin Nat
  BY DEF NoKey
<1>2. /\ order' \in [Events -> [key : DOMAIN series \cup {NoKey, k}, cost : Nat]]
      /\ order'[e] = [key |-> k, cost |-> paid]
      /\ \A f \in Events : f # e => order'[f] = order[f]
  BY DEF TypeOK
<1>3. /\ \A j \in Nat \ {k} : Paying(j)' = Paying(j) /\ e \notin Paying(j)
      /\ k \in Nat => Paying(k)' = Paying(k) \cup {e} /\ e \notin Paying(k)
  BY <1>1, <1>2 DEF Paying
<1>4. Costs'[e] = paid /\ \A f \in Events : f # e => Costs'[f] = Costs[f]
  BY <1>2 DEF Costs
<1>5. \A f \in Events : Costs'[f] \in Int
  BY <1>2 DEF Costs
<1>6. \A S \in SUBSET Events : Ints(Costs', S) /\ Ints(Costs, S)
  BY <1>5, EventSums DEF Ints
<1> DEFINE new == Costs'
<1> HIDE DEF new
<1>7. \A S \in SUBSET Events : e \notin S => SumOver(new, S) = SumOver(Costs, S)
  <2>. SUFFICES ASSUME NEW S \in SUBSET Events, e \notin S
                PROVE  SumOver(new, S) = SumOver(Costs, S)
    OBVIOUS
  <2>1. \A f \in S : new[f] = Costs[f]
    BY <1>4 DEF new
  <2>. QED
    BY <1>6, <2>1, SumSame
<1>8. \A j \in Nat \ {k} : SumOver(new, Paying(j)) = SumOver(Costs, Paying(j))
  BY <1>3, <1>7 DEF Paying
<1>9. k \in Nat => SumOver(new, Paying(k) \cup {e}) = SumOver(Costs, Paying(k)) + paid
  <2>. SUFFICES ASSUME k \in Nat
                PROVE  SumOver(new, Paying(k) \cup {e}) = SumOver(Costs, Paying(k)) + paid
    OBVIOUS
  <2> DEFINE S == Paying(k)
  <2>1. S \in SUBSET Events /\ S \cup {e} \in SUBSET Events /\ e \notin S
    BY <1>3 DEF Paying
  <2> HIDE DEF S
  <2>2. SumOver(new, S \cup {e}) = SumOver(new, S) + new[e]
    BY <1>6, <2>1, SumAdds DEF new
  <2>3. SumOver(new, S) = SumOver(Costs, S) /\ new[e] = paid
    BY <1>4, <1>7, <2>1 DEF new
  <2>. QED
    BY <2>2, <2>3 DEF S
<1>. QED
  BY <1>3, <1>8, <1>9 DEF new
-----------------------------------------------------------------------------
(* A row is written: e's size may be counted into it, e's order be paid    *)
(* from it, within the budget.                                             *)
WithinBudget(row) ==
    /\ row.spent <= row.max
    /\ row.percent # 0 => 100 * row.spent <= row.percent * row.notional
Counts(e, k, row) ==
    \/ /\ UNCHANGED counted
       /\ row.notional = Noted(k) /\ row.shares = Bought(k)
    \/ /\ counted[e] = NoKey /\ counted' = [counted EXCEPT ![e] = k]
       /\ row.notional = Noted(k) + Notional(e) /\ row.shares = Bought(k) + Source[e].size
Pays(e, k, row) ==
    \/ UNCHANGED order /\ row.spent = Paid(k)
    \/ \E paid \in Nat :
          /\ order[e].key = NoKey
          /\ order' = [order EXCEPT ![e] = [key |-> k, cost |-> paid]]
          /\ row.spent = Paid(k) + paid

LEMMA PutKeeps ==
    ASSUME BudgetInv, NEW e \in Events, NEW k \in Nat, NEW row,
           Put(k, row), Counts(e, k, row), Pays(e, k, row), WithinBudget(row)
    PROVE  CountedOnce' /\ SeriesBudgetKept'
<1>1. /\ DOMAIN series' = DOMAIN series \cup {k} /\ series'[k] = row
      /\ \A j \in DOMAIN series : j # k => series'[j] = series[j]
  BY DEF Put
<1>2. TypeOK /\ DOMAIN series' \subseteq Nat /\ Costs' = [f \in Events |-> order'[f].cost]
  BY <1>1 DEF BudgetInv, TypeOK, Costs
<1>3. /\ row.notional = SumOver(Notionals, Members(k)')
      /\ row.shares = SumOver(Sizes, Members(k)')
      /\ \A j \in Nat \ {k} : Members(j)' = Members(j)
  <2>1. CASE UNCHANGED counted
    <3>1. \A j : Members(j)' = Members(j)
      BY <2>1 DEF Members
    <3>2. row.notional = Noted(k) /\ row.shares = Bought(k)
      <4>1. counted[e] = NoKey => counted # [counted EXCEPT ![e] = k]
        BY <1>2 DEF TypeOK, NoKey
      <4>. QED
        BY <2>1, <4>1 DEF Counts
    <3>. QED
      BY <3>1, <3>2, KeySums
  <2>2. CASE counted[e] = NoKey /\ counted' = [counted EXCEPT ![e] = k]
    <3>1. CASE row.notional = Noted(k) + Notional(e) /\ row.shares = Bought(k) + Source[e].size
      BY <1>2, <2>2, <3>1, KeySums, CountSums
    <3>2. CASE UNCHANGED counted
      BY <2>1, <3>2
    <3>. QED
      BY <3>1, <3>2 DEF Counts
  <2>. QED
    BY <2>1, <2>2 DEF Counts
<1>4. /\ row.spent = SumOver(Costs', Paying(k)')
      /\ \A j \in Nat \ {k} : SumOver(Costs', Paying(j)') = SumOver(Costs, Paying(j))
  <2>1. CASE UNCHANGED order /\ row.spent = Paid(k)
    <3>1. Costs' = Costs /\ \A j : Paying(j)' = Paying(j)
      BY <2>1 DEF Costs, Paying
    <3>. QED
      BY <2>1, <3>1, KeySums
  <2>2. CASE \E paid \in Nat :
                /\ order[e].key = NoKey
                /\ order' = [order EXCEPT ![e] = [key |-> k, cost |-> paid]]
                /\ row.spent = Paid(k) + paid
    <3>1. PICK paid \in Nat :
                /\ order[e].key = NoKey
                /\ order' = [order EXCEPT ![e] = [key |-> k, cost |-> paid]]
                /\ row.spent = Paid(k) + paid
      BY <2>2
    <3>2. Paid(k) = SumOver(Costs, Paying(k)) /\ k \in Nat \cup {NoKey}
      BY KeySums
    <3>3. /\ SumOver(Costs', Paying(k)') = SumOver(Costs, Paying(k)) + paid
          /\ \A j \in Nat \ {k} : SumOver(Costs', Paying(j)') = SumOver(Costs, Paying(j))
      BY <1>2, <3>1, <3>2, PaySums
    <3>. QED
      BY <3>1, <3>2, <3>3
  <2>. QED
    BY <2>1, <2>2 DEF Pays
<1>5. CountedOnce'
  <2>. SUFFICES ASSUME NEW j \in DOMAIN series'
                PROVE  /\ series'[j].notional = SumOver(Notionals, Members(j)')
                       /\ series'[j].shares = SumOver(Sizes, Members(j)')
    BY DEF CountedOnce, Notionals, Sizes, Notional
  <2>1. CASE j = k
    BY <1>1, <1>3, <2>1
  <2>2. CASE j # k
    BY <1>1, <1>2, <1>3, <2>2 DEF BudgetInv, CountedOnce, Notionals, Sizes
  <2>. QED
    BY <2>1, <2>2
<1>6. SeriesBudgetKept'
  <2> DEFINE kept(j, row0, sum) ==
          /\ sum = row0.spent /\ sum <= row0.max
          /\ row0.percent # 0 => 100 * sum <= row0.percent * row0.notional
  <2>1. \A j \in DOMAIN series : kept(j, series[j], SumOver(Costs, Paying(j)))
    BY DEF BudgetInv, SeriesBudgetKept, PaidIn, Costs, Paying
  <2>2. kept(k, row, SumOver(Costs', Paying(k)'))
    BY <1>4 DEF WithinBudget
  <2>. SUFFICES ASSUME NEW j \in DOMAIN series'
                PROVE  kept(j, series'[j], SumOver(Costs', Paying(j)'))
    BY DEF SeriesBudgetKept, PaidIn, Costs, Paying
  <2>3. CASE j = k
    BY <1>1, <2>2, <2>3
  <2>4. CASE j # k
    <3>1. /\ j \in DOMAIN series /\ series'[j] = series[j]
          /\ SumOver(Costs', Paying(j)') = SumOver(Costs, Paying(j))
      BY <1>1, <1>2, <1>4, <2>4
    <3>. QED
      BY <2>1, <3>1
  <2>. QED
    BY <2>3, <2>4
<1>. QED
  BY <1>5, <1>6

(* No size is counted and no order made from a series: what a sell, a      *)
(* refusal, a classic order or the administrator does.                     *)
NothingCounted ==
    /\ DOMAIN series' = DOMAIN series
    /\ \A k \in DOMAIN series :
          series'[k] = series[k] \/ series'[k] = [series[k] EXCEPT !.closed = TRUE]
    /\ UNCHANGED counted

Marked ==
    /\ status' \in [Events -> Statuses]
    /\ \A e \in Events : /\ status[e] # "none" => status'[e] # "none"
                         /\ status[e] = "executed" => status'[e] = "executed"

SettingTypes ==
    mode \in Modes /\ max \in MaxSizes /\ seconds \in Seconds /\ changes \in 0..MaxChanges

LEMMA QuietKeepsBudget ==
    ASSUME BudgetInv, NothingCounted, Marked, SettingTypes',
           cash' \in Nat /\ cost' \in Nat,
           \/ UNCHANGED order
           \/ \E e \in Events, paid \in Nat :
                 /\ status[e] # "executed" /\ status'[e] = "executed"
                 /\ order' = [order EXCEPT ![e] = [key |-> NoKey, cost |-> paid]]
    PROVE  BudgetInv'
<1>1. \A k \in DOMAIN series :
          /\ series'[k] \in Row
          /\ series'[k].notional = series[k].notional /\ series'[k].shares = series[k].shares
          /\ series'[k].spent = series[k].spent /\ series'[k].max = series[k].max
          /\ series'[k].percent = series[k].percent
  <2>1. TAKE k \in DOMAIN series
  <2> DEFINE row == series[k]
             shut == [row EXCEPT !.closed = TRUE]
  <2>2. row \in Row
    BY DEF BudgetInv, TypeOK
  <2>3. series'[k] = row \/ series'[k] = shut
    BY DEF NothingCounted
  <2> HIDE DEF row
  <2>4. /\ shut \in Row
        /\ shut.notional = row.notional /\ shut.shares = row.shares
        /\ shut.spent = row.spent /\ shut.max = row.max /\ shut.percent = row.percent
    BY <2>2 DEF Row
  <2> HIDE DEF shut
  <2>. QED
    BY <2>2, <2>3, <2>4 DEF row
<1>2. /\ order' \in [Events -> [key : DOMAIN series \cup {NoKey}, cost : Nat]]
      /\ \A e \in Events : order'[e].key # NoKey => order'[e] = order[e]
  BY DEF BudgetInv, TypeOK
<1>3. TypeOK'
  BY <1>1, <1>2 DEF NothingCounted, Marked, Statuses, SettingTypes, BudgetInv, TypeOK
<1>4. Settled'
  BY <1>2 DEF NothingCounted, Marked, BudgetInv, Settled
<1>5. CountedOnce'
  <2>1. DOMAIN series' = DOMAIN series /\ \A k : Members(k)' = Members(k)
    BY DEF NothingCounted, Members
  <2>2. \A k \in DOMAIN series :
            /\ series[k].notional = SumOver(Notionals, Members(k))
            /\ series[k].shares = SumOver(Sizes, Members(k))
    BY DEF BudgetInv, CountedOnce, Notionals, Sizes
  <2>3. \A k \in DOMAIN series' :
            /\ series'[k].notional = SumOver(Notionals, Members(k)')
            /\ series'[k].shares = SumOver(Sizes, Members(k)')
    BY <1>1, <2>1, <2>2
  <2>. QED
    BY <2>3 DEF CountedOnce, Notionals, Sizes, Notional
<1>6. \A k \in Nat : SumOver(Costs', Paying(k)') = SumOver(Costs, Paying(k))
  <2>1. CASE UNCHANGED order
    BY <2>1 DEF Costs, Paying
  <2>2. CASE \E e \in Events, paid \in Nat :
                /\ status[e] # "executed" /\ status'[e] = "executed"
                /\ order' = [order EXCEPT ![e] = [key |-> NoKey, cost |-> paid]]
    <3>1. PICK e \in Events, paid \in Nat :
                /\ status[e] # "executed"
                /\ order' = [order EXCEPT ![e] = [key |-> NoKey, cost |-> paid]]
      BY <2>2
    <3>2. order[e].key = NoKey /\ TypeOK /\ NoKey \notin Nat
      BY <3>1 DEF BudgetInv, Settled, NoKey
    <3>3. \A k \in Nat \ {NoKey} : SumOver(Costs', Paying(k)') = SumOver(Costs, Paying(k))
      <4>1. NoKey \in Nat \cup {NoKey}
        OBVIOUS
      <4>. QED
        BY <3>1, <3>2, <4>1, PaySums
    <3>. QED
      BY <3>2, <3>3
  <2>. QED
    BY <2>1, <2>2
<1>7. SeriesBudgetKept'
  <2>. SUFFICES ASSUME NEW k \in DOMAIN series
                PROVE  LET sum == SumOver(Costs', Paying(k)')
                       IN  /\ sum = series'[k].spent /\ sum <= series'[k].max
                           /\ series'[k].percent # 0 =>
                                 100 * sum <= series'[k].percent * series'[k].notional
    BY DEF NothingCounted, SeriesBudgetKept, PaidIn, Costs, Paying
  <2>1. k \in Nat
    BY DEF BudgetInv, TypeOK
  <2>2. LET sum == SumOver(Costs, Paying(k))
        IN  /\ sum = series[k].spent /\ sum <= series[k].max
            /\ series[k].percent # 0 => 100 * sum <= series[k].percent * series[k].notional
    BY DEF BudgetInv, SeriesBudgetKept, PaidIn, Costs, Paying
  <2>. QED
    BY <1>1, <1>6, <2>1, <2>2
<1>. QED
  BY <1>3, <1>4, <1>5, <1>7 DEF BudgetInv
LEMMA PutKeepsBudget ==
    ASSUME BudgetInv, NEW e \in Events, NEW k \in Nat, NEW row \in Row,
           Put(k, row), Counts(e, k, row), Pays(e, k, row), WithinBudget(row),
           Marked, status'[e] # "none", UNCHANGED order \/ status'[e] = "executed",
           cash' \in Nat /\ cost' \in Nat, UNCHANGED settings
    PROVE  BudgetInv'
<1>1. CountedOnce' /\ SeriesBudgetKept'
  BY PutKeeps
<1>2. /\ DOMAIN series' = DOMAIN series \cup {k} /\ series'[k] = row
      /\ \A j \in DOMAIN series : j # k => series'[j] = series[j]
  BY DEF Put
<1>3. DOMAIN series' \subseteq Nat /\ \A j \in DOMAIN series' : series'[j] \in Row
  BY <1>2 DEF BudgetInv, TypeOK
<1>4. /\ counted' \in [Events -> DOMAIN series' \cup {NoKey}]
      /\ \A f \in Events : f # e => counted'[f] = counted[f]
  BY <1>2 DEF Counts, BudgetInv, TypeOK
<1>5. /\ order' \in [Events -> [key : DOMAIN series' \cup {NoKey}, cost : Nat]]
      /\ \A f \in Events : f # e => order'[f] = order[f]
  BY <1>2 DEF Pays, BudgetInv, TypeOK
<1>6. SettingTypes'
  BY DEF BudgetInv, TypeOK, settings, SettingTypes
<1>7. TypeOK'
  BY <1>3, <1>4, <1>5, <1>6 DEF TypeOK, Marked, Statuses, SettingTypes
<1>8. Settled'
  BY <1>4, <1>5 DEF BudgetInv, Settled, Marked
<1>. QED
  BY <1>1, <1>7, <1>8 DEF BudgetInv

LEMMA JoinedFacts ==
    ASSUME BudgetInv, NEW e \in Events, NEW k \in Nat
    PROVE  /\ Joined(e, k) \in Row
           /\ Joined(e, k).notional = Noted(k) + Notional(e)
           /\ Joined(e, k).shares = Bought(k) + Source[e].size
           /\ Joined(e, k).spent = Paid(k)
           /\ WithinBudget(Joined(e, k))
<1> DEFINE base == IF k \in DOMAIN series THEN series[k] ELSE Opened(e)
           row == Joined(e, k)
           Base == [seconds : Nat \ {0}, base : Nat, reference : Nat \ {0}, max : Nat,
                    multiplier : Nat, percent : Nat, notional : Nat, shares : Nat,
                    spent : Nat, closed : BOOLEAN]
<1>1. Notional(e) \in Nat \ {0} /\ Source[e].size \in Nat \ {0}
  BY EventType
<1>2. Money /\ seconds \in Nat \ {0}
  BY MoneyTypes DEF BudgetInv, KeyTypes
<1>3. /\ Opened(e) \in Base
      /\ Opened(e).notional = 0 /\ Opened(e).shares = 0 /\ Opened(e).spent = 0
  <2>1. Notional(e) * LeaderPct \in Nat /\ cash * BalancePct \in Nat
    BY <1>1, <1>2, MoneyAssumption, Products DEF Money
  <2>2. (Notional(e) * LeaderPct) \div 100 \in Nat /\ (cash * BalancePct) \div 100 \in Nat
    BY <2>1, Quotients
  <2>3. Least(FixedSize, max) \in Nat
    BY <1>2, MoneyAssumption DEF Least, Money
  <2>4. /\ FixedSize \in Nat /\ LeaderPct \in Nat /\ Typical \in Nat \ {0}
        /\ MaxMultiplier \in Nat /\ max \in Nat
    BY <1>2, MoneyAssumption, SizeAssumption DEF Money
  <2>5. \E b \in Nat, r \in Nat \ {0}, t \in Nat, m \in Nat, p \in Nat :
            Opened(e) =
                [seconds |-> seconds, base |-> b, reference |-> r, max |-> t,
                 multiplier |-> m, percent |-> p,
                 notional |-> 0, shares |-> 0, spent |-> 0, closed |-> FALSE]
    <3>1. CASE mode = "fixed"
      BY <1>1, <2>3, <2>4, <3>1 DEF Opened
    <3>2. CASE mode = "percent"
      BY <1>1, <2>2, <2>4, <3>2 DEF Opened
    <3>3. CASE mode # "fixed" /\ mode # "percent"
      BY <2>2, <2>4, <3>3 DEF Opened
    <3>. QED
      BY <3>1, <3>2, <3>3
  <2>. QED
    BY <1>2, <2>5
<1>4. /\ base \in Base
      /\ base.notional = Noted(k) /\ base.shares = Bought(k) /\ base.spent = Paid(k)
      /\ WithinBudget(base)
  <2>1. CASE k \in DOMAIN series
    <3>1. series[k] \in Row
      BY <2>1 DEF BudgetInv, TypeOK
    <3>2. series[k] \in Base
      BY <3>1 DEF Row
    <3>3. WithinBudget(series[k])
      BY <2>1 DEF BudgetInv, SeriesBudgetKept, WithinBudget
    <3>. QED
      BY <2>1, <3>2, <3>3 DEF Noted, Bought, Paid
  <2>2. CASE k \notin DOMAIN series
    <3> HIDE DEF Base
    <3>1. Opened(e).max \in Nat /\ Opened(e).percent \in Nat
      BY <1>3 DEF Base
    <3>2. WithinBudget(Opened(e))
      BY <1>3, <3>1 DEF WithinBudget
    <3>. QED
      BY <1>3, <2>2, <3>2 DEF Noted, Bought, Paid
  <2>. QED
    BY <2>1, <2>2
<1>5. row = [base EXCEPT !.notional = @ + Notional(e), !.shares = @ + Source[e].size]
  BY DEF Joined
<1> HIDE DEF base, row
<1>6. /\ row \in Row
      /\ row.notional = base.notional + Notional(e)
      /\ row.shares = base.shares + Source[e].size
      /\ row.spent = base.spent /\ row.max = base.max /\ row.percent = base.percent
  <2> DEFINE n == base.notional + Notional(e)
             m == base.shares + Source[e].size
  <2>1. n \in Nat /\ m \in Nat \ {0}
    BY <1>1, <1>4
  <2>2. row = [base EXCEPT !.notional = n, !.shares = m]
    BY <1>5
  <2> HIDE DEF n, m
  <2>3. /\ row \in Row /\ row.notional = n /\ row.shares = m
        /\ row.spent = base.spent /\ row.max = base.max /\ row.percent = base.percent
    BY <1>4, <2>1, <2>2 DEF Row
  <2>. QED
    BY <2>3 DEF n, m
<1>7. WithinBudget(row)
  <2>1. base.percent \in Nat /\ base.notional \in Nat /\ base.spent \in Nat
    BY <1>4
  <2>2. base.percent * base.notional <= base.percent * (base.notional + Notional(e))
    BY <1>1, <2>1, Larger
  <2>3. /\ base.percent * base.notional \in Nat
        /\ base.percent * (base.notional + Notional(e)) \in Nat
    BY <1>1, <2>1, Products
  <2>. QED
    BY <1>4, <1>6, <2>1, <2>2, <2>3 DEF WithinBudget
<1>. QED
  BY <1>4, <1>6, <1>7 DEF row
-----------------------------------------------------------------------------
(* The actions.                                                            *)
LimitsKept == /\ cost' <= MaxExposure
              /\ ReserveDen * cash' >= ReserveNum * (cash' + cost')

LEMMA MarkTypes ==
    ASSUME TypeOK, NEW e \in Events, NEW s \in Statuses \ {"none"}, Mark(e, s),
           s = "executed" \/ status[e] # "executed"
    PROVE  Marked /\ status'[e] = s
BY DEF TypeOK, Mark, Marked, Statuses

(* An order from a series, of a first attempt or of a retry.               *)
LEMMA SpendKeeps ==
    ASSUME BudgetInv, NEW e \in Events, status[e] # "executed", NEW k \in Nat,
           NEW row \in Row, NEW book \in Books, Spend(e, k, row, book),
           Counts(e, k, row), row.spent = Paid(k), UNCHANGED settings
    PROVE  BudgetInv' /\ LimitsKept
<1>1. Money /\ TypeOK
  BY MoneyTypes DEF BudgetInv
<1>2. PICK paid : /\ PaidRight(row, paid)
                  /\ Book(e, k, paid)
                  /\ Put(k, [row EXCEPT !.spent = @ + paid])
  BY <1>1, SpendPays
<1> DEFINE sum == row.spent + paid
           new == [row EXCEPT !.spent = sum]
<1>3. paid \in Nat /\ row.spent \in Nat /\ sum \in Nat
  BY <1>2 DEF PaidRight, Row
<1>4. Put(k, new)
  BY <1>2
<1> HIDE DEF sum
<1>5. /\ new \in Row
      /\ new.spent = sum /\ new.notional = row.notional /\ new.shares = row.shares
      /\ new.max = row.max /\ new.percent = row.percent
  BY <1>3 DEF Row
<1> HIDE DEF new
<1>6. WithinBudget(new)
  BY <1>2, <1>5 DEF PaidRight, WithinBudget, sum
<1>7. Counts(e, k, new)
  BY <1>5 DEF Counts
<1>8. order[e].key = NoKey
  BY DEF BudgetInv, Settled
<1>9. Pays(e, k, new)
  BY <1>2, <1>3, <1>5, <1>8 DEF Book, Pays, sum
<1>10. Marked /\ status'[e] = "executed"
  BY <1>1, <1>2, MarkTypes DEF Book, Statuses
<1>11. /\ cash' = cash - paid /\ cost' = cost + paid
       /\ cash' \in Nat /\ cost' \in Nat /\ cash' + cost' = cash + cost
  BY <1>1, <1>2, <1>3 DEF Book, PaidRight, Money
<1>12. BudgetInv'
  BY <1>4, <1>5, <1>6, <1>7, <1>9, <1>10, <1>11, PutKeepsBudget
<1>13. LimitsKept
  BY <1>2, <1>11 DEF PaidRight, LimitsKept
<1>. QED
  BY <1>12, <1>13

LEMMA SizeKeepsBudget ==
    ASSUME BudgetInv, NEW e \in Events, SizeBuy(e)
    PROVE  BudgetInv' /\ (UNCHANGED order \/ LimitsKept)
<1> DEFINE k == StartOf(e)
           row == Joined(e, k)
<1>1. TypeOK /\ KeyTypes /\ Money
  BY MoneyTypes DEF BudgetInv
<1>2. k \in Nat
  BY <1>1, WindowStart
<1>3. /\ status[e] = "none" /\ counted' = [counted EXCEPT ![e] = k]
      /\ UNCHANGED settings
      /\ \/ \E book \in Books : Spend(e, k, row, book)
         \/ /\ Put(k, row) /\ UNCHANGED <<market, order>>
            /\ \E s \in {"retry_pending", "skipped"} : Mark(e, s)
  BY DEF SizeBuy, New, Decline
<1> HIDE DEF k
<1>4. /\ row \in Row /\ row.spent = Paid(k) /\ WithinBudget(row)
      /\ row.notional = Noted(k) + Notional(e) /\ row.shares = Bought(k) + Source[e].size
  BY <1>2, JoinedFacts
<1> HIDE DEF row
<1>5. counted[e] = NoKey
  BY <1>3 DEF BudgetInv, Settled
<1>6. Counts(e, k, row)
  BY <1>3, <1>4, <1>5 DEF Counts
<1>7. CASE \E book \in Books : Spend(e, k, row, book)
  BY <1>2, <1>3, <1>4, <1>6, <1>7, SpendKeeps
<1>8. CASE /\ Put(k, row) /\ UNCHANGED <<market, order>>
           /\ \E s \in {"retry_pending", "skipped"} : Mark(e, s)
  <2>1. Marked /\ status'[e] # "none"
    BY <1>1, <1>3, <1>8, MarkTypes DEF Statuses
  <2>2. Pays(e, k, row) /\ cash' \in Nat /\ cost' \in Nat
    BY <1>1, <1>4, <1>8 DEF Pays, market, Money
  <2>3. BudgetInv'
    BY <1>2, <1>3, <1>4, <1>6, <1>8, <2>1, <2>2, PutKeepsBudget
  <2>. QED
    BY <1>8, <2>3
<1>. QED
  BY <1>3, <1>7, <1>8

LEMMA RetryKeepsBudget ==
    ASSUME BudgetInv, NEW e \in Events, RetrySeries(e)
    PROVE  BudgetInv' /\ (UNCHANGED order \/ LimitsKept)
<1> DEFINE k == Bucket(Ts(e))
           row == series[k]
<1>1. TypeOK /\ Money
  BY MoneyTypes DEF BudgetInv
<1>2. /\ status[e] = "retry_pending" /\ k \in DOMAIN series
      /\ UNCHANGED counted /\ UNCHANGED settings
      /\ \/ \E book \in Books : Spend(e, k, row, book)
         \/ /\ UNCHANGED <<market, order, series>>
            /\ \E s \in {"retry_pending", "skipped"} : Mark(e, s)
  BY DEF RetrySeries, Waiting, RowForRetry, Decline
<1> HIDE DEF k
<1>3. k \in Nat /\ row \in Row /\ row.spent = Paid(k)
      /\ row.notional = Noted(k) /\ row.shares = Bought(k)
  BY <1>1, <1>2 DEF TypeOK, Noted, Bought, Paid
<1> HIDE DEF row
<1>4. Counts(e, k, row)
  BY <1>2, <1>3 DEF Counts
<1>5. CASE \E book \in Books : Spend(e, k, row, book)
  BY <1>2, <1>3, <1>4, <1>5, SpendKeeps
<1>6. CASE /\ UNCHANGED <<market, order, series>>
           /\ \E s \in {"retry_pending", "skipped"} : Mark(e, s)
  <2>1. Marked
    BY <1>1, <1>2, <1>6, MarkTypes DEF Statuses
  <2>2. NothingCounted /\ cash' \in Nat /\ cost' \in Nat
    BY <1>1, <1>2, <1>6 DEF NothingCounted, market, Money
  <2>3. SettingTypes'
    BY <1>1, <1>2 DEF TypeOK, settings, SettingTypes
  <2>4. BudgetInv'
    BY <1>6, <2>1, <2>2, <2>3, QuietKeepsBudget
  <2>. QED
    BY <1>6, <2>4
<1>. QED
  BY <1>2, <1>5, <1>6

(* A classic order pays from no series.                                    *)
NoSeriesPays == \A e \in Events : order'[e] # order[e] => order'[e].key = NoKey

LEMMA ClassicKeepsBudget ==
    ASSUME BudgetInv, NEW e \in Events, ClassicBuy(e) \/ RetryClassic(e)
    PROVE  BudgetInv' /\ NoSeriesPays
<1>1. TypeOK /\ Money
  BY MoneyTypes DEF BudgetInv
<1>2. /\ status[e] \in {"none", "retry_pending"} /\ UNCHANGED <<series, counted, settings>>
      /\ \E book \in Books :
            ClassicOrder(e, FirstBudget(e, Ask(book)), book, "retry_pending")
            \/ ClassicOrder(e, RetryBudget(e, Ask(book)), book, "retry_pending")
  BY DEF ClassicBuy, RetryClassic, New, Waiting
<1>3. \/ \E paid \in Nat : paid <= cash /\ Book(e, NoKey, paid)
      \/ /\ \E s \in {"retry_pending", "skipped"} : Mark(e, s)
         /\ UNCHANGED <<market, order>>
  BY <1>1, <1>2, ClassicPays
<1>4. NothingCounted /\ SettingTypes'
  BY <1>1, <1>2 DEF NothingCounted, TypeOK, settings, SettingTypes
<1>5. CASE \E paid \in Nat : paid <= cash /\ Book(e, NoKey, paid)
  <2>1. PICK paid \in Nat : paid <= cash /\ Book(e, NoKey, paid)
    BY <1>5
  <2>2. Marked /\ status'[e] = "executed"
    BY <1>1, <2>1, MarkTypes DEF Book, Statuses
  <2>3. cash' \in Nat /\ cost' \in Nat
    BY <1>1, <2>1 DEF Book, Money
  <2>4. order' = [order EXCEPT ![e] = [key |-> NoKey, cost |-> paid]]
    BY <2>1 DEF Book
  <2>5. BudgetInv'
    BY <1>2, <1>4, <2>2, <2>3, <2>4, QuietKeepsBudget
  <2>6. NoSeriesPays
    BY <1>1, <2>4 DEF NoSeriesPays, TypeOK
  <2>. QED
    BY <2>5, <2>6
<1>6. CASE /\ \E s \in {"retry_pending", "skipped"} : Mark(e, s)
           /\ UNCHANGED <<market, order>>
  <2>1. Marked
    BY <1>1, <1>2, <1>6, MarkTypes DEF Statuses
  <2>2. cash' \in Nat /\ cost' \in Nat
    BY <1>1, <1>6 DEF market, Money
  <2>. QED
    BY <1>4, <1>6, <2>1, <2>2, QuietKeepsBudget DEF NoSeriesPays
<1>. QED
  BY <1>3, <1>5, <1>6

(* Whatever makes no order.                                                *)
LEMMA OtherKeepsBudget ==
    ASSUME BudgetInv, NothingCounted, Marked, SettingTypes', UNCHANGED order,
           UNCHANGED market \/ \E kept \in 0..cost : Freed(kept)
    PROVE  BudgetInv'
<1>1. Money
  BY MoneyTypes DEF BudgetInv
<1>2. cash' \in Nat /\ cost' \in Nat
  BY <1>1 DEF Money, market, Freed
<1>. QED
  BY <1>2, QuietKeepsBudget

LEMMA NextKeepsBudget ==
    ASSUME BudgetInv, [Next]_vars
    PROVE  BudgetInv' /\ (LimitsKept \/ NoSeriesPays)
<1>0. TypeOK /\ Money
  BY MoneyTypes DEF BudgetInv
<1>1. SettingTypes /\ (UNCHANGED settings => SettingTypes')
  BY <1>0 DEF TypeOK, settings, SettingTypes
<1>2. UNCHANGED status => Marked
  BY <1>0 DEF TypeOK, Marked, Statuses
<1>3. UNCHANGED <<series, counted>> => NothingCounted
  BY DEF NothingCounted
<1>4. UNCHANGED order => NoSeriesPays
  BY DEF NoSeriesPays
<1>5. CASE UNCHANGED vars
  BY <1>1, <1>2, <1>3, <1>4, <1>5, OtherKeepsBudget DEF vars, settings
<1>6. ASSUME NEW e \in Events, RefuseBuy(e) \/ DelayBuy(e) \/ RetryLost(e)
      PROVE  BudgetInv' /\ UNCHANGED order
  <2>1. UNCHANGED <<market, series, counted, order, settings>>
    BY <1>6 DEF RefuseBuy, DelayBuy, RetryLost
  <2>2. Marked
    <3>1. status[e] # "executed" /\ \E s \in {"skipped", "retry_pending"} : Mark(e, s)
      BY <1>6 DEF RefuseBuy, DelayBuy, RetryLost, New, Waiting
    <3>. QED
      BY <1>0, <3>1, MarkTypes DEF Statuses
  <2>. QED
    BY <1>1, <1>3, <2>1, <2>2, OtherKeepsBudget
<1>7. ASSUME NEW e \in Events, SizeBuy(e) PROVE BudgetInv' /\ (LimitsKept \/ NoSeriesPays)
  BY <1>4, <1>7, SizeKeepsBudget
<1>8. ASSUME NEW e \in Events, RetrySeries(e) PROVE BudgetInv' /\ (LimitsKept \/ NoSeriesPays)
  BY <1>4, <1>8, RetryKeepsBudget
<1>9. ASSUME NEW e \in Events, ClassicBuy(e) \/ RetryClassic(e)
      PROVE  BudgetInv' /\ (LimitsKept \/ NoSeriesPays)
  BY <1>9, ClassicKeepsBudget
<1>10. ASSUME NEW e \in Events, Sell(e) PROVE BudgetInv' /\ UNCHANGED order
  <2>1. UNCHANGED <<counted, order, settings>>
    BY <1>10 DEF Sell
  <2>2. Marked
    BY <1>0, <1>10 DEF Sell, TypeOK, Marked, Statuses
  <2>3. NothingCounted
    BY <2>1, <1>10 DEF Sell, ClosedUpTo, NothingCounted
  <2>4. \E kept \in 0..cost : Freed(kept)
    BY <1>0, <1>10 DEF Sell, Money
  <2>. QED
    BY <1>1, <2>1, <2>2, <2>3, <2>4, OtherKeepsBudget
<1>11. CASE CloseOut
  <2>1. UNCHANGED <<counted, order, settings>>
    BY <1>11 DEF CloseOut
  <2>2. Marked
    BY <1>0, <1>11 DEF CloseOut, Waiting, TypeOK, Marked, Statuses
  <2>3. NothingCounted
    BY <2>1, <1>11 DEF CloseOut, NothingCounted
  <2>4. \E kept \in 0..cost : Freed(kept)
    <3>1. cost \div 2 \in 0..cost /\ 0 \in 0..cost
      BY <1>0 DEF Money
    <3>. QED
      BY <1>11, <3>1 DEF CloseOut
  <2>. QED
    BY <1>1, <1>4, <2>1, <2>2, <2>3, <2>4, OtherKeepsBudget
<1>12. CASE \/ \E m \in MaxSizes : SetMax(m)
            \/ \E m \in Modes : SetMode(m)
            \/ \E n \in Seconds : SetSeconds(n)
  <2>1. UNCHANGED <<market, status, series, counted, order>>
    BY <1>12 DEF SetMax, SetMode, SetSeconds, Change
  <2>2. SettingTypes'
    <3>1. changes' \in 0..MaxChanges
      BY <1>1, <1>12, ChoiceAssumption DEF SettingTypes, SetMax, SetMode, SetSeconds, Change
    <3>. QED
      BY <1>1, <1>12, <3>1 DEF SettingTypes, SetMax, SetMode, SetSeconds, Change
  <2>. QED
    BY <1>2, <1>3, <1>4, <2>1, <2>2, OtherKeepsBudget
<1>. QED
  BY <1>4, <1>5, <1>6, <1>7, <1>8, <1>9, <1>10, <1>11, <1>12 DEF Next

THEOREM BudgetInvariant == Spec => []BudgetInv
<1>1. Init => BudgetInv
  BY InitBudget
<1>2. BudgetInv /\ [Next]_vars => BudgetInv'
  BY NextKeepsBudget
<1>. QED
  BY <1>1, <1>2, PTL DEF Spec

(* Every row of the ledger has its type; the cash is never negative: a     *)
(* budget sets the fee of the order aside (entry_budget, calculate_own_    *)
(* buy_capacity), so apply_fill never meets a balance too small.           *)
THEOREM SeriesTypesHold == Spec => []TypeOK
<1>1. BudgetInv => TypeOK
  BY DEF BudgetInv
<1>. QED
  BY <1>1, BudgetInvariant, PTL

(* The leader's buys are counted into a series once, however often they    *)
(* are retried (_get_sizing_entry, _retry_buy).                            *)
THEOREM CountedOnceHolds == Spec => []CountedOnce
<1>1. BudgetInv => CountedOnce
  BY DEF BudgetInv
<1>. QED
  BY <1>1, BudgetInvariant, PTL

(* All orders of a series, first attempts and retries, fees included, cost *)
(* at most its frozen budget (entry_budget, execute_buy_fak_by_budget).    *)
THEOREM SeriesBudgetKeptHolds == Spec => []SeriesBudgetKept
<1>1. BudgetInv => SeriesBudgetKept
  BY DEF BudgetInv
<1>. QED
  BY <1>1, BudgetInvariant, PTL

(* An order sized from a series leaves the cash reserve and the exposure   *)
(* limit standing (_deployable_cash, exposure_room).                       *)
THEOREM LimitsHoldAlways == Spec => LimitsHold
<1> DEFINE Kept == \A e \in Events : Ordered(e) /\ order'[e].key # NoKey => LimitsKept
<1>1. BudgetInv /\ [Next]_vars => [Kept]_vars
  BY NextKeepsBudget DEF NoSeriesPays, Ordered
<1>. QED
  BY <1>1, BudgetInvariant, PTL DEF Spec, LimitsHold, LimitsKept
=============================================================================
