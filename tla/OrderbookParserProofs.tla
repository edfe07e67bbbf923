----------------------- MODULE OrderbookParserProofs -----------------------
(***************************************************************************)
(* Theorems about OrderbookParser, for payloads of any length with any     *)
(* prices, sizes and timestamps, and for any depths that are counted.      *)
(***************************************************************************)
EXTENDS OrderbookParser, FiniteSetTheorems, SequenceTheorems, TLAPS

(* The loops, as FoldTheorems has them.                                     *)
CollectRow(p, rows, levels, k) == Collect(levels, rows[k])

Rows == INSTANCE FoldTheorems WITH Step <- CollectRow, Pick <- Max

InsertLevel(side, levels, sorted, k) == Insert(side, sorted, levels[k])

Sorts == INSTANCE FoldTheorems WITH Step <- InsertLevel, Pick <- Max

PlusSize(p, top, sum, k) == Plus(sum, top[k].size)

Sums == INSTANCE FoldTheorems WITH Step <- PlusSize, Pick <- Max

AnyOf(s) == CHOOSE x \in s : TRUE

AddSize(p, levels, sum, i) == levels[i].size + sum

Totals == INSTANCE FoldTheorems WITH Step <- AddSize, Pick <- AnyOf

\* A level whose price is a number.
PricedLevel == [price : Int, size : Decimal]

(* The constants as numbers.                                                *)
LEMMA Limits ==
    /\ One \in Nat /\ MilliFrom \in Nat /\ LastSecond \in Nat
    /\ Milli \in Nat \ {0} /\ MilliFrom <= LastSecond
    /\ FirstSecond \in Int /\ FirstSecond <= 0
    /\ Far \in Nat \ {0}
<1>1. \A n \in {One, MilliFrom, Milli, LastSecond} : n \in Nat \ {0}
  BY ConstantAssumption
<1> QED
  BY <1>1, ConstantAssumption

(* The sentinels are no data and differ from each other.                    *)
LEMMA Sentinels ==
    /\ NaN \notin Int /\ NoNumber \notin Int /\ NoNumber # NaN
    /\ None \notin Int /\ Refused \notin Int /\ Refused # None
    /\ None \notin Reason
    /\ None \notin Book /\ Refused \notin Book
BY SentinelAssumption

(* A decimal is finite, infinite or NaN.                                    *)
LEMMA Decimals ==
    /\ Finite \subseteq Int /\ NaN \notin Finite /\ None \notin Finite /\ NoNumber \notin Finite
    /\ Far \notin Finite /\ -Far \notin Finite /\ Far \in Int /\ -Far \in Int
    /\ \A d \in Decimal : d \in Finite \cup {Far, -Far, NaN}
    /\ \A d \in Decimal : d # NaN => d \in Int /\ -Far <= d /\ d <= Far
<1>1. \A d \in Int : d \in Finite <=> -Far < d /\ d < Far
  BY Limits DEF Finite
<1>2. Finite \subseteq Int
  BY Limits DEF Finite
<1>3. \A d \in Decimal : d # NaN => d \in Int /\ -Far <= d /\ d <= Far
  BY Limits DEF Decimal
<1>4. \A d \in Decimal : d \in Finite \cup {Far, -Far, NaN}
  BY <1>1, <1>3, Limits
<1>5. NaN \notin Finite /\ None \notin Finite /\ NoNumber \notin Finite
  BY <1>2, Sentinels
<1>6. Far \in Int /\ -Far \in Int /\ Far \notin Finite /\ -Far \notin Finite
  BY <1>1, Limits
<1> QED
  BY <1>2, <1>3, <1>4, <1>5, <1>6

---------------------------------------------------------------------------
(* Timestamps.                                                              *)

(* The quotient is the last multiple that does not exceed the number. *)
LEMMA Division ==
    ASSUME NEW n \in Nat, NEW m \in Nat \ {0}
    PROVE  n \div m \in Nat /\ (n \div m) * m <= n /\ n < (n \div m + 1) * m
OBVIOUS

(* Products grow with their factors.                                        *)
LEMMA Products ==
    ASSUME NEW a \in Nat, NEW b \in Nat, a <= b, NEW m \in Nat \ {0}
    PROVE  a * m <= b * m /\ a <= a * m /\ a * m \in Nat /\ b * m \in Nat
OBVIOUS

(* Whole seconds are counted from below.                                    *)
LEMMA Quotient ==
    ASSUME NEW n \in Nat, NEW s \in Nat
    PROVE  /\ n \div Milli \in Nat
           /\ n \div Milli = s => s * Milli <= n /\ n < (s + 1) * Milli
           /\ n \div Milli > s <=> n >= (s + 1) * Milli
<1> DEFINE q == n \div Milli
<1>1. q \in Nat /\ q * Milli <= n /\ n < (q + 1) * Milli
  BY Division, Limits
<1> HIDE DEF q
<1>2. s + 1 \in Nat /\ q + 1 \in Nat /\ (s + 1) * Milli \in Nat
  BY <1>1, Products, Limits
<1>3. ASSUME q > s PROVE n >= (s + 1) * Milli
  <2>1. (s + 1) * Milli <= q * Milli /\ q * Milli \in Nat
    BY <1>1, <1>2, <1>3, Products, Limits
  <2> QED
    BY <1>1, <1>2, <2>1
<1>4. ASSUME n >= (s + 1) * Milli PROVE q > s
  <2>1. SUFFICES ASSUME q <= s PROVE FALSE
    BY <1>1
  <2>2. (q + 1) * Milli <= (s + 1) * Milli /\ (q + 1) * Milli \in Nat
    BY <1>1, <1>2, <2>1, Products, Limits
  <2> QED
    BY <1>1, <1>2, <1>4, <2>2
<1> QED
  BY <1>1, <1>3, <1>4 DEF q

(* A timestamp that datetime can hold is a number of seconds.               *)
LEMMA TimestampTypes ==
    ASSUME NEW time \in Time
    PROVE  /\ ExchangeTimestamp(time) \in Int \cup {None, Refused}
           /\ ExchangeTimestamp(time) = Refused <=>
                 /\ time.kind = "integer"
                 /\ time.value < FirstSecond \/ time.value >= (LastSecond + 1) * Milli
<1>1. time.value \in Int /\ time.kind \in {"integer", "iso", "text", "missing"}
  BY DEF Time
<1>2. CASE time.kind = "integer"
  <2> DEFINE n == time.value
             limit == (LastSecond + 1) * Milli
  <2>1. limit \in Nat /\ LastSecond < limit
    <3>1. LastSecond + 1 <= limit /\ limit \in Nat
      BY Products, Limits
    <3> QED
      BY <3>1, Limits
  <2>2. /\ Seconds(n) \in Int
        /\ Seconds(n) \in FirstSecond..LastSecond <=> ~ (n < FirstSecond \/ n >= limit)
    <3>1. CASE n > MilliFrom
      <4>1. n \in Nat
        BY <1>1, <3>1, Limits
      <4>2. n \div Milli \in Nat /\ (n \div Milli > LastSecond <=> n >= limit)
        BY <4>1, Limits, Quotient
      <4>3. Seconds(n) = n \div Milli
        BY <3>1 DEF Seconds
      <4> HIDE DEF n, limit
      <4> QED
        BY <2>1, <4>1, <4>2, <4>3, Limits
    <3>2. CASE ~ (n > MilliFrom)
      <4>1. Seconds(n) = n /\ n <= LastSecond
        BY <1>1, <3>2, Limits DEF Seconds
      <4> HIDE DEF limit
      <4> QED
        BY <1>1, <2>1, <4>1, Limits
    <3> QED
      BY <3>1, <3>2
  <2>3. ExchangeTimestamp(time) =
           IF Seconds(n) \in FirstSecond..LastSecond THEN Seconds(n) ELSE Refused
    BY <1>2 DEF ExchangeTimestamp
  <2> QED
    BY <1>2, <2>2, <2>3, Sentinels
<1>3. CASE time.kind = "iso"
  BY <1>1, <1>3, Sentinels DEF ExchangeTimestamp
<1>4. CASE time.kind \in {"missing", "text"}
  BY <1>1, <1>4, Sentinels DEF ExchangeTimestamp
<1> QED
  BY <1>1, <1>2, <1>3, <1>4

(* Seconds and milliseconds of an instant are the same instant.             *)
LEMMA InstantsAgree ==
    ASSUME NEW n \in Int, NEW second \in (MilliFrom \div Milli + 1)..Min({MilliFrom, LastSecond}),
           n = second \/ n \div Milli = second
    PROVE  Seconds(n) = second /\ second \in FirstSecond..LastSecond
<1>1. MilliFrom \div Milli \in Nat /\ MilliFrom < (MilliFrom \div Milli + 1) * Milli
  BY Limits, Quotient
<1>2. Min({MilliFrom, LastSecond}) = MilliFrom
  BY Limits DEF Min
<1>3. second \in Nat /\ second <= MilliFrom /\ MilliFrom \div Milli + 1 <= second
  BY <1>1, <1>2, Limits
<1>4. CASE n <= MilliFrom
  <2>1. n = second
    <3>1. SUFFICES ASSUME n \div Milli = second PROVE FALSE
      OBVIOUS
    <3>2. second * Milli <= n
      <4>1. n \in Nat
        BY <1>3, <3>1, Limits, SMTT(30)
      <4> QED
        BY <1>3, <3>1, <4>1, Quotient
    <3>3. (MilliFrom \div Milli + 1) * Milli <= second * Milli
      BY <1>1, <1>3, Limits, SMTT(30)
    <3> QED
      BY <1>1, <1>3, <1>4, <3>2, <3>3, Limits, SMTT(30)
  <2> QED
    BY <1>3, <1>4, <2>1, Limits DEF Seconds
<1>5. CASE n > MilliFrom
  BY <1>3, <1>5, Limits DEF Seconds
<1> QED
  BY <1>3, <1>4, <1>5, Limits

---------------------------------------------------------------------------
(* The levels of a side.                                                    *)

(* The loop over the rows of a side, written out.                           *)
LEMMA CollectingIsRun ==
    ASSUME NEW rows
    PROVE  Levels(rows) = Rows!Run(0, rows, <<>>, DOMAIN rows)
BY DEF Levels, FoldLeft, MapThenFoldSet, Rows!Run, CollectRow

(* A level has a price and a size, either of which may be NaN.              *)
LEMMA LevelTypes ==
    ASSUME NEW rows \in Seq(Row)
    PROVE  Levels(rows) \in Seq(Level)
<1> DEFINE J == [k \in 0..Len(rows) |-> Seq(Level)]
<1>1. Len(rows) \in Nat /\ DOMAIN rows = 1..Len(rows)
  BY LenProperties
<1>2. <<>> \in J[0] /\ J[Len(rows)] = Seq(Level)
  BY <1>1, EmptySeq
<1>3. ASSUME NEW k \in 1..Len(rows), NEW a \in J[k - 1] PROVE CollectRow(0, rows, a, k) \in J[k]
  <2>1. a \in Seq(Level) /\ J[k] = Seq(Level)
    BY <1>1, <1>3
  <2>2. rows[k] \in Row
    BY <1>1, ElementOfSeq
  <2>3. NoNumber \notin {rows[k].price, rows[k].size} => rows[k] \in Level
    BY <2>2 DEF Row, Level
  <2>4. Collect(a, rows[k]) \in Seq(Level)
    BY <2>1, <2>3, AppendProperties DEF Collect
  <2> QED
    BY <2>1, <2>4 DEF CollectRow
<1> HIDE DEF J
<1>4. Rows!Run(0, rows, <<>>, 1..Len(rows)) \in J[Len(rows)]
  BY <1>1, <1>2, <1>3, Rows!LoopInvariant DEF Max, Rows!Max
<1> QED
  BY <1>1, <1>2, <1>4, CollectingIsRun

(* A side without a NaN has a number for a price at every level.            *)
LEMMA PricesAreNumbers ==
    ASSUME NEW levels \in Seq(Level), NaN \notin Prices(levels)
    PROVE  levels \in Seq(PricedLevel)
<1>1. Len(levels) \in Nat /\ levels \in [1..Len(levels) -> Level] /\ DOMAIN levels = 1..Len(levels)
  BY LenProperties
<1>2. \A i \in 1..Len(levels) : levels[i] \in PricedLevel
  BY <1>1, Decimals DEF Prices, Level, PricedLevel
<1> QED
  BY <1>1, <1>2

(* Of the first k levels one has a price that none of them is better than.  *)
LEMMA BestExists ==
    ASSUME NEW side, NEW levels \in Seq(PricedLevel), levels # <<>>
    PROVE  /\ Best(side, levels) \in Prices(levels)
           /\ \A q \in Prices(levels) : ~ Better(side, q, Best(side, levels))
<1> DEFINE n == Len(levels)
           IsBest(i, k) == \A j \in 1..k : ~ Better(side, levels[j].price, levels[i].price)
           S == {k \in Nat : k + 1 <= n => \E i \in 1..k + 1 : IsBest(i, k + 1)}
<1>1. n \in Nat \ {0} /\ DOMAIN levels = 1..n /\ \A i \in 1..n : levels[i].price \in Int
  <2>1. n \in Nat /\ DOMAIN levels = 1..n /\ \A i \in 1..n : levels[i] \in PricedLevel
    BY LenProperties
  <2>2. n # 0
    BY EmptySeq
  <2> QED
    BY <2>1, <2>2 DEF PricedLevel
<1> HIDE DEF n
<1>2. 0 \in S
  BY <1>1 DEF Better
<1>3. ASSUME NEW k \in Nat, k \in S PROVE k + 1 \in S
  <2>1. SUFFICES ASSUME k + 2 <= n PROVE \E i \in 1..k + 2 : IsBest(i, k + 2)
    OBVIOUS
  <2>2. PICK i \in 1..k + 1 : IsBest(i, k + 1)
    BY <1>1, <1>3, <2>1
  <2>3. /\ i \in 1..n /\ k + 2 \in 1..n
        /\ levels[i].price \in Int /\ levels[k + 2].price \in Int
        /\ 1..k + 2 = (1..k + 1) \cup {k + 2}
    BY <1>1, <2>1
  <2>4. CASE Better(side, levels[k + 2].price, levels[i].price)
    <3>1. \A j \in 1..k + 1 : ~ Better(side, levels[j].price, levels[k + 2].price)
      <4>1. TAKE j \in 1..k + 1
      <4>2. levels[j].price \in Int
        BY <1>1, <2>1
      <4> QED
        BY <2>2, <2>3, <2>4, <4>2 DEF Better
    <3>2. IsBest(k + 2, k + 2)
      BY <2>3, <3>1 DEF Better
    <3> QED
      BY <2>3, <3>2
  <2>5. CASE ~ Better(side, levels[k + 2].price, levels[i].price)
    <3>1. IsBest(i, k + 2)
      BY <2>2, <2>3, <2>5
    <3> QED
      BY <2>3, <3>1
  <2> QED
    BY <2>4, <2>5
<1>4. n - 1 \in S
  <2> HIDE DEF S
  <2>1. Nat \subseteq S
    BY <1>2, <1>3, Rows!NatSetInduction
  <2> QED
    BY <1>1, <2>1
<1>5. PICK i \in 1..n : IsBest(i, n)
  BY <1>1, <1>4
<1>6. levels[i].price \in Prices(levels) /\ \A q \in Prices(levels) : ~ Better(side, q, levels[i].price)
  BY <1>1, <1>5 DEF Prices
<1>7. \E p \in Prices(levels) : \A q \in Prices(levels) : ~ Better(side, q, p)
  BY <1>6
<1> QED
  BY <1>7 DEF Best

(* The best bid is the highest and the best ask the lowest.                 *)
LEMMA BestPrices ==
    ASSUME NEW levels \in Seq(PricedLevel)
    PROVE  /\ Prices(levels) \subseteq Int
           /\ levels = <<>> <=> Prices(levels) = {}
           /\ levels = <<>> => \A side : Best(side, levels) = None
           /\ levels # <<>> =>
                 /\ \A side : Best(side, levels) \in Prices(levels)
                 /\ \A p \in Prices(levels) : p <= Best("bids", levels) /\ Best("asks", levels) <= p
<1>1. /\ Len(levels) \in Nat /\ DOMAIN levels = 1..Len(levels)
      /\ \A i \in 1..Len(levels) : levels[i] \in PricedLevel
  BY LenProperties
<1>2. Prices(levels) \subseteq Int
  BY <1>1 DEF Prices, PricedLevel
<1>3. levels = <<>> <=> Prices(levels) = {}
  <2>1. levels = <<>> <=> Len(levels) = 0
    BY EmptySeq
  <2>2. Len(levels) = 0 <=> 1..Len(levels) = {}
    <3>1. Len(levels) # 0 => 1 \in 1..Len(levels)
      BY <1>1
    <3>2. 1..0 = {}
      OBVIOUS
    <3> QED
      BY <3>1, <3>2
  <2> QED
    BY <1>1, <2>1, <2>2 DEF Prices
<1>4. ASSUME levels # <<>>
      PROVE  /\ \A side : Best(side, levels) \in Prices(levels)
             /\ \A p \in Prices(levels) : p <= Best("bids", levels) /\ Best("asks", levels) <= p
  <2>1. \A side : /\ Best(side, levels) \in Prices(levels)
                  /\ \A q \in Prices(levels) : ~ Better(side, q, Best(side, levels))
    BY <1>4, BestExists
  <2>2. Best("bids", levels) \in Int /\ Best("asks", levels) \in Int
    BY <1>2, <2>1
  <2>3. \A p \in Prices(levels) :
           p \in Int /\ ~ (p > Best("bids", levels)) /\ ~ (p < Best("asks", levels))
    BY <1>2, <2>1 DEF Better
  <2> QED
    BY <2>1, <2>2, <2>3
<1> QED
  BY <1>2, <1>3, <1>4 DEF Best

\* One infinite price is the best one, or all prices are infinitely bad.
InfinitelyPriced(side, levels) ==
    IF side = "bids" THEN Far \in Prices(levels) \/ Prices(levels) = {-Far}
                     ELSE -Far \in Prices(levels) \/ Prices(levels) = {Far}

(* Such a side has no finite best price, and no other side is without one.  *)
LEMMA InfiniteBest ==
    ASSUME NEW side \in {"bids", "asks"}, NEW levels \in Seq(Level), NaN \notin Prices(levels)
    PROVE  Best(side, levels) \in Finite \cup {None} <=> ~ InfinitelyPriced(side, levels)
<1> DEFINE P == Prices(levels)
           best == Best(side, levels)
<1>1. levels \in Seq(PricedLevel)
  BY PricesAreNumbers
<1>2. \A p \in P : p \in Decimal /\ p # NaN
  <2>1. /\ DOMAIN levels = 1..Len(levels)
        /\ \A i \in 1..Len(levels) : levels[i] \in Level
    BY LenProperties
  <2> QED
    BY <2>1 DEF Prices, Level
<1>3. \A p \in P : p \in Int /\ -Far <= p /\ p <= Far
  BY <1>2, Decimals
<1>4. \A p \in P : p \in Finite \/ p = Far \/ p = -Far
  BY <1>2, Decimals
<1>5. /\ levels = <<>> <=> P = {}
      /\ levels = <<>> => best = None
      /\ levels # <<>> => best \in P
      /\ levels # <<>> /\ side = "bids" => \A p \in P : p <= best
      /\ levels # <<>> /\ side = "asks" => \A p \in P : best <= p
  BY <1>1, BestPrices
<1> HIDE DEF P, best
<1>6. CASE levels = <<>>
  BY <1>5, <1>6 DEF InfinitelyPriced, P, best
<1>7. CASE levels # <<>> /\ side = "bids"
  <2>1. best = Far <=> Far \in P
    BY <1>3, <1>5, <1>7, Limits
  <2>2. best = -Far <=> P = {-Far}
    BY <1>3, <1>5, <1>7, Limits
  <2>3. best \in Finite \cup {None} <=> ~ (best = Far \/ best = -Far)
    BY <1>4, <1>5, <1>7, Decimals, Sentinels
  <2> QED
    BY <1>7, <2>1, <2>2, <2>3 DEF InfinitelyPriced, P, best
<1>8. CASE levels # <<>> /\ side = "asks"
  <2>1. best = -Far <=> -Far \in P
    BY <1>3, <1>5, <1>8, Limits
  <2>2. best = Far <=> P = {Far}
    BY <1>3, <1>5, <1>8, Limits
  <2>3. best \in Finite \cup {None} <=> ~ (best = Far \/ best = -Far)
    BY <1>4, <1>5, <1>8, Decimals, Sentinels
  <2> QED
    BY <1>8, <2>1, <2>2, <2>3 DEF InfinitelyPriced, P, best
<1> QED
  BY <1>6, <1>7, <1>8

(* The reason of a book, from all its prices.                               *)
LEMMA ReasonOfPrices ==
    ASSUME NEW bids \in Seq(PricedLevel), NEW asks \in Seq(PricedLevel)
    PROVE  LET reason == InvalidReason(bids, asks, Best("bids", bids), Best("asks", asks))
               crossed == \E b \in Prices(bids), a \in Prices(asks) : b > a
           IN  /\ reason \in Reason \cup {None}
               /\ reason = None <=>
                     \E b \in Prices(bids), a \in Prices(asks) : b > 0 /\ a < One /\ ~ crossed
               /\ reason = "missing_bids" <=> Prices(bids) = {}
               /\ reason = "missing_asks" <=> Prices(asks) = {} /\ Prices(bids) # {}
               /\ reason = "crossed_orderbook" <=> crossed
               /\ reason = "best_bid_not_positive" =>
                     \A b \in Prices(bids) : b <= 0 /\ \A a \in Prices(asks) : b <= a
               /\ reason = "best_ask_not_below_one" => \A a \in Prices(asks) : a >= One
               /\ reason \notin {"missing_best_prices", "negative_spread"}
<1> DEFINE B == Prices(bids)
           A == Prices(asks)
           bid == Best("bids", bids)
           ask == Best("asks", asks)
           reason == InvalidReason(bids, asks, bid, ask)
           crossed == \E b \in B, a \in A : b > a
<1>1. /\ B \subseteq Int /\ A \subseteq Int
      /\ bids = <<>> <=> B = {}
      /\ asks = <<>> <=> A = {}
      /\ bids # <<>> => bid \in B /\ \A p \in B : p <= bid
      /\ asks # <<>> => ask \in A /\ \A p \in A : ask <= p
  BY BestPrices
<1>2. One \in Int /\ None \notin Int /\ None \notin Reason
  BY Limits, Sentinels
<1>3. reason = IF bids = <<>> THEN "missing_bids"
               ELSE IF asks = <<>> THEN "missing_asks"
               ELSE IF None \in {bid, ask} THEN "missing_best_prices"
               ELSE IF bid > ask THEN "crossed_orderbook"
               ELSE IF ask - bid < 0 THEN "negative_spread"
               ELSE IF bid <= 0 THEN "best_bid_not_positive"
               ELSE IF ask >= One THEN "best_ask_not_below_one"
               ELSE None
  BY DEF InvalidReason
<1> HIDE DEF B, A, bid, ask, reason
<1>4. CASE bids = <<>> \/ asks = <<>>
  <2>1. reason = (IF bids = <<>> THEN "missing_bids" ELSE "missing_asks") /\ ~ crossed
    BY <1>1, <1>3, <1>4
  <2>2. reason \in Reason /\ reason # None
    BY <1>2, <2>1 DEF Reason
  <2> QED
    BY <1>1, <1>4, <2>1, <2>2 DEF B, A, bid, ask, reason
<1>5. CASE bids # <<>> /\ asks # <<>>
  <2>1. bid \in Int /\ ask \in Int /\ bid # None /\ ask # None
    BY <1>1, <1>2, <1>5
  <2>2. crossed <=> bid > ask
    BY <1>1, <1>5, <2>1
  <2>3. bid > ask \/ ~ (ask - bid < 0)
    BY <2>1
  <2>4. reason = IF bid > ask THEN "crossed_orderbook"
                 ELSE IF bid <= 0 THEN "best_bid_not_positive"
                 ELSE IF ask >= One THEN "best_ask_not_below_one"
                 ELSE None
    BY <1>3, <1>5, <2>1, <2>3
  <2>5. /\ bid <= 0 <=> ~ \E b \in B : b > 0
        /\ ask >= One <=> ~ \E a \in A : a < One
        /\ ask >= One => \A a \in A : a >= One
        /\ bid <= 0 => \A b \in B : b <= 0
        /\ ~ (bid > ask) => \A b \in B, a \in A : b <= a
    BY <1>1, <1>2, <1>5, <2>1
  <2>6. reason = None <=> ~ (bid > ask) /\ ~ (bid <= 0) /\ ~ (ask >= One)
    BY <1>2, <2>4 DEF Reason
  <2>7. reason = None <=> \E b \in B, a \in A : b > 0 /\ a < One /\ ~ crossed
    BY <2>2, <2>5, <2>6
  <2>8. /\ reason \in Reason \cup {None}
        /\ reason = "crossed_orderbook" <=> bid > ask
        /\ reason = "best_bid_not_positive" => bid <= 0 /\ ~ (bid > ask)
        /\ reason = "best_ask_not_below_one" => ask >= One
        /\ reason \notin {"missing_bids", "missing_asks", "missing_best_prices", "negative_spread"}
    BY <1>2, <2>4 DEF Reason
  <2> QED
    BY <1>1, <1>5, <2>2, <2>5, <2>7, <2>8 DEF B, A, bid, ask, reason
<1> QED
  BY <1>4, <1>5

---------------------------------------------------------------------------
(* The sort.                                                                *)

(* What stands where after an insertion.                                    *)
LEMMA Inserted ==
    ASSUME NEW S, NEW list \in Seq(S), NEW i \in 1..Len(list) + 1, NEW e \in S
    PROVE  /\ InsertAt(list, i, e) \in Seq(S)
           /\ Len(InsertAt(list, i, e)) = Len(list) + 1
           /\ \A x \in 1..Len(list) + 1 :
                 InsertAt(list, i, e)[x] =
                    IF x < i THEN list[x] ELSE IF x = i THEN e ELSE list[x - 1]
<1> DEFINE k == Len(list)
           left == SubSeq(list, 1, i - 1)
           right == SubSeq(list, i, k)
           most == left \o <<e>>
<1>1. k \in Nat /\ \A x \in 1..k : list[x] \in S
  BY LenProperties, ElementOfSeq
<1> HIDE DEF k
<1>2. i \in 1..k + 1 /\ i \in Int /\ i - 1 \in Nat
  BY <1>1 DEF k
<1>3. left \in Seq(S) /\ Len(left) = i - 1 /\ \A x \in 1..i - 1 : left[x] = list[x]
  <2>1. \A x \in 1..i - 1 : list[x] \in S
    BY <1>1, <1>2
  <2>2. /\ left \in Seq(S)
        /\ Len(left) = IF 1 <= i - 1 THEN i - 1 - 1 + 1 ELSE 0
        /\ \A x \in 1..i - 1 - 1 + 1 : left[x] = list[1 + x - 1]
    BY <1>2, <2>1, SubSeqProperties
  <2>3. (\A x \in Int : 1 + x - 1 = x) /\ i - 1 - 1 + 1 = i - 1
    BY <1>2
  <2> QED
    BY <1>2, <2>2, <2>3
<1>4. /\ right \in Seq(S) /\ Len(right) = k - i + 1
      /\ \A x \in 1..k - i + 1 : right[x] = list[i + x - 1]
  <2>1. \A x \in i..k : list[x] \in S
    BY <1>1, <1>2
  <2>2. /\ right \in Seq(S)
        /\ Len(right) = IF i <= k THEN k - i + 1 ELSE 0
        /\ \A x \in 1..k - i + 1 : right[x] = list[i + x - 1]
    BY <1>1, <1>2, <2>1, SubSeqProperties
  <2> QED
    BY <1>1, <1>2, <2>2
<1> HIDE DEF left, right
<1>5. /\ most \in Seq(S) /\ Len(most) = i
      /\ \A x \in 1..i : most[x] = IF x < i THEN list[x] ELSE e
  <2>1. <<e>> \in Seq(S) /\ Len(<<e>>) = 1 /\ <<e>>[1] = e
    OBVIOUS
  <2>2. /\ most \in Seq(S) /\ Len(most) = Len(left) + 1
        /\ \A x \in 1..Len(left) + 1 :
              most[x] = IF x <= Len(left) THEN left[x] ELSE <<e>>[x - Len(left)]
    BY <1>3, <2>1, ConcatProperties
  <2>3. i - (i - 1) = 1 /\ i - 1 + 1 = i
    BY <1>2
  <2>4. ASSUME NEW x \in 1..i PROVE most[x] = IF x < i THEN list[x] ELSE e
    <3>1. CASE x < i
      BY <1>2, <1>3, <2>2, <3>1
    <3>2. CASE x = i
      BY <1>2, <1>3, <2>1, <2>2, <2>3, <3>2
    <3>3. x < i \/ x = i
      BY <1>2
    <3> QED
      BY <3>1, <3>2, <3>3
  <2> QED
    BY <1>2, <1>3, <2>2, <2>3, <2>4
<1> HIDE DEF most
<1>6. /\ most \o right \in Seq(S) /\ Len(most \o right) = k + 1
      /\ \A x \in 1..k + 1 : (most \o right)[x] = IF x <= i THEN most[x] ELSE right[x - i]
  <2>1. /\ most \o right \in Seq(S) /\ Len(most \o right) = Len(most) + Len(right)
        /\ \A x \in 1..Len(most) + Len(right) :
              (most \o right)[x] = IF x <= Len(most) THEN most[x] ELSE right[x - Len(most)]
    BY <1>4, <1>5, ConcatProperties
  <2>2. Len(most) + Len(right) = k + 1
    BY <1>1, <1>2, <1>4, <1>5
  <2> QED
    BY <1>5, <2>1, <2>2
<1>7. InsertAt(list, i, e) = most \o right
  BY DEF InsertAt, most, left, right, k
<1>8. ASSUME NEW x \in 1..k + 1
      PROVE  (most \o right)[x] = IF x < i THEN list[x] ELSE IF x = i THEN e ELSE list[x - 1]
  <2>1. CASE x <= i
    BY <1>2, <1>5, <1>6, <2>1
  <2>2. CASE ~ (x <= i)
    <3>1. x - i \in 1..k - i + 1 /\ i + (x - i) - 1 = x - 1 /\ ~ (x < i) /\ x # i
      BY <1>1, <1>2, <2>2
    <3> QED
      BY <1>4, <1>6, <2>2, <3>1
  <2> QED
    BY <2>1, <2>2
<1> QED
  BY <1>6, <1>7, <1>8 DEF k

(* A set of positions without gaps is a prefix.                             *)
LEMMA PrefixOfPositions ==
    ASSUME NEW k \in Nat, NEW S \in SUBSET (1..k), \A y \in S : \A x \in 1..y : x \in S
    PROVE  Cardinality(S) \in 0..k /\ S = 1..Cardinality(S)
<1>1. CASE S = {}
  <2>1. Cardinality(S) = 0 /\ 1..0 = {}
    BY <1>1, FS_EmptySet
  <2> QED
    BY <1>1, <2>1
<1>2. CASE S # {}
  <2>1. PICK m \in S : \A x \in S : x <= m
    <3>1. \A x \in S : x \in Nat /\ x <= k
      OBVIOUS
    <3> QED
      BY <1>2, <3>1, Rows!MaxIsGreatest
  <2>2. m \in 1..k /\ S = 1..m
    <3>1. \A x \in S : x \in 1..m
      BY <2>1
    <3>2. \A x \in 1..m : x \in S
      BY <2>1
    <3>3. S = 1..m
      BY <3>1, <3>2, Zenon
    <3> QED
      BY <2>1, <3>3
  <2>3. Cardinality(1..m) = m
    BY <2>2, FS_Interval
  <2> QED
    BY <2>2, <2>3
<1> QED
  BY <1>1, <1>2

\* The i-th level goes before the j-th.
Precedes(side, levels, i, j) ==
    \/ Better(side, levels[i].price, levels[j].price)
    \/ levels[i].price = levels[j].price /\ i < j

\* sorted holds the first k levels, in the order that order gives them.
SortedBy(side, levels, sorted, order, k) ==
    /\ sorted \in Seq(PricedLevel) /\ Len(sorted) = k
    /\ order \in [1..k -> 1..k]
    /\ \A i \in 1..k : \E x \in 1..k : order[x] = i
    /\ \A x \in 1..k : sorted[x] = levels[order[x]]
    /\ \A y \in 1..k : \A x \in 1..y - 1 : Precedes(side, levels, order[x], order[y])

(* The next level is inserted behind those that are not worse.              *)
LEMMA InsertSorts ==
    ASSUME NEW side, NEW levels \in Seq(PricedLevel), NEW k \in Nat, k + 1 <= Len(levels),
           NEW sorted, NEW order, SortedBy(side, levels, sorted, order, k)
    PROVE  \E more : SortedBy(side, levels, Insert(side, sorted, levels[k + 1]), more, k + 1)
<1> DEFINE new == levels[k + 1]
           ahead == {x \in DOMAIN sorted : ~ Better(side, new.price, sorted[x].price)}
           c == Cardinality(ahead)
           more == [x \in 1..k + 1 |-> IF x <= c THEN order[x]
                                       ELSE IF x = c + 1 THEN k + 1 ELSE order[x - 1]]
           placed == Insert(side, sorted, new)
<1>1. /\ Len(levels) \in Nat
      /\ \A i \in 1..k + 1 : levels[i] \in PricedLevel /\ levels[i].price \in Int
  <2>1. Len(levels) \in Nat /\ \A i \in 1..Len(levels) : levels[i] \in PricedLevel
    BY LenProperties
  <2> QED
    BY <2>1 DEF PricedLevel
<1>2. /\ sorted \in Seq(PricedLevel) /\ Len(sorted) = k /\ DOMAIN sorted = 1..k
      /\ \A x \in 1..k : order[x] \in 1..k /\ sorted[x] = levels[order[x]]
      /\ \A i \in 1..k : \E x \in 1..k : order[x] = i
      /\ \A y \in 1..k : \A x \in 1..y - 1 : Precedes(side, levels, order[x], order[y])
  BY LenProperties DEF SortedBy
<1>0. \A x \in 1..k : order[x] \in 1..k + 1 /\ levels[order[x]].price \in Int
  <2>1. TAKE x \in 1..k
  <2>2. order[x] \in 1..k
    BY <1>2
  <2>3. order[x] \in 1..k + 1
    BY <2>2
  <2> QED
    BY <1>1, <2>3
<1>3. new \in PricedLevel /\ new.price \in Int
  BY <1>1
<1>4. \A x \in 1..k : x \in ahead <=> ~ Better(side, new.price, levels[order[x]].price)
  BY <1>2
<1>5. ahead \in SUBSET (1..k)
  BY <1>2
<1> HIDE DEF new, ahead
<1>6. \A y \in ahead : \A x \in 1..y : x \in ahead
  <2>1. SUFFICES ASSUME NEW y \in ahead, NEW x \in 1..y, x # y PROVE x \in ahead
    OBVIOUS
  <2>2. x \in 1..k /\ y \in 1..k /\ x \in 1..y - 1
    BY <1>5, <2>1
  <2>3. Precedes(side, levels, order[x], order[y]) /\ ~ Better(side, new.price, levels[order[y]].price)
    BY <1>2, <1>4, <2>1, <2>2
  <2>4. levels[order[x]].price \in Int /\ levels[order[y]].price \in Int
    BY <1>0, <2>2
  <2>5. ~ Better(side, new.price, levels[order[x]].price)
    BY <1>3, <2>3, <2>4 DEF Better, Precedes
  <2> QED
    BY <1>4, <2>2, <2>5
<1>7. c \in 0..k /\ ahead = 1..c
  BY <1>5, <1>6, PrefixOfPositions
<1> HIDE DEF c
<1>8. /\ placed \in Seq(PricedLevel) /\ Len(placed) = k + 1
      /\ \A x \in 1..k + 1 :
            placed[x] = IF x < c + 1 THEN sorted[x] ELSE IF x = c + 1 THEN new ELSE sorted[x - 1]
  <2>1. placed = InsertAt(sorted, c + 1, new)
    BY DEF Insert, ahead, c, new
  <2>2. c + 1 \in 1..Len(sorted) + 1
    BY <1>2, <1>7
  <2>3. /\ InsertAt(sorted, c + 1, new) \in Seq(PricedLevel)
        /\ Len(InsertAt(sorted, c + 1, new)) = Len(sorted) + 1
        /\ \A x \in 1..Len(sorted) + 1 :
              InsertAt(sorted, c + 1, new)[x] =
                 IF x < c + 1 THEN sorted[x] ELSE IF x = c + 1 THEN new ELSE sorted[x - 1]
    <3>1. sorted \in Seq(PricedLevel) /\ new \in PricedLevel
      BY <1>2, <1>3
    <3>2. \A i \in 1..Len(sorted) + 1 :
             /\ InsertAt(sorted, i, new) \in Seq(PricedLevel)
             /\ Len(InsertAt(sorted, i, new)) = Len(sorted) + 1
             /\ \A x \in 1..Len(sorted) + 1 :
                   InsertAt(sorted, i, new)[x] =
                      IF x < i THEN sorted[x] ELSE IF x = i THEN new ELSE sorted[x - 1]
      <4>1. TAKE i \in 1..Len(sorted) + 1
      <4>2. InsertAt(sorted, i, new) \in Seq(PricedLevel) /\ Len(InsertAt(sorted, i, new)) = Len(sorted) + 1
        BY ONLY <3>1, i \in 1..Len(sorted) + 1, Inserted
      <4>3. \A x \in 1..Len(sorted) + 1 :
                   InsertAt(sorted, i, new)[x] =
                      IF x < i THEN sorted[x] ELSE IF x = i THEN new ELSE sorted[x - 1]
        BY ONLY <3>1, i \in 1..Len(sorted) + 1, Inserted
      <4> QED
        BY ONLY <4>2, <4>3
    <3> QED
      BY ONLY <2>2, <3>2, Zenon
  <2> HIDE DEF placed
  <2> QED
    BY <1>2, <2>1, <2>3
<1> HIDE DEF placed
<1>9. \A x \in 1..k + 1 :
         /\ x <= c => x \in 1..k /\ more[x] = order[x] /\ placed[x] = sorted[x]
         /\ x = c + 1 => more[x] = k + 1 /\ placed[x] = new
         /\ x > c + 1 => x - 1 \in 1..k /\ more[x] = order[x - 1] /\ placed[x] = sorted[x - 1]
         /\ x <= c \/ x = c + 1 \/ x > c + 1
  BY <1>7, <1>8
<1>10. more \in [1..k + 1 -> 1..k + 1]
  <2>1. ASSUME NEW x \in 1..k + 1 PROVE more[x] \in 1..k + 1
    <3>1. CASE x <= c
      BY <1>0, <1>9, <3>1
    <3>2. CASE x = c + 1
      BY <1>9, <3>2
    <3>3. CASE x > c + 1
      BY <1>0, <1>9, <3>3
    <3> QED
      BY <1>9, <3>1, <3>2, <3>3
  <2> QED
    BY <2>1
<1> HIDE DEF more
<1>11. ASSUME NEW i \in 1..k + 1 PROVE \E x \in 1..k + 1 : more[x] = i
  <2>1. CASE i = k + 1
    BY <1>7, <1>9, <2>1
  <2>2. CASE i # k + 1
    <3>0. i \in 1..k
      BY <2>2
    <3>1. PICK x \in 1..k : order[x] = i
      BY <1>2, <3>0
    <3>2. CASE x <= c
      BY <1>7, <1>9, <3>1, <3>2
    <3>3. CASE x > c
      <4>1. x + 1 \in 1..k + 1 /\ x + 1 > c + 1 /\ (x + 1) - 1 = x
        BY <1>7, <3>3
      <4>2. more[x + 1] = order[x]
        BY <1>9, <4>1
      <4> QED
        BY <3>1, <4>1, <4>2
    <3> QED
      BY <1>7, <3>2, <3>3
  <2> QED
    BY <2>1, <2>2
<1>12. ASSUME NEW x \in 1..k + 1 PROVE placed[x] = levels[more[x]]
  <2>1. CASE x <= c
    BY <1>2, <1>9, <2>1
  <2>2. CASE x = c + 1
    BY <1>9, <2>2 DEF new
  <2>3. CASE x > c + 1
    <3>1. x - 1 \in 1..k /\ more[x] = order[x - 1] /\ placed[x] = sorted[x - 1]
      BY <1>9, <2>3
    <3>2. sorted[x - 1] = levels[order[x - 1]]
      BY <1>2, <3>1
    <3> QED
      BY <3>1, <3>2
  <2> QED
    BY <1>9, <2>1, <2>2, <2>3
<1>13. \A x \in 1..k : IF x <= c THEN Precedes(side, levels, order[x], k + 1)
                                 ELSE Precedes(side, levels, k + 1, order[x])
  <2>1. TAKE x \in 1..k
  <2>2. x <= c <=> ~ Better(side, new.price, levels[order[x]].price)
    <3>1. x \in ahead <=> x <= c
      BY <1>7
    <3> QED
      BY <1>4, <3>1
  <2>3. order[x] \in 1..k /\ levels[order[x]].price \in Int
    BY <1>0, <1>2
  <2> QED
    BY <1>3, <2>2, <2>3 DEF Better, Precedes, new
<1>14. ASSUME NEW y \in 1..k + 1, NEW x \in 1..y - 1
       PROVE  Precedes(side, levels, more[x], more[y])
  <2>1. x \in 1..k + 1 /\ x < y /\ x \in 1..k
    OBVIOUS
  <2>2. CASE y <= c
    <3>1. x <= c /\ y \in 1..k
      BY <1>7, <2>1, <2>2
    <3> QED
      BY <1>2, <1>9, <2>1, <2>2, <3>1
  <2>3. CASE y = c + 1
    <3>1. x <= c
      BY <1>7, <2>1, <2>3
    <3> QED
      BY <1>9, <1>13, <2>1, <2>3, <3>1
  <2>4. CASE y > c + 1 /\ x <= c
    <3>1. y - 1 \in 1..k /\ x \in 1..(y - 1) - 1
      BY <1>7, <2>1, <2>4
    <3> QED
      BY <1>2, <1>9, <2>1, <2>4, <3>1
  <2>5. CASE y > c + 1 /\ x = c + 1
    <3>1. y - 1 \in 1..k /\ ~ (y - 1 <= c)
      BY <1>7, <2>1, <2>5
    <3> QED
      BY <1>9, <1>13, <2>1, <2>5, <3>1
  <2>6. CASE y > c + 1 /\ x > c + 1
    <3>1. y - 1 \in 1..k /\ x - 1 \in 1..(y - 1) - 1
      BY <1>7, <2>1, <2>6
    <3> QED
      BY <1>2, <1>9, <2>1, <2>6, <3>1
  <2> QED
    BY <1>9, <2>1, <2>2, <2>3, <2>4, <2>5, <2>6
<1>15. SortedBy(side, levels, placed, more, k + 1)
  BY <1>8, <1>10, <1>11, <1>12, <1>14 DEF SortedBy
<1> QED
  BY <1>15 DEF placed, new

(* The loop that sorts, written out.                                        *)
LEMMA SortingIsRun ==
    ASSUME NEW side, NEW levels
    PROVE  Top(side, levels) = Sorts!Run(side, levels, <<>>, DOMAIN levels)
BY DEF Top, FoldLeft, MapThenFoldSet, Sorts!Run, InsertLevel

(* All levels are sorted when the loop ends.                                *)
LEMMA TopIsSorted ==
    ASSUME NEW side, NEW levels \in Seq(PricedLevel)
    PROVE  /\ Top(side, levels) \in Seq(PricedLevel) /\ Len(Top(side, levels)) = Len(levels)
           /\ \E order : SortedBy(side, levels, Top(side, levels), order, Len(levels))
<1> DEFINE n == Len(levels)
           Sorted(k) == {sorted \in Seq(PricedLevel) :
                            \E order : SortedBy(side, levels, sorted, order, k)}
           J == [k \in 0..n |-> Sorted(k)]
<1>1. n \in Nat /\ DOMAIN levels = 1..n
  BY LenProperties
<1>2. <<>> \in J[0]
  <2> DEFINE order == [x \in 1..0 |-> x]
  <2>1. <<>> \in Seq(PricedLevel) /\ Len(<<>>) = 0 /\ 1..0 = {}
    BY EmptySeq
  <2>2. order \in [1..0 -> 1..0]
    OBVIOUS
  <2> HIDE DEF order
  <2>3. SortedBy(side, levels, <<>>, order, 0)
    BY <2>1, <2>2 DEF SortedBy
  <2>4. 0 \in 0..n
    BY <1>1
  <2> QED
    BY <2>1, <2>3, <2>4
<1>3. ASSUME NEW k \in 1..n, NEW a \in J[k - 1] PROVE InsertLevel(side, levels, a, k) \in J[k]
  <2>1. k - 1 \in Nat /\ k - 1 \in 0..n /\ (k - 1) + 1 = k /\ k \in 0..n
    BY <1>1
  <2>2. PICK order : SortedBy(side, levels, a, order, k - 1)
    BY <1>3, <2>1
  <2> DEFINE b == Insert(side, a, levels[(k - 1) + 1])
  <2>3. \E more : SortedBy(side, levels, b, more, (k - 1) + 1)
    BY <1>1, <2>1, <2>2, InsertSorts
  <2>4. PICK more : SortedBy(side, levels, b, more, k)
    BY <2>1, <2>3
  <2>5. b = InsertLevel(side, levels, a, k)
    BY <2>1 DEF InsertLevel
  <2> HIDE DEF b
  <2>6. b \in Seq(PricedLevel)
    BY <2>4 DEF SortedBy
  <2> QED
    BY <2>1, <2>4, <2>5, <2>6
<1>4. J[n] = Sorted(n)
  BY <1>1
<1> HIDE DEF J, n
<1>5. Sorts!Run(side, levels, <<>>, 1..n) \in J[n]
  BY <1>1, <1>2, <1>3, Sorts!LoopInvariant DEF Max, Sorts!Max
<1>6. Top(side, levels) \in Sorted(n)
  BY <1>1, <1>4, <1>5, SortingIsRun
<1> QED
  BY <1>6 DEF n, SortedBy

(* A level has as many levels ahead of it as go before it when sorted.      *)
LEMMA RanksOfLevels ==
    ASSUME NEW side, NEW levels \in Seq(PricedLevel), NEW sorted, NEW order,
           SortedBy(side, levels, sorted, order, Len(levels))
    PROVE  /\ \A x, y \in 1..Len(levels) : order[x] = order[y] => x = y
           /\ \A x \in 1..Len(levels) : Cardinality(Ahead(side, levels, order[x])) = x - 1
<1> DEFINE n == Len(levels)
<1>1. n \in Nat /\ DOMAIN levels = 1..n /\ \A i \in 1..n : levels[i].price \in Int
  <2>1. n \in Nat /\ DOMAIN levels = 1..n /\ \A i \in 1..n : levels[i] \in PricedLevel
    BY LenProperties
  <2> QED
    BY <2>1 DEF PricedLevel
<1> HIDE DEF n
<1>2. /\ \A x \in 1..n : order[x] \in 1..n
      /\ \A i \in 1..n : \E x \in 1..n : order[x] = i
      /\ \A y \in 1..n : \A x \in 1..y - 1 : Precedes(side, levels, order[x], order[y])
  BY DEF SortedBy, n
<1>3. \A i, j \in 1..n : Precedes(side, levels, i, j) => i # j /\ ~ Precedes(side, levels, j, i)
  BY <1>1 DEF Precedes, Better
<1>4. ASSUME NEW x \in 1..n, NEW y \in 1..n
      PROVE  Precedes(side, levels, order[x], order[y]) <=> x < y
  <2>1. order[x] \in 1..n /\ order[y] \in 1..n
    BY <1>2
  <2>2. ASSUME x < y PROVE Precedes(side, levels, order[x], order[y])
    <3>1. x \in 1..y - 1
      BY <1>1, <2>2
    <3> QED
      BY <1>2, <3>1
  <2>3. ASSUME y < x PROVE ~ Precedes(side, levels, order[x], order[y])
    <3>1. y \in 1..x - 1
      BY <1>1, <2>3
    <3>2. Precedes(side, levels, order[y], order[x])
      BY <1>2, <3>1
    <3> QED
      BY <1>3, <2>1, <3>2
  <2>4. ASSUME x = y PROVE ~ Precedes(side, levels, order[x], order[y])
    BY <1>3, <2>1, <2>4
  <2>5. x < y \/ y < x \/ x = y
    BY <1>1
  <2> QED
    BY <2>2, <2>3, <2>4, <2>5
<1>5. \A x, y \in 1..n : order[x] = order[y] => x = y
  <2>1. SUFFICES ASSUME NEW x \in 1..n, NEW y \in 1..n, order[x] = order[y], x < y \/ y < x
                 PROVE  FALSE
    BY <1>1
  <2>2. order[x] \in 1..n /\ order[y] \in 1..n
    BY <1>2
  <2> QED
    BY <1>3, <1>4, <2>1, <2>2
<1>6. ASSUME NEW x \in 1..n PROVE Cardinality(Ahead(side, levels, order[x])) = x - 1
  <2> DEFINE S == Ahead(side, levels, order[x])
             f == [y \in 1..x - 1 |-> order[y]]
  <2>1. \A i : i \in S <=> i \in 1..n /\ Precedes(side, levels, i, order[x])
    BY <1>1 DEF Ahead, Precedes
  <2> HIDE DEF S
  <2>2. ASSUME NEW y \in 1..x - 1 PROVE y \in 1..n /\ order[y] \in S
    <3>1. y \in 1..n
      BY <1>1
    <3>2. Precedes(side, levels, order[y], order[x]) /\ order[y] \in 1..n
      BY <1>2, <3>1
    <3> QED
      BY <2>1, <3>1, <3>2
  <2>3. ASSUME NEW i \in S PROVE \E y \in 1..x - 1 : f[y] = i
    <3>1. i \in 1..n /\ Precedes(side, levels, i, order[x])
      BY <2>1
    <3>2. PICK y \in 1..n : order[y] = i
      BY <1>2, <3>1
    <3>3. y < x
      BY <1>4, <3>1, <3>2
    <3>4. y \in 1..x - 1
      BY <1>1, <3>3
    <3> QED
      BY <3>2, <3>4
  <2>4. f \in [1..x - 1 -> S] /\ \A y, z \in 1..x - 1 : f[y] = f[z] => y = z
    BY <1>5, <2>2
  <2>5. f \in Bijection(1..x - 1, S)
    <3> HIDE DEF f
    <3> QED
      BY <2>3, <2>4 DEF Bijection, Injection, IsInjective, Surjection
  <2>6. ExistsBijection(1..x - 1, S)
    BY <2>5, Zenon DEF ExistsBijection
  <2>7. IsFiniteSet(1..x - 1) /\ Cardinality(1..x - 1) = x - 1
    <3> DEFINE last == x - 1
    <3>1. last \in Nat
      BY <1>1
    <3> HIDE DEF last
    <3>2. IsFiniteSet(1..last) /\ Cardinality(1..last) = last
      BY <3>1, FS_Interval
    <3> QED
      BY <3>2 DEF last
  <2>8. Cardinality(S) = x - 1
    BY <2>6, <2>7, FS_Bijection
  <2> QED
    BY <2>8 DEF S
<1> QED
  BY <1>5, <1>6 DEF n

\* How many of the levels count.
Counted(levels, n) == Min({n, Len(levels)})

(* The levels that count are the first ones when sorted.                    *)
LEMMA AmongSorted ==
    ASSUME NEW side, NEW levels \in Seq(PricedLevel), NEW sorted, NEW order,
           SortedBy(side, levels, sorted, order, Len(levels)), NEW n \in Nat
    PROVE  /\ Counted(levels, n) \in 0..Len(levels)
           /\ \A i : i \in Among(side, levels, n) <=>
                     \E x \in 1..Counted(levels, n) : order[x] = i
<1> DEFINE len == Len(levels)
           m == Counted(levels, n)
<1>1. len \in Nat /\ DOMAIN levels = 1..len
  BY LenProperties
<1> HIDE DEF len
<1>2. m = IF n <= len THEN n ELSE len
  <2>1. m = Min({n, len})
    BY DEF Counted, len
  <2> HIDE DEF m
  <2> QED
    BY <1>1, <2>1 DEF Min
<1> HIDE DEF m
<1>3. /\ \A x \in 1..len : order[x] \in 1..len
      /\ \A i \in 1..len : \E x \in 1..len : order[x] = i
  BY DEF SortedBy, len
<1>4. \A x \in 1..len : Cardinality(Ahead(side, levels, order[x])) = x - 1
  BY RanksOfLevels DEF len
<1>5. ASSUME NEW i \in Among(side, levels, n) PROVE \E x \in 1..m : order[x] = i
  <2>1. i \in 1..len /\ Cardinality(Ahead(side, levels, i)) < n
    BY <1>1 DEF Among
  <2>2. PICK x \in 1..len : order[x] = i
    BY <1>3, <2>1
  <2>3. x - 1 < n
    BY <1>4, <2>1, <2>2
  <2>4. x \in 1..m
    BY <1>1, <1>2, <2>3
  <2> QED
    BY <2>2, <2>4
<1>6. ASSUME NEW x \in 1..m PROVE order[x] \in Among(side, levels, n)
  <2>1. x \in 1..len /\ x - 1 < n
    BY <1>1, <1>2
  <2> QED
    BY <1>1, <1>3, <1>4, <2>1 DEF Among
<1>7. \A i : i \in Among(side, levels, n) <=> \E x \in 1..m : order[x] = i
  BY <1>5, <1>6
<1>8. m \in 0..len
  BY <1>1, <1>2
<1> QED
  BY <1>7, <1>8 DEF m, len

---------------------------------------------------------------------------
(* The sums.                                                                *)

\* The sizes of the levels in D together.
Total(levels, D) == Totals!Run(0, levels, 0, D)

(* The sum over a set, one element at a time.                               *)
LEMMA TotalUnfolds ==
    ASSUME NEW levels, NEW D, IsFiniteSet(D)
    PROVE  /\ D = {} => Total(levels, D) = 0
           /\ D # {} => /\ AnyOf(D) \in D
                        /\ Total(levels, D) =
                              levels[AnyOf(D)].size + Total(levels, D \ {AnyOf(D)})
<1>1. \A s \in SUBSET D : s # {} => AnyOf(s) \in s
  BY DEF AnyOf
<1>2. Total(levels, D) =
         IF D = {} THEN 0 ELSE AddSize(0, levels, Total(levels, D \ {AnyOf(D)}), AnyOf(D))
  <2>1. Totals!IsFiniteSet(D)
    BY DEF IsFiniteSet, Totals!IsFiniteSet
  <2>2. Totals!Run(0, levels, 0, D) =
           IF D = {} THEN 0
           ELSE AddSize(0, levels, Totals!Run(0, levels, 0, D \ {AnyOf(D)}), AnyOf(D))
    BY ONLY <1>1, <2>1, Totals!RunUnfolds
  <2> QED
    BY <2>2, Zenon DEF Total
<1> QED
  BY <1>1, <1>2 DEF AddSize

(* Any level of the sum may be taken out of it.                             *)
LEMMA TotalAdds ==
    ASSUME NEW levels, NEW D, IsFiniteSet(D), \A i \in D : levels[i].size \in Int
    PROVE  /\ Total(levels, D) \in Int
           /\ \A i \in D : Total(levels, D) = levels[i].size + Total(levels, D \ {i})
<1> DEFINE Adds(s) == /\ Total(levels, s) \in Int
                      /\ \A i \in s : Total(levels, s) = levels[i].size + Total(levels, s \ {i})
           S == {k \in Nat : \A s \in SUBSET D : Cardinality(s) <= k => Adds(s)}
<1>1. \A s \in SUBSET D : IsFiniteSet(s) /\ Cardinality(s) \in Nat
  BY FS_Subset, FS_CardinalityType
<1>2. \A s \in SUBSET D : s = {} => Adds(s)
  <2>1. IsFiniteSet({}) /\ Total(levels, {}) = 0
    BY TotalUnfolds, FS_EmptySet
  <2> QED
    BY <2>1
<1>3. 0 \in S
  <2>1. \A s \in SUBSET D : Cardinality(s) <= 0 => s = {}
    BY <1>1, FS_EmptySet
  <2> HIDE DEF Adds
  <2> QED
    BY <1>2, <2>1
<1>4. ASSUME NEW k \in Nat, k \in S PROVE k + 1 \in S
  <2>1. SUFFICES ASSUME NEW s \in SUBSET D, Cardinality(s) <= k + 1, s # {} PROVE Adds(s)
    BY <1>2
  <2> DEFINE j == AnyOf(s)
  <2>2. j \in s /\ Total(levels, s) = levels[j].size + Total(levels, s \ {j})
    BY <1>1, <2>1, TotalUnfolds
  <2> HIDE DEF j
  <2>3. \A i \in s : s \ {i} \in SUBSET D /\ Cardinality(s \ {i}) <= k
    BY <1>1, <2>1, FS_RemoveElement
  <2>4. \A i \in s : Adds(s \ {i})
    BY <1>4, <2>3
  <2>5. Total(levels, s) \in Int
    BY <2>2, <2>4
  <2>6. ASSUME NEW i \in s PROVE Total(levels, s) = levels[i].size + Total(levels, s \ {i})
    <3>1. CASE i = j
      BY <2>2, <3>1
    <3>2. CASE i # j
      <4> DEFINE rest == s \ {i, j}
      <4>1. /\ i \in s \ {j} /\ (s \ {j}) \ {i} = rest
            /\ j \in s \ {i} /\ (s \ {i}) \ {j} = rest
        BY <2>2, <3>2
      <4>2. /\ Total(levels, s \ {j}) = levels[i].size + Total(levels, rest)
            /\ Total(levels, s \ {i}) = levels[j].size + Total(levels, rest)
        BY <2>2, <2>4, <4>1
      <4>3. Total(levels, rest) \in Int
        <5>1. rest \in SUBSET D /\ rest \in SUBSET (s \ {i})
          BY <2>1
        <5>2. Cardinality(rest) <= k
          <6>1. Cardinality(rest) <= Cardinality(s \ {i}) /\ Cardinality(rest) \in Nat
            BY <1>1, <2>3, <5>1, FS_Subset
          <6>2. Cardinality(s \ {i}) <= k /\ Cardinality(s \ {i}) \in Nat
            BY <1>1, <2>3
          <6> QED
            BY <6>1, <6>2
        <5> QED
          BY <1>4, <5>1, <5>2
      <4> HIDE DEF rest
      <4>4. levels[i].size \in Int /\ levels[j].size \in Int
        BY <2>1, <2>2
      <4> QED
        BY <2>2, <4>2, <4>3, <4>4
    <3> QED
      BY <3>1, <3>2
  <2> QED
    BY <2>5, <2>6
<1>5. Nat \subseteq S
  <2> HIDE DEF S
  <2> QED
    BY <1>3, <1>4, Totals!NatSetInduction
<1> QED
  BY <1>1, <1>5

(* The loop over the levels that count, written out.                        *)
LEMMA DepthIsRun ==
    ASSUME NEW top, NEW n
    PROVE  LET counted == SubSeq(top, 1, Min({n, Len(top)}))
           IN  Depth(top, n) = Sums!Run(0, counted, 0, DOMAIN counted)
BY ONLY DEF Depth, FoldLeft, MapThenFoldSet, Sums!Run, PlusSize

(* A depth is the total of the levels that count, unless one is infinite.   *)
LEMMA DepthIsTotal ==
    ASSUME NEW side, NEW levels \in Seq(PricedLevel), NEW n \in Nat
    PROVE  LET depth == Depth(Top(side, levels), n)
               among == Among(side, levels, n)
           IN  /\ (\E i \in among : levels[i].size \notin Finite) => depth = NaN
               /\ ~ (\E i \in among : levels[i].size \notin Finite) =>
                     depth \in Int /\ depth = Total(levels, among)
<1> DEFINE top == Top(side, levels)
           len == Len(levels)
           m == Counted(levels, n)
           counted == SubSeq(top, 1, m)
<1>1. top \in Seq(PricedLevel) /\ Len(top) = len
  BY TopIsSorted
<1>2. PICK order : SortedBy(side, levels, top, order, len)
  BY TopIsSorted
<1>3. m \in 0..len /\ \A i : i \in Among(side, levels, n) <=> \E x \in 1..m : order[x] = i
  BY <1>2, AmongSorted
<1>4. Depth(top, n) = Sums!Run(0, counted, 0, DOMAIN counted)
  BY <1>1, DepthIsRun DEF Counted
<1>5. len \in Nat /\ \A i \in 1..len : levels[i] \in PricedLevel
  BY LenProperties
<1> HIDE DEF top, len, m
<1>6. m \in Nat /\ \A x \in 1..m : x \in 1..len
  BY <1>3, <1>5
<1>7. /\ \A x \in 1..m : order[x] \in 1..len /\ top[x] = levels[order[x]]
      /\ \A x, y \in 1..m : order[x] = order[y] => x = y
  <2>1. /\ \A x \in 1..len : order[x] \in 1..len /\ top[x] = levels[order[x]]
        /\ \A x, y \in 1..len : order[x] = order[y] => x = y
    <3>1. \A x, y \in 1..len : order[x] = order[y] => x = y
      BY <1>2, RanksOfLevels DEF len
    <3>2. \A x \in 1..len : order[x] \in 1..len /\ top[x] = levels[order[x]]
      BY <1>2 DEF SortedBy
    <3> QED
      BY <3>1, <3>2
  <2> QED
    BY <1>6, <2>1
<1>8. counted \in Seq(PricedLevel) /\ Len(counted) = m /\ \A x \in 1..m : counted[x] = top[x]
  <2>1. \A x \in 1..m : top[x] \in PricedLevel
    BY <1>5, <1>7
  <2>2. /\ counted \in Seq(PricedLevel)
        /\ Len(counted) = IF 1 <= m THEN m - 1 + 1 ELSE 0
        /\ \A x \in 1..m - 1 + 1 : counted[x] = top[1 + x - 1]
    BY <1>6, <2>1, SubSeqProperties
  <2>3. (\A x \in Int : 1 + x - 1 = x) /\ m - 1 + 1 = m /\ (~ (1 <= m) => m = 0)
    BY <1>6
  <2> HIDE DEF counted
  <2> QED
    BY <2>2, <2>3
<1>9. DOMAIN counted = 1..m
  BY <1>8, LenProperties
<1> HIDE DEF counted
<1> DEFINE size(x) == levels[order[x]].size
           First(k) == {order[x] : x \in 1..k}
           Value(k) == IF \E x \in 1..k : size(x) \notin Finite THEN NaN ELSE Total(levels, First(k))
           J == [k \in 0..m |-> {Value(k)}]
<1>10. \A x \in 1..m : size(x) \in Decimal /\ counted[x].size = size(x)
  BY <1>5, <1>7, <1>8 DEF PricedLevel
<1>11. \A k \in 0..m : (\A x \in 1..k : size(x) \in Finite) => IsFiniteSet(First(k)) /\ \A i \in First(k) : levels[i].size \in Int
  <2>1. TAKE k \in 0..m
  <2>2. First(k) \in SUBSET (1..len)
    BY <1>6, <1>7
  <2>3. IsFiniteSet(First(k))
    <3>1. IsFiniteSet(1..len)
      BY <1>5, FS_Interval
    <3> HIDE DEF First
    <3> QED
      BY <2>2, <3>1, FS_Subset, Zenon
  <2>4. HAVE \A x \in 1..k : size(x) \in Finite
  <2>5. ASSUME NEW i \in First(k) PROVE levels[i].size \in Int
    <3>1. PICK x \in 1..k : i = order[x]
      OBVIOUS
    <3>2. x \in 1..m
      BY <1>6
    <3> QED
      BY <1>10, <2>4, <3>1, <3>2, Decimals
  <2> QED
    BY <2>3, <2>5
<1>12. \A k \in 0..m : Value(k) \in Int \cup {NaN}
  BY <1>11, TotalAdds
<1>13. 0 \in J[0]
  <2>1. 1..0 = {} /\ First(0) = {} /\ IsFiniteSet({})
    BY FS_EmptySet
  <2>2. Value(0) = 0
    BY <2>1, TotalUnfolds
  <2>3. 0 \in 0..m
    BY <1>6
  <2> HIDE DEF Value
  <2> QED
    BY <2>2, <2>3
<1>14. ASSUME NEW k \in 1..m PROVE Plus(Value(k - 1), size(k)) = Value(k)
  <2>1. k - 1 \in 0..m /\ k \in 0..m /\ k \in 1..k /\ 1..k = (1..k - 1) \cup {k}
    BY <1>6
  <2>2. CASE \E x \in 1..k - 1 : size(x) \notin Finite
    <3>1. Value(k - 1) = NaN /\ Value(k) = NaN
      BY <2>1, <2>2
    <3> QED
      BY <3>1 DEF Plus
  <2>3. CASE size(k) \notin Finite
    <3>1. Value(k) = NaN
      BY <2>1, <2>3
    <3> QED
      BY <2>3, <3>1 DEF Plus
  <2>4. CASE \A x \in 1..k : size(x) \in Finite
    <3>1. /\ Value(k - 1) = Total(levels, First(k - 1)) /\ Value(k) = Total(levels, First(k))
          /\ \A x \in 1..k - 1 : size(x) \in Finite
      BY <2>1, <2>4
    <3>2. First(k) \ {order[k]} = First(k - 1) /\ order[k] \in First(k)
      <4>1. \A x \in 1..k - 1 : order[x] # order[k]
        <5>1. TAKE x \in 1..k - 1
        <5>2. x \in 1..m /\ x # k
          BY <1>6, <2>1
        <5> QED
          BY <1>7, <5>2
      <4> QED
        BY <2>1, <4>1
    <3>3. /\ Total(levels, First(k)) = size(k) + Total(levels, First(k - 1))
          /\ Total(levels, First(k - 1)) \in Int /\ size(k) \in Int
      <4>1. /\ IsFiniteSet(First(k)) /\ \A i \in First(k) : levels[i].size \in Int
            /\ IsFiniteSet(First(k - 1)) /\ \A i \in First(k - 1) : levels[i].size \in Int
        BY <1>11, <2>1, <2>4, <3>1
      <4> HIDE DEF First
      <4>2. Total(levels, First(k)) = levels[order[k]].size + Total(levels, First(k) \ {order[k]})
        BY <3>2, <4>1, TotalAdds
      <4>3. Total(levels, First(k - 1)) \in Int
        BY <4>1, TotalAdds
      <4> QED
        BY <3>2, <4>1, <4>2, <4>3
    <3>4. size(k) \in Finite
      BY <2>1, <2>4
    <3> HIDE DEF Value, First, size
    <3> QED
      BY <3>1, <3>3, <3>4, Sentinels DEF Plus
  <2> QED
    BY <2>1, <2>2, <2>3, <2>4
<1>15. ASSUME NEW k \in 1..m, NEW a \in J[k - 1] PROVE PlusSize(0, counted, a, k) \in J[k]
  <2>1. k - 1 \in 0..m /\ k \in 0..m
    BY <1>6
  <2> HIDE DEF Value, size
  <2>2. a = Value(k - 1)
    BY <1>15, <2>1
  <2>3. PlusSize(0, counted, a, k) = Plus(Value(k - 1), size(k))
    BY <1>10, <2>2 DEF PlusSize
  <2> QED
    BY <1>14, <2>1, <2>3
<1>16. J[m] = {Value(m)}
  BY <1>6
<1> HIDE DEF J, Value
<1>17. Sums!Run(0, counted, 0, 1..m) \in J[m]
  BY <1>6, <1>13, <1>15, Sums!LoopInvariant DEF Max, Sums!Max
<1>18. Depth(top, n) = Value(m)
  BY <1>4, <1>9, <1>16, <1>17
<1>19. First(m) = Among(side, levels, n)
  BY <1>3
<1>20. (\E i \in First(m) : levels[i].size \notin Finite) <=> \E x \in 1..m : size(x) \notin Finite
  OBVIOUS
<1>21. (\A x \in 1..m : size(x) \in Finite) => Total(levels, First(m)) \in Int
  <2>1. m \in 0..m
    BY <1>6
  <2> HIDE DEF First, size
  <2> QED
    BY <1>11, <2>1, TotalAdds
<1> HIDE DEF First, size
<1> QED
  BY <1>18, <1>19, <1>20, <1>21 DEF Value, top

---------------------------------------------------------------------------
(* What a payload parses to.                                                *)

(* Of the depths one counts the most levels.                                *)
LEMMA MostLevels ==
    /\ Max(Tops) \in Tops /\ \A n \in Tops : n \in Nat /\ n <= Max(Tops)
<1>1. PICK most \in Tops : \A n \in Tops : n <= most
  BY ConstantAssumption
<1>2. \A n \in Tops : n \in Nat
  BY ConstantAssumption
<1>3. \E m \in Tops : \A n \in Tops : m >= n
  BY <1>1, <1>2
<1> DEFINE last == Max(Tops)
<1>4. last \in Tops /\ \A n \in Tops : last >= n
  BY <1>3, Zenon DEF Max
<1> HIDE DEF last
<1>5. \A n \in Tops : n \in Nat /\ n <= last
  BY <1>2, <1>4
<1> QED
  BY <1>4, <1>5 DEF last

\* A side makes neither its sort nor its sums raise, nor ParsedOrderBook.
Sound(side, levels) ==
    /\ NaN \notin Prices(levels)
    /\ Best(side, levels) \in Finite \cup {None}
    /\ \A n \in Tops : Depth(Top(side, levels), n) # NaN

(* A side is refused for its prices, or for a size among the most that      *)
(* count.                                                                   *)
LEMMA RefusedSides ==
    ASSUME NEW side \in {"bids", "asks"}, NEW levels \in Seq(Level)
    PROVE  Sound(side, levels) <=>
              /\ NaN \notin Prices(levels)
              /\ ~ InfinitelyPriced(side, levels)
              /\ ~ \E i \in Among(side, levels, Max(Tops)) : levels[i].size \notin Finite
<1> SUFFICES ASSUME NaN \notin Prices(levels)
             PROVE  (\A n \in Tops : Depth(Top(side, levels), n) # NaN) <=>
                       ~ \E i \in Among(side, levels, Max(Tops)) : levels[i].size \notin Finite
  BY InfiniteBest DEF Sound
<1> DEFINE depth(n) == Depth(Top(side, levels), n)
           among(n) == Among(side, levels, n)
           most == Max(Tops)
<1>1. \A n \in Nat : /\ (\E i \in among(n) : levels[i].size \notin Finite) => depth(n) = NaN
                     /\ ~ (\E i \in among(n) : levels[i].size \notin Finite) => depth(n) \in Int
  BY PricesAreNumbers, DepthIsTotal
<1>2. most \in Tops /\ \A n \in Tops : n \in Nat /\ n <= most
  BY MostLevels
<1>3. \A n \in Tops : among(n) \subseteq among(most)
  <2>1. \A i \in DOMAIN levels : Cardinality(Ahead(side, levels, i)) \in Nat
    <3>1. TAKE i \in DOMAIN levels
    <3>2. IsFiniteSet(DOMAIN levels)
      BY LenProperties, FS_Interval
    <3>3. Ahead(side, levels, i) \in SUBSET (DOMAIN levels)
      BY DEF Ahead
    <3> QED
      BY <3>2, <3>3, FS_Subset, FS_CardinalityType
  <2> HIDE DEF most
  <2> QED
    BY <1>2, <2>1 DEF Among
<1> HIDE DEF depth, among, most
<1>4. \A n \in Nat : depth(n) = NaN <=> \E i \in among(n) : levels[i].size \notin Finite
  BY <1>1, Sentinels
<1>5. (\E n \in Tops : depth(n) = NaN) <=> \E i \in among(most) : levels[i].size \notin Finite
  BY <1>2, <1>3, <1>4
<1> QED
  BY <1>5 DEF depth, among, most

\* What is copied is a finite decimal, or does not parse as one.
Copyable(copied) == \A f \in Field : copied[f] \in Finite \cup {NoNumber}

(* Sound sides, a timestamp and copyable fields make a book.                *)
LEMMA BookTypes ==
    ASSUME NEW bids \in Seq(Level), NEW asks \in Seq(Level),
           Sound("bids", bids), Sound("asks", asks), NEW timestamp \in Int \cup {None},
           NEW copied, Copyable(copied)
    PROVE  ParsedOrderBook(bids, asks, timestamp, copied) \in Book
<1> DEFINE bid == Best("bids", bids)
           ask == Best("asks", asks)
<1>1. bids \in Seq(PricedLevel) /\ asks \in Seq(PricedLevel)
  BY PricesAreNumbers DEF Sound
<1>2. bid \in Finite \cup {None} /\ ask \in Finite \cup {None}
  BY DEF Sound
<1>3. InvalidReason(bids, asks, bid, ask) \in Reason \cup {None}
  BY <1>1, ReasonOfPrices
<1>4. \A n \in Tops : Depth(Top("bids", bids), n) \in Int /\ Depth(Top("asks", asks), n) \in Int
  <2>1. TAKE n \in Tops
  <2>2. n \in Nat
    BY MostLevels
  <2>3. Depth(Top("bids", bids), n) # NaN /\ Depth(Top("asks", asks), n) # NaN
    BY DEF Sound
  <2> QED
    BY <1>1, <2>2, <2>3, DepthIsTotal
<1>5. [n \in Tops |-> Depth(Top("bids", bids), n)] \in [Tops -> Int]
  BY <1>4
<1>6. [n \in Tops |-> Depth(Top("asks", asks), n)] \in [Tops -> Int]
  BY <1>4
<1> HIDE DEF bid, ask
<1>7. (IF None \in {bid, ask} THEN None ELSE ask - bid) \in Int \cup {None}
  BY <1>2, Decimals
<1>8. [f \in Field |-> IF copied[f] = NoNumber THEN None ELSE copied[f]]
         \in [Field -> Finite \cup {None}]
  BY DEF Copyable
<1> QED
  BY <1>2, <1>3, <1>5, <1>6, <1>7, <1>8 DEF ParsedOrderBook, Book, bid, ask

(* A payload is refused for its timestamp, one of its sides or a field that *)
(* is copied, and for nothing else.                                         *)
LEMMA OutcomeOfBody ==
    ASSUME NEW body \in Body
    PROVE  LET bids == Levels(body.bids)
               asks == Levels(body.asks)
               timestamp == ExchangeTimestamp(body.timestamp)
               sound == /\ timestamp # Refused /\ Copyable(body.copied)
                        /\ Sound("bids", bids) /\ Sound("asks", asks)
           IN  /\ bids \in Seq(Level) /\ asks \in Seq(Level) /\ body.timestamp \in Time
               /\ ~ sound => Outcome(body) = Refused
               /\ sound => /\ Outcome(body) = ParsedOrderBook(bids, asks, timestamp, body.copied)
                           /\ Outcome(body) \in Book
                           /\ Outcome(body) # Refused
<1> DEFINE bids == Levels(body.bids)
           asks == Levels(body.asks)
           timestamp == ExchangeTimestamp(body.timestamp)
           sound == /\ timestamp # Refused /\ Copyable(body.copied)
                    /\ Sound("bids", bids) /\ Sound("asks", asks)
<1>1. body.bids \in Seq(Row) /\ body.asks \in Seq(Row) /\ body.timestamp \in Time
  BY DEF Body
<1>2. bids \in Seq(Level) /\ asks \in Seq(Level)
  BY <1>1, LevelTypes
<1>3. timestamp \in Int \cup {None, Refused}
  BY <1>1, TimestampTypes
<1>4. Outcome(body) = IF sound THEN ParsedOrderBook(bids, asks, timestamp, body.copied) ELSE Refused
  <2> DEFINE compared == NaN \notin Prices(bids) \cup Prices(asks)
             quoted == {Best("bids", bids), Best("asks", asks)} \subseteq Finite \cup {None}
             summed == \A n \in Tops :
                NaN \notin {Depth(Top("bids", bids), n), Depth(Top("asks", asks), n)}
             copied == \A f \in Field : body.copied[f] \in Finite \cup {NoNumber}
  <2>1. Outcome(body) = IF timestamp # Refused /\ compared /\ quoted /\ summed /\ copied
                        THEN ParsedOrderBook(bids, asks, timestamp, body.copied) ELSE Refused
    BY ONLY DEF Outcome
  <2>2. sound <=> timestamp # Refused /\ compared /\ quoted /\ summed /\ copied
    BY DEF Sound, Copyable
  <2> QED
    BY ONLY <2>1, <2>2
<1> HIDE DEF bids, asks, timestamp
<1>5. sound => ParsedOrderBook(bids, asks, timestamp, body.copied) \in Book
  BY <1>2, <1>3, BookTypes
<1> QED
  BY <1>1, <1>2, <1>4, <1>5, Sentinels DEF bids, asks, timestamp

---------------------------------------------------------------------------
(* What is stored for a payload is what it parses to.                       *)
THEOREM OutcomeStored == Spec => []ResultIsOutcome
<1>1. Init => ResultIsOutcome
  BY PayloadAssumption DEF Init, ResultIsOutcome
<1>2. ResultIsOutcome /\ [Next]_vars => ResultIsOutcome'
  <2> SUFFICES ASSUME ResultIsOutcome, [Next]_vars PROVE ResultIsOutcome'
    OBVIOUS
  <2>1. CASE Parse
    BY <2>1 DEF Parse, ResultIsOutcome
  <2>2. CASE Parsed \/ UNCHANGED vars
    BY <2>2 DEF Parsed, ResultIsOutcome, vars
  <2> QED
    BY <2>1, <2>2 DEF Next
<1> QED
  BY <1>1, <1>2, PTL DEF Spec

(* A book that is stored, and the payload it came from.                     *)
LEMMA StoredBook ==
    ASSUME ResultIsOutcome, IsBook
    PROVE  LET bids == Levels(payload.bids)
               asks == Levels(payload.asks)
               timestamp == ExchangeTimestamp(payload.timestamp)
           IN  /\ bids \in Seq(PricedLevel) /\ asks \in Seq(PricedLevel)
               /\ Sound("bids", bids) /\ Sound("asks", asks)
               /\ payload.timestamp \in Time /\ timestamp # Refused
               /\ result = ParsedOrderBook(bids, asks, timestamp, payload.copied)
<1>1. payload \in Body /\ result = Outcome(payload) /\ result # Refused
  BY DEF ResultIsOutcome, IsBook
<1> QED
  BY <1>1, OutcomeOfBody, PricesAreNumbers DEF Sound

(* A book that is stored has finite prices and copied fields.               *)
THEOREM TypeCorrect == Spec => []TypeOK
<1>1. ResultIsOutcome => TypeOK
  BY OutcomeOfBody DEF ResultIsOutcome, TypeOK
<1> QED
  BY <1>1, OutcomeStored, PTL

(* The reason says what is wrong with the book, and a book without one has  *)
(* prices on both sides that do not cross, a bid above 0 and an ask below 1. *)
THEOREM ReasonsTell == Spec => []ReasonsTellTheBook
<1>1. ResultIsOutcome => ReasonsTellTheBook
  <2>1. SUFFICES ASSUME ResultIsOutcome, IsBook PROVE ReasonsTellTheBook
    BY DEF ReasonsTellTheBook
  <2> DEFINE bids == Levels(payload.bids)
             asks == Levels(payload.asks)
  <2>2. /\ bids \in Seq(PricedLevel) /\ asks \in Seq(PricedLevel)
        /\ result = ParsedOrderBook(bids, asks, ExchangeTimestamp(payload.timestamp), payload.copied)
    BY <2>1, StoredBook
  <2> HIDE DEF bids, asks
  <2>3. /\ result.bids = bids /\ result.asks = asks
        /\ result.invalid_reason = InvalidReason(bids, asks, Best("bids", bids), Best("asks", asks))
    BY <2>2 DEF ParsedOrderBook
  <2> QED
    BY <2>2, <2>3, ReasonOfPrices DEF ReasonsTellTheBook
<1> QED
  BY <1>1, OutcomeStored, PTL

(* A depth counts the levels that fewer than n levels go before.            *)
THEOREM DepthsRanked == Spec => []DepthsAreByRank
<1>1. ResultIsOutcome => DepthsAreByRank
  <2>1. SUFFICES ASSUME ResultIsOutcome, IsBook PROVE DepthsAreByRank
    BY DEF DepthsAreByRank
  <2> DEFINE bids == Levels(payload.bids)
             asks == Levels(payload.asks)
  <2>2. /\ bids \in Seq(PricedLevel) /\ asks \in Seq(PricedLevel)
        /\ Sound("bids", bids) /\ Sound("asks", asks)
        /\ result = ParsedOrderBook(bids, asks, ExchangeTimestamp(payload.timestamp), payload.copied)
    BY <2>1, StoredBook
  <2> HIDE DEF bids, asks
  <2>3. result.bids = bids /\ result.asks = asks
    BY <2>2 DEF ParsedOrderBook
  <2>4. ASSUME NEW n \in Tops
        PROVE  /\ result.bid_depth[n] = Total(bids, Among("bids", bids, n))
               /\ result.ask_depth[n] = Total(asks, Among("asks", asks, n))
    <3>1. n \in Nat
      BY MostLevels
    <3>2. /\ Depth(Top("bids", bids), n) # NaN /\ Depth(Top("asks", asks), n) # NaN
          /\ result.bid_depth[n] = Depth(Top("bids", bids), n)
          /\ result.ask_depth[n] = Depth(Top("asks", asks), n)
      BY <2>2 DEF ParsedOrderBook, Sound
    <3> QED
      BY <2>2, <3>1, <3>2, DepthIsTotal
  <2>5. ASSUME NEW n \in Tops
        PROVE  /\ result.bid_depth[n] = MapThenSumSet(LAMBDA i : result.bids[i].size,
                                                      Among("bids", result.bids, n))
               /\ result.ask_depth[n] = MapThenSumSet(LAMBDA i : result.asks[i].size,
                                                      Among("asks", result.asks, n))
    <3>1. /\ MapThenSumSet(LAMBDA i : result.bids[i].size, Among("bids", result.bids, n))
                = Total(result.bids, Among("bids", result.bids, n))
          /\ MapThenSumSet(LAMBDA i : result.asks[i].size, Among("asks", result.asks, n))
                = Total(result.asks, Among("asks", result.asks, n))
      BY ONLY DEF MapThenSumSet, MapThenFoldSet, Total, Totals!Run, AddSize, AnyOf
    <3>2. /\ result.bid_depth[n] = Total(result.bids, Among("bids", result.bids, n))
          /\ result.ask_depth[n] = Total(result.asks, Among("asks", result.asks, n))
      BY <2>3, <2>4
    <3> QED
      BY ONLY <3>1, <3>2, Zenon
  <2> QED
    BY ONLY <2>5, Zenon DEF DepthsAreByRank
<1> QED
  BY <1>1, OutcomeStored, PTL

(* Which prices, sizes, copied fields and times cost a token its snapshot,  *)
(* and that no others do.                                                   *)
THEOREM RefusalsExplained == Spec => []RefusalsAreExplained
<1>1. ResultIsOutcome => RefusalsAreExplained
  <2>1. SUFFICES ASSUME ResultIsOutcome, result # None PROVE RefusalsAreExplained
    BY DEF RefusalsAreExplained
  <2> DEFINE bids == Levels(payload.bids)
             asks == Levels(payload.asks)
             timestamp == ExchangeTimestamp(payload.timestamp)
             sizes(side, levels) ==
                \E i \in Among(side, levels, Max(Tops)) : levels[i].size \notin Finite
             copied == \E f \in Field : payload.copied[f] \in {NaN, Far, -Far}
             late == /\ payload.timestamp.kind = "integer"
                     /\ \/ payload.timestamp.value < FirstSecond
                        \/ payload.timestamp.value >= (LastSecond + 1) * Milli
  <2>2. payload \in Body /\ result = Outcome(payload)
    BY <2>1 DEF ResultIsOutcome
  <2>3. /\ bids \in Seq(Level) /\ asks \in Seq(Level) /\ payload.timestamp \in Time
        /\ result = Refused <=>
              ~ (/\ timestamp # Refused /\ Copyable(payload.copied)
                 /\ Sound("bids", bids) /\ Sound("asks", asks))
    BY <2>2, OutcomeOfBody
  <2>4. timestamp = Refused <=> late
    BY <2>3, TimestampTypes
  <2>5. /\ Sound("bids", bids) <=> /\ NaN \notin Prices(bids) /\ ~ sizes("bids", bids)
                                   /\ ~ (Far \in Prices(bids) \/ Prices(bids) = {-Far})
        /\ Sound("asks", asks) <=> /\ NaN \notin Prices(asks) /\ ~ sizes("asks", asks)
                                   /\ ~ (-Far \in Prices(asks) \/ Prices(asks) = {Far})
    <3> HIDE DEF bids, asks
    <3>1. "bids" \in {"bids", "asks"} /\ "asks" \in {"bids", "asks"}
      OBVIOUS
    <3>2. /\ InfinitelyPriced("bids", bids) <=> Far \in Prices(bids) \/ Prices(bids) = {-Far}
          /\ InfinitelyPriced("asks", asks) <=> -Far \in Prices(asks) \/ Prices(asks) = {Far}
      BY DEF InfinitelyPriced
    <3> QED
      BY <2>3, <3>1, <3>2, RefusedSides
  <2>6. Copyable(payload.copied) <=> ~ copied
    <3>1. \A f \in Field : payload.copied[f] \in Decimal \cup {NoNumber}
      BY <2>2 DEF Body
    <3>2. \A d \in Decimal \cup {NoNumber} : d \in Finite \cup {NoNumber} <=> d \notin {NaN, Far, -Far}
      BY Decimals, Sentinels
    <3> QED
      BY <3>1, <3>2 DEF Copyable
  <2>7. result = Refused <=>
           \/ NaN \in Prices(bids) \cup Prices(asks)
           \/ Far \in Prices(bids) \/ Prices(bids) = {-Far}
           \/ -Far \in Prices(asks) \/ Prices(asks) = {Far}
           \/ sizes("bids", bids)
           \/ sizes("asks", asks)
           \/ copied
           \/ late
    <3> HIDE DEF bids, asks, timestamp, sizes, copied, late
    <3> QED
      BY <2>3, <2>4, <2>5, <2>6
  <2> QED
    BY ONLY <2>7, Zenon DEF RefusalsAreExplained
<1> QED
  BY <1>1, OutcomeStored, PTL

(* Seconds and milliseconds of an instant are stored as the same timestamp. *)
THEOREM TimestampsAgree == Spec => []TimestampsAreInstants
<1>1. ResultIsOutcome => TimestampsAreInstants
  <2>1. SUFFICES ASSUME ResultIsOutcome, IsBook, payload.timestamp.kind = "integer",
                        NEW second \in (MilliFrom \div Milli + 1)..Min({MilliFrom, LastSecond}),
                        \/ payload.timestamp.value = second
                        \/ payload.timestamp.value \div Milli = second
                 PROVE  result.exchange_timestamp = second
    BY DEF TimestampsAreInstants
  <2>2. /\ payload.timestamp \in Time
        /\ result.exchange_timestamp = ExchangeTimestamp(payload.timestamp)
    BY <2>1, StoredBook DEF ParsedOrderBook
  <2>3. payload.timestamp.value \in Int
    BY <2>2 DEF Time
  <2>4. /\ Seconds(payload.timestamp.value) = second
        /\ second \in FirstSecond..LastSecond
    BY <2>1, <2>3, InstantsAgree
  <2> QED
    BY <2>1, <2>2, <2>4 DEF ExchangeTimestamp
<1> QED
  BY <1>1, OutcomeStored, PTL
=============================================================================
