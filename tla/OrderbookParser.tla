--------------------------- MODULE OrderbookParser ---------------------------
(***************************************************************************)
(* parse_orderbook_payload of orderbooks/parser.py: from a payload of the  *)
(* API to a parsed book, its best prices, depths and the reason why it is  *)
(* not valid.  Prices are integers, One of them make the price 1; a number *)
(* that does not parse is NoNumber.  The decimals "Infinity" and "NaN" do  *)
(* parse, but NaN raises when it is compared and ParsedOrderBook refuses   *)
(* both in its fields.  Left out are decimals so large or so long that the *)
(* decimal context rounds or overflows, and the texts and the flag that    *)
(* are copied as they are (hash, neg_risk, ...).                           *)
(***************************************************************************)
EXTENDS Integers, FiniteSets, SequencesExt, FiniteSetsExt

CONSTANTS
    Payload,      \* the payloads considered
    None,
    Refused,      \* the outcome of a parse that raises
    NaN,
    NoNumber,
    One,          \* the price 1
    Far,          \* Infinity; its negative is -Infinity
    Tops,         \* how many levels the depths count: 1, 3, 5
    MilliFrom,    \* above this a timestamp is taken for milliseconds: 10^10
    Milli,        \* 1000
    FirstSecond,  \* the first and the last second that
    LastSecond    \* datetime.fromtimestamp accepts

\* A field of a row is a decimal, or does not parse as one.
Decimal == (-Far)..Far \cup {NaN}

\* The decimals a field of ParsedOrderBook may hold.
Finite == (1 - Far)..(Far - 1)

Row == [price : Decimal \cup {NoNumber}, size : Decimal \cup {NoNumber}]

Level == [price : Decimal, size : Decimal]

Time == [kind : {"integer", "iso", "text", "missing"}, value : Int]

Reason == {"missing_bids", "missing_asks", "missing_best_prices",
           "crossed_orderbook", "negative_spread",
           "best_bid_not_positive", "best_ask_not_below_one"}

\* The decimals that go into the book as they are.
Field == {"last_trade_price", "min_order_size", "tick_size"}

Body == [bids : Seq(Row), asks : Seq(Row), timestamp : Time,
         copied : [Field -> Decimal \cup {NoNumber}]]

Book == [bids : Seq(Level), asks : Seq(Level),
         exchange_timestamp : Int \cup {None},
         copied : [Field -> Finite \cup {None}],
         best_bid : Finite \cup {None}, best_ask : Finite \cup {None},
         spread : Int \cup {None},
         bid_depth : [Tops -> Int], ask_depth : [Tops -> Int],
         invalid_reason : Reason \cup {None}]

ASSUME ConstantAssumption ==
    /\ {One, MilliFrom, Milli, LastSecond} \subseteq Nat \ {0}
    /\ Far \in Nat /\ One < Far
    /\ FirstSecond \in Int /\ FirstSecond <= 0 /\ MilliFrom <= LastSecond
    /\ Tops \subseteq Nat \ {0}
    /\ \E most \in Tops : \A n \in Tops : n <= most

ASSUME PayloadAssumption == Payload \subseteq Body

ASSUME SentinelAssumption ==
    /\ NaN \notin Int /\ NoNumber \notin Int \cup {NaN}
    /\ None \notin Int \cup Reason \cup Book
    /\ Refused \notin Int \cup Book \cup {None}

VARIABLES
    payload,   \* its rows, its timestamp and its copied fields
    result     \* None, Refused or the parsed book

vars == <<payload, result>>

---------------------------------------------------------------------------
(* Levels and their order.                                                 *)

\* _levels: a row without a price or a size is dropped without a word.
Collect(levels, row) ==
    IF NoNumber \in {row.price, row.size} THEN levels ELSE Append(levels, row)

Levels(rows) == FoldLeft(Collect, <<>>, rows)

Prices(levels) == {levels[i].price : i \in DOMAIN levels}

\* Of two prices the higher bid and the lower ask is the better one.
Better(side, p, q) == IF side = "bids" THEN p > q ELSE p < q

\* Python's sort is stable, in both directions.
Insert(side, sorted, level) ==
    LET ahead == {i \in DOMAIN sorted : ~ Better(side, level.price, sorted[i].price)}
    IN  InsertAt(sorted, Cardinality(ahead) + 1, level)

\* _top_bid_levels and _top_ask_levels.
Top(side, levels) ==
    FoldLeft(LAMBDA sorted, level : Insert(side, sorted, level), <<>>, levels)

Best(side, levels) ==
    IF levels = <<>> THEN None
    ELSE CHOOSE p \in Prices(levels) : \A q \in Prices(levels) : ~ Better(side, q, p)

\* Mutant: a size that is not finite goes unnoticed.
PlusUnchecked(sum, size) == IF size \in Finite THEN sum + size ELSE sum

\* A sum that is not finite is refused, whatever it is: one NaN stands for all.
Plus(sum, size) == IF sum # NaN /\ size \in Finite THEN sum + size ELSE NaN

\* Mutant: one level too few is counted.
DepthShort(top, n) ==
    FoldLeft(LAMBDA sum, level : Plus(sum, level.size), 0, SubSeq(top, 1, Min({n - 1, Len(top)})))

Depth(top, n) ==
    FoldLeft(LAMBDA sum, level : Plus(sum, level.size), 0, SubSeq(top, 1, Min({n, Len(top)})))

---------------------------------------------------------------------------
(* Timestamps.                                                             *)

\* Mutant: milliseconds are told from seconds by the wrong limit.
SecondsLate(n) == IF n > MilliFrom * Milli THEN n \div Milli ELSE n

Seconds(n) == IF n > MilliFrom THEN n \div Milli ELSE n

\* An integer counts seconds or milliseconds; another text may be ISO 8601.
ExchangeTimestamp(time) ==
    CASE time.kind = "integer" ->
            IF Seconds(time.value) \in FirstSecond..LastSecond
            THEN Seconds(time.value) ELSE Refused
      [] time.kind = "iso" -> time.value
      [] time.kind \in {"missing", "text"} -> None

---------------------------------------------------------------------------
\* Mutant: a locked book, whose bid meets its ask, is taken for a crossed one.
InvalidReasonLocked(bids, asks, bid, ask) ==
    IF bids = <<>> THEN "missing_bids"
    ELSE IF asks = <<>> THEN "missing_asks"
    ELSE IF bid >= ask THEN "crossed_orderbook"
    ELSE IF bid <= 0 THEN "best_bid_not_positive"
    ELSE IF ask >= One THEN "best_ask_not_below_one"
    ELSE None

\* _invalid_reason, in the order of its early returns.
InvalidReason(bids, asks, bid, ask) ==
    IF bids = <<>> THEN "missing_bids"
    ELSE IF asks = <<>> THEN "missing_asks"
    ELSE IF None \in {bid, ask} THEN "missing_best_prices"
    ELSE IF bid > ask THEN "crossed_orderbook"
    ELSE IF ask - bid < 0 THEN "negative_spread"
    ELSE IF bid <= 0 THEN "best_bid_not_positive"
    ELSE IF ask >= One THEN "best_ask_not_below_one"
    ELSE None

ParsedOrderBook(bids, asks, timestamp, copied) ==
    LET bid == Best("bids", bids)
        ask == Best("asks", asks)
    IN  [bids |-> bids, asks |-> asks,
         exchange_timestamp |-> timestamp,
         copied |-> [f \in Field |-> IF copied[f] = NoNumber THEN None ELSE copied[f]],
         best_bid |-> bid, best_ask |-> ask,
         spread |-> IF None \in {bid, ask} THEN None ELSE ask - bid,
         bid_depth |-> [n \in Tops |-> Depth(Top("bids", bids), n)],
         ask_depth |-> [n \in Tops |-> Depth(Top("asks", asks), n)],
         invalid_reason |-> InvalidReason(bids, asks, bid, ask)]

\* parse_orderbook_payload.  A NaN among several prices makes the sort raise, a
\* single one the comparison with the other side or ParsedOrderBook.  Of the
\* infinite prices only a best one is seen by ParsedOrderBook, and of the sizes
\* only what their sums make of them.
Outcome(body) ==
    LET bids == Levels(body.bids)
        asks == Levels(body.asks)
        timestamp == ExchangeTimestamp(body.timestamp)
        compared == NaN \notin Prices(bids) \cup Prices(asks)
        quoted == {Best("bids", bids), Best("asks", asks)} \subseteq Finite \cup {None}
        summed == \A n \in Tops : NaN \notin {Depth(Top("bids", bids), n), Depth(Top("asks", asks), n)}
        copied == \A f \in Field : body.copied[f] \in Finite \cup {NoNumber}
    IN  IF timestamp # Refused /\ compared /\ quoted /\ summed /\ copied
        THEN ParsedOrderBook(bids, asks, timestamp, body.copied)
        ELSE Refused

Init == payload \in Payload /\ result = None

\* Whatever raises, the collection stores the error for the token.
Parse ==
    /\ result = None
    /\ result' = Outcome(payload)
    /\ UNCHANGED payload

Parsed == result # None /\ UNCHANGED vars

Next == Parse \/ Parsed

Spec == Init /\ [][Next]_vars

---------------------------------------------------------------------------
(* Properties.                                                             *)

\* A book that is returned has finite numbers in its fields.
TypeOK ==
    /\ payload \in Body
    /\ result \in {None, Refused} \cup Book

\* The levels of a side that go before its i-th level.
Ahead(side, levels, i) ==
    {j \in DOMAIN levels :
        \/ Better(side, levels[j].price, levels[i].price)
        \/ levels[j].price = levels[i].price /\ j < i}

Among(side, levels, n) ==
    {i \in DOMAIN levels : Cardinality(Ahead(side, levels, i)) < n}

IsBook == result \notin {None, Refused}

\* A depth is the size of the levels that fewer than n levels precede: the order
\* of the payload decides only between levels of one price.
DepthsAreByRank ==
    IsBook => \A n \in Tops :
        /\ result.bid_depth[n] = MapThenSumSet(LAMBDA i : result.bids[i].size,
                                               Among("bids", result.bids, n))
        /\ result.ask_depth[n] = MapThenSumSet(LAMBDA i : result.asks[i].size,
                                               Among("asks", result.asks, n))

\* A book is valid exactly if it has bids and asks that do not cross, one bid
\* above 0 and one ask below 1; a locked book is valid.  The reason is the first
\* defect of the list, and two reasons of the code are never given.
ReasonsTellTheBook ==
    IsBook =>
        LET bids == Prices(result.bids)
            asks == Prices(result.asks)
            reason == result.invalid_reason
            crossed == \E b \in bids, a \in asks : b > a
        IN  /\ reason = None <=>
                  \E b \in bids, a \in asks : b > 0 /\ a < One /\ ~ crossed
            /\ reason = "missing_bids" <=> bids = {}
            /\ reason = "missing_asks" <=> asks = {} /\ bids # {}
            /\ reason = "crossed_orderbook" <=> crossed
            /\ reason = "best_bid_not_positive" =>
                  \A b \in bids : b <= 0 /\ \A a \in asks : b <= a
            /\ reason = "best_ask_not_below_one" => \A a \in asks : a >= One
            /\ reason \notin {"missing_best_prices", "negative_spread"}

\* Of the numbers and the time of a payload these cost the token its snapshot: a
\* price that is NaN; an infinite bid, or nothing but bids of -Infinity, and the
\* same of the asks with the signs swapped; a size that is not finite among the
\* levels that count; a copied field that is a decimal but not a finite one; and
\* an integer time that datetime cannot hold.  All others make a book.
RefusalsAreExplained ==
    result # None =>
        LET bids == Levels(payload.bids)
            asks == Levels(payload.asks)
            n == Max(Tops)
        IN  result = Refused <=>
                \/ NaN \in Prices(bids) \cup Prices(asks)
                \/ Far \in Prices(bids) \/ Prices(bids) = {-Far}
                \/ -Far \in Prices(asks) \/ Prices(asks) = {Far}
                \/ \E i \in Among("bids", bids, n) : bids[i].size \notin Finite
                \/ \E i \in Among("asks", asks, n) : asks[i].size \notin Finite
                \/ \E f \in Field : payload.copied[f] \in {NaN, Far, -Far}
                \/ /\ payload.timestamp.kind = "integer"
                   /\ \/ payload.timestamp.value < FirstSecond
                      \/ payload.timestamp.value >= (LastSecond + 1) * Milli

\* Seconds and milliseconds of one instant give the same timestamp, for every
\* instant from the one the limit stands for in milliseconds.
TimestampsAreInstants ==
    IsBook /\ payload.timestamp.kind = "integer" =>
        \A second \in (MilliFrom \div Milli + 1)..Min({MilliFrom, LastSecond}) :
            \/ payload.timestamp.value = second
            \/ payload.timestamp.value \div Milli = second
            => result.exchange_timestamp = second

---------------------------------------------------------------------------
(* For the proofs in OrderbookParserProofs.                                *)

\* What is stored is what the payload parses to.
ResultIsOutcome == payload \in Body /\ result \in {None, Outcome(payload)}
=============================================================================
