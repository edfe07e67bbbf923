-------------------------- MODULE MCOrderbookParser --------------------------
(* Books of up to three levels on one side, or two on both, with prices      *)
(* from 0 to 1 in thirds, equal prices, decimals that are not finite and     *)
(* rows that do not parse; the same decimals in the fields that are copied;  *)
(* and timestamps around every limit.                                        *)
EXTENDS OrderbookParser

MCFirstSecond == -5

MCRow(p, s) == [price |-> p, size |-> s]

MCRows == {MCRow(0, 1), MCRow(1, 2), MCRow(1, 4), MCRow(2, 8), MCRow(3, 16),
           MCRow(NaN, 1), MCRow(2, NaN), MCRow(1, NoNumber)}

InfiniteRows == {MCRow(1, 2), MCRow(2, 4), MCRow(Far, 1), MCRow(-Far, 8), MCRow(2, Far)}

Sides(rows, n) == UNION {[1..k -> rows] : k \in 0..n}

NothingCopied == [f \in Field |-> NoNumber]

Quote(bids, asks, time, copied) ==
    [bids |-> bids, asks |-> asks, timestamp |-> time, copied |-> copied]

MCTime(kind, n) == [kind |-> kind, value |-> n]
NoTime == MCTime("missing", 0)

MCTimes ==
    {NoTime, MCTime("text", 0), MCTime("iso", 30), MCTime("iso", -300)}
    \cup {MCTime("integer", n) : n \in {-50, -6, -5, -1, 0, 2, 3, 20, 21, 29, 30, 31, 39,
                                      199, 200, 205, 209, 299, 300, 309, 310}}

MCBooks(rows) ==
    Sides(rows, 3) \X Sides(rows, 1)
    \cup Sides(rows, 2) \X Sides(rows, 2)
    \cup Sides(rows, 1) \X Sides(rows, 3)

MCPayload ==
    {Quote(book[1], book[2], NoTime, NothingCopied) : book \in MCBooks(MCRows) \cup MCBooks(InfiniteRows)}
    \cup {Quote(<<MCRow(1, 1)>>, <<MCRow(2, 1)>>, time, NothingCopied) : time \in MCTimes}
    \cup {Quote(<<MCRow(1, 1)>>, <<MCRow(2, 1)>>, NoTime, copied) :
              copied \in [Field -> {NoNumber, 1, NaN, Far, -Far}]}
=============================================================================
