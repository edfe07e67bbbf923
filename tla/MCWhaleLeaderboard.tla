------------------------- MODULE MCWhaleLeaderboard -------------------------
(* Pages of two rows, two pages in reach, the two best of up to three       *)
(* wallets: duplicates within and across pages, full last pages, rows past  *)
(* the reach, rows that do not parse before and after enough is found.      *)
EXTENDS WhaleLeaderboard

MCWalletOf == [r \in Row |-> CASE r \in {"A", "a"} -> "0xa" [] r = "b" -> "0xb"
                               [] r = "g" -> "0xg" [] OTHER -> NoWallet]
MCConditionOf == [p \in Position |-> CASE p \in {"x1", "x2"} -> "X" [] p = "y1" -> "Y"
                                       [] OTHER -> NoCondition]
MCOffsetBound == [t \in Task |-> 2]

MCRankings == {<<"b", "b", "b", "b">>, <<"A", "b">>, <<"b", "b", "A", "?">>,
               <<"A", "a", "A", "a", "b">>, <<"g", "b">>, <<"A", "?">>}
MCHoldings == {<<"x1", "y1">>, <<"x1", "x1", "y1", "x2", "?">>}
=============================================================================
