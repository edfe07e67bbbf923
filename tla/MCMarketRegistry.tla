------------------------- MODULE MCMarketRegistry -------------------------
(* Two conditions and four tokens.  The first three payloads are a market   *)
(* whose status changes, the fourth has its outcomes swapped, and the fifth *)
(* has tokens of its own.  Either condition may answer any of them, so that *)
(* both may claim the same two tokens.                                      *)
EXTENDS MarketRegistry

CONSTANTS t1, t2, t3, t4, yes, no

Two(a, x, b, y) ==
    [i \in 0..1 |-> IF i = 0 THEN [id |-> a, outcome |-> x] ELSE [id |-> b, outcome |-> y]]

Row(closed, archived, pair) == [closed |-> closed, archived |-> archived, tokens |-> pair]

MCPayload ==
    {Row("false", "null", Two(t1, yes, t2, no)),
     Row("true", "false", Two(t1, yes, t2, no)),
     Row("null", "true", Two(t1, yes, t2, no)),
     Row("false", "null", Two(t1, no, t2, yes)),
     Row("false", "false", Two(t3, yes, t4, no))}

\* The same without the tricky payloads.
MCPlainPayload ==
    {Row("false", "null", Two(t1, yes, t2, no)),
     Row("true", "false", Two(t1, yes, t2, no)),
     Row("false", "false", Two(t3, yes, t4, no))}
===========================================================================
