-------------------------- MODULE MCPipelineRuns --------------------------
(* Two processes and one or two run rows of each layer.                    *)
EXTENDS PipelineRuns, TLC

CONSTANTS p1, p2, d1, d2, m1, m2, o1

\* The layer of every run id of the instance.
MCRunLayer ==
    [r \in RunId |->
        CASE r \in {d1, d2} -> "discovery"
          [] r \in {m1, m2} -> "markets"
          [] r = o1 -> "orderbooks"]
===========================================================================
