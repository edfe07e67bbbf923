----------------------- MODULE MCOrderbookCollection -----------------------
(* Three tokens in batches of two, so that a run has a full batch, a short  *)
(* one, or just one; two runs.                                              *)
EXTENDS OrderbookCollection
============================================================================
