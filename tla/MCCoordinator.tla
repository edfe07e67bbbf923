--------------------------- MODULE MCCoordinator ---------------------------
(* Intervals of three, two and one units: the deadlines of the layers meet  *)
(* and pass each other, and the registry is stale after four.               *)
EXTENDS Coordinator
============================================================================
