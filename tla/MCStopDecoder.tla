----------------------------- MODULE MCStopDecoder -----------------------------
(* StopDecoder over every set of at most MaxStops stop sequences of at most  *)
(* MaxStop letters.                                                          *)
EXTENDS StopDecoder, FiniteSets

CONSTANTS MaxStop, MaxStops

Stops == UNION {[1..n -> Letter] : n \in 1..MaxStop}

MCStopSets == {stops \in SUBSET Stops : Cardinality(stops) <= MaxStops}
=============================================================================
