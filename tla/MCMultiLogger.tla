--------------------------- MODULE MCMultiLogger ---------------------------
(* Model values for MultiLogger.                                          *)
EXTENDS MultiLogger

CONSTANTS p1, c1, c2, w1

MCProducers == {p1}
MCOneFlusher == {c1}
MCTwoFlushers == {c1, c2}
MCWriters == {w1}
=============================================================================
