--------------------------- MODULE MCSessionMonitor ---------------------------
(* Small instances of SessionMonitor.                                          *)
EXTENDS SessionMonitor, TLC

Interchangeable == Permutations(Pids)
===============================================================================
