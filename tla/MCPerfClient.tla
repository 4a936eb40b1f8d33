---------------------------- MODULE MCPerfClient -----------------------------
(***************************************************************************)
(* PerfClient for TLC: a and b share an isolate, c has one of its own.     *)
(***************************************************************************)
EXTENDS PerfClient

CONSTANTS a, b, c, x, y

MCMeasured == {<<a, x>>, <<b, x>>, <<c, y>>}
=============================================================================
