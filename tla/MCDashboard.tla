---------------------------- MODULE MCDashboard -----------------------------
(* Small instances of Dashboard for TLC.                                   *)
EXTENDS Dashboard

CONSTANTS c1, c2, k1

\* Two connections of one client to the same service.
OneKey == [c \in Conns |-> k1]

\* A slice of no more than 256 records.
Double(n) == IF n = 0 THEN 1 ELSE 2 * n
=============================================================================
