----------------------------- MODULE MCTracker ------------------------------
(* Small instances of Tracker for TLC.                                     *)
EXTENDS Tracker

CONSTANTS c1, c2, c3, k1, k2

\* Two connections of one client to the same service, one of another client.
TwoKeys == [c \in Conns |-> IF c = c2 THEN k2 ELSE k1]

\* A slice of no more than 256 records.
Double(n) == IF n = 0 THEN 1 ELSE 2 * n
=============================================================================
