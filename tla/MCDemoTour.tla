---------------------------- MODULE MCDemoTour -----------------------------
(* Small instances of DemoTour for TLC.                                    *)
EXTENDS DemoTour

CONSTANTS e1, e2, e3, i1, i2

\* Two clients.
TwoIPs == [e \in Events |-> IF e = e2 THEN i2 ELSE i1]
=============================================================================
