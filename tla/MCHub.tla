------------------------------- MODULE MCHub --------------------------------
(* A small instance of Hub for TLC.                                        *)
EXTENDS Hub

CONSTANTS c1, c2
=============================================================================
