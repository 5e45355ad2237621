---------------------------- MODULE MCGeoLookup -----------------------------
(* Small instances of GeoLookup for TLC.                                   *)
EXTENDS GeoLookup

CONSTANTS a, b, p, i
=============================================================================
