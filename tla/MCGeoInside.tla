---------------------------- MODULE MCGeoInside -----------------------------
(***************************************************************************)
(* What GeoLookup sees of the outside only, for TLC: the query and the     *)
(* cache file.  They share no state (what a query finds is put into the    *)
(* cache whatever its file is), so each behaviour runs one of them and the *)
(* other stays as it began.                                                *)
(***************************************************************************)
EXTENDS GeoQuery, GeoCacheFile, TLC

CONSTANTS q1, q2, s1, g1, l1, l2, p1, p2, p3

VARIABLE part \* the one that runs

InsideInit ==
    /\ Init /\ FileInit
    /\ part \in {"query", "file"}
    /\ part = "file" => current[1] = l1

InsideNext ==
    /\ \/ part = "query" /\ Next /\ UNCHANGED fileVars
       \/ part = "file" /\ FileNext /\ UNCHANGED vars
    /\ UNCHANGED part

InsideSpec == InsideInit /\ [][InsideNext]_<<part, vars, fileVars>>

Symmetry == {f @@ g : f \in Permutations(Queries), g \in Permutations(Putters)}
=============================================================================
