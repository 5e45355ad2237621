------------------------------ MODULE MCGlobe ------------------------------
(* Small instances of Globe for TLC.                                       *)
EXTENDS Globe, TLC

Rec(ip, at, parts, foreign) == [ip |-> ip, at |-> at, parts |-> parts, foreign |-> foreign]

\* Two clients at one place, two more at a cluster's and an arc's distance.
SomeRecords ==
    {Rec("a", 2, <<"BJ-city", "BJ">>, FALSE), Rec("b", 2, <<"", "SH">>, TRUE),
     Rec("c", 3, <<"SH", "PD">>, FALSE), Rec("d", 6, <<"", "">>, TRUE)}

SomeAddresses == {"a:1", "c:1"}
SomeIps == [x \in SomeAddresses |-> IF x = "c:1" THEN "c" ELSE "a"]
Norm == [x \in {"", "BJ-city", "BJ", "SH", "PD"} |-> IF x = "BJ-city" THEN "BJ" ELSE x]

SomeSuspects == {"a", "d"}

SomeOptions ==
    {[cluster |-> 0, dedup |-> 4, minArc |-> 2, highlight |-> TRUE, fields |-> {1, 2}],
     [cluster |-> 2, dedup |-> 4, minArc |-> 0, highlight |-> FALSE, fields |-> {1}]}

SomeServers == {0, 1}
Two == {"far", "near"}
SomeZoom == [c \in Two |-> IF c = "far" THEN 1 ELSE 3]
SomeFaces == [c \in Two |-> IF c = "far" THEN 0 .. 6 ELSE 1 .. 6]
SomeView == [c \in Two |-> IF c = "far" THEN 0 .. 6 ELSE 2 .. 6]
=============================================================================
