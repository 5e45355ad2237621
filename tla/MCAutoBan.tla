----------------------------- MODULE MCAutoBan ------------------------------
(* Small instances of AutoBan for TLC.                                     *)
EXTENDS AutoBan, TLC

\* Everybody counts, three times within one unit of the clock.
Plain == [enabled |-> TRUE, foreignOnly |-> FALSE, banUnknownCountry |-> FALSE,
          banUnknownLocation |-> FALSE, seconds |-> 1, count |-> 3, perm |-> FALSE,
          whiteIPs |-> {}, whiteModules |-> {}]

\* Only foreigners count, twice, and for ever.
Strict == [Plain EXCEPT !.foreignOnly = TRUE, !.count = 2, !.perm = TRUE]

\* Nobody, every service or every IP whitelisted.
SomePolicies ==
    {Plain, [Strict EXCEPT !.whiteModules = Modules],
     [Plain EXCEPT !.count = 2, !.whiteIPs = IPs]}

Interchangeable == Permutations(Handlers)

\* README.md:185: a ban is twice as long with every strike, up to the longest;
\* here for every small setting, at each strike that is dealt.
EscalationIsCappedDoubling ==
    [][\A ip \in IPs : bans'[ip].strikes > bans[ip].strikes =>
          \A initial \in 1 .. 3, maximum \in 1 .. 7 :
             LET doubled == initial * 2 ^ (bans'[ip].strikes - 1)
             IN escalatingMinutes(initial, maximum, bans'[ip].strikes) =
                   IF doubled <= maximum THEN doubled ELSE maximum]_vars
=============================================================================
