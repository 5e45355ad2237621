------------------------------ MODULE GeoQuery ------------------------------
(***************************************************************************)
(* One query of GeoLookup from the inside (queryAll in internal/geo/       *)
(* service.go, enrichAll in enrichment.go): all providers are asked at     *)
(* once, then all geocoders about what the providers said, each round with *)
(* a deadline, each source behind a circuit breaker (breaker.go) that all  *)
(* queries share and that a reload of the sources replaces.                *)
(*                                                                         *)
(* Sources are asked by goroutines of their own; one that comes too late   *)
(* still reports to its breaker.  A query is a name for a call of queryAll *)
(* and is used again when all its goroutines have ended; breakers go by    *)
(* their source and the reload that made them, a name used again as well.  *)
(***************************************************************************)
EXTENDS Integers, FiniteSets

CONSTANTS
    Queries,   \* calls of queryAll
    Providers, \* the sources of the first round
    Geocoders, \* the sources of the second round
    Loads,     \* names for what a (re)load made
    Reloaded,  \* bound: the rounds whose sources are reloaded, of 1 and 2
    MaxFails,  \* breakerMaxFail: failures in a row that open a breaker
    Cooldown   \* breakerCooldown, in ticks of the clock

ASSUME QueryAssumption ==
    /\ Providers \cap Geocoders = {} /\ Reloaded \subseteq 1 .. 2
    /\ MaxFails \in Nat \ {0} /\ Cooldown \in Nat \ {0}

VARIABLES
    current, \* the load in use in each round: Service.entries, .breakers, .geoBrk
    state,   \* Breaker.state
    fails,   \* Breaker.failCount, up to MaxFails
    age,     \* time since Breaker.lastFailAt, up to Cooldown
    at,      \* where a query is: nowhere, in its first or second round, or done
    load,    \* the loads it took the sources of its rounds from
    todo,    \* the sources its loop has yet to come to
    call,    \* how far the goroutine is that asks a source
    results, \* the sources whose answers were collected
    late,    \* history: a deadline passed before all had answered
    told,    \* history: the sources that answered the query
    streak,  \* history: failures since the last success, by breaker
    calm     \* history: time since a failure was recorded

breakers == <<state, fails, age>>
queries == <<at, load, todo, call, results>>
history == <<late, told, streak, calm>>
vars == <<current, breakers, queries, history>>

Sources == Providers \cup Geocoders
RoundOf(s) == IF s \in Providers THEN 1 ELSE 2
SourcesOf(r) == IF r = 1 THEN Providers ELSE Geocoders
Breakers == Loads \X Sources
BreakerOf(q, s) == <<load[q][RoundOf(s)], s>>

TypeOK ==
    /\ current \in [1 .. 2 -> Loads]
    /\ state \in [Breakers -> {"closed", "open", "half"}]
    /\ fails \in [Breakers -> 0 .. MaxFails] /\ age \in [Breakers -> 0 .. Cooldown]
    /\ at \in [Queries -> 0 .. 3]
    /\ load \in [Queries -> [1 .. 2 -> Loads]]
    /\ todo \in [Queries -> SUBSET Sources]
    /\ call \in [Queries -> [Sources -> {"none", "asking", "append", "ended"}]]
    /\ results \in [Queries -> SUBSET Sources]
    /\ late \in [Queries -> BOOLEAN] /\ told \in [Queries -> SUBSET Sources]
    /\ streak \in [Breakers -> 0 .. MaxFails] /\ calm \in [Breakers -> 0 .. Cooldown]

Init ==
    /\ \E l \in Loads : current = [r \in 1 .. 2 |-> l] /\ load = [q \in Queries |-> current]
    /\ state = [b \in Breakers |-> "closed"]
    /\ fails = [b \in Breakers |-> 0] /\ age = [b \in Breakers |-> Cooldown]
    /\ at = [q \in Queries |-> 0]
    /\ todo = [q \in Queries |-> {}]
    /\ call = [q \in Queries |-> [s \in Sources |-> "none"]]
    /\ results = [q \in Queries |-> {}]
    /\ late = [q \in Queries |-> FALSE] /\ told = results
    /\ streak = fails /\ calm = age

-----------------------------------------------------------------------------
(* Breaker                                                                 *)

Min2(a, b) == IF a < b THEN a ELSE b

Allows(b) == state[b] = "open" => age[b] >= Cooldown

\* The cooldown is over when it is asked for.
Allow(b) ==
    /\ Allows(b)
    /\ state' = [state EXCEPT ![b] = IF @ = "open" THEN "half" ELSE @]
    /\ UNCHANGED <<fails, age>>

Success(b) ==
    /\ fails' = [fails EXCEPT ![b] = 0]
    /\ state' = [state EXCEPT ![b] = "closed"]
    /\ UNCHANGED age

\* Bug: only a closed breaker opens.
FailureOfClosed(b) ==
    /\ fails' = [fails EXCEPT ![b] = Min2(@ + 1, MaxFails)]
    /\ age' = [age EXCEPT ![b] = 0]
    /\ state' = [state EXCEPT ![b] = IF fails'[b] >= MaxFails /\ @ = "closed" THEN "open" ELSE @]

Failure(b) ==
    /\ fails' = [fails EXCEPT ![b] = Min2(@ + 1, MaxFails)]
    /\ age' = [age EXCEPT ![b] = 0]
    /\ state' = [state EXCEPT ![b] = IF fails'[b] >= MaxFails THEN "open" ELSE @]

-----------------------------------------------------------------------------
(* queryAll and enrichAll, the caller's part                               *)

Over(q) == at[q] \in {0, 3} /\ \A s \in Sources : call[q][s] \in {"none", "ended"}

\* The sources and their breakers are read under one lock.
Begin(q) ==
    /\ Over(q)
    /\ at' = [at EXCEPT ![q] = 1]
    /\ load' = [load EXCEPT ![q] = current]
    /\ todo' = [todo EXCEPT ![q] = Providers]
    /\ call' = [call EXCEPT ![q] = [s \in Sources |-> "none"]]
    /\ results' = [results EXCEPT ![q] = {}]
    /\ late' = [late EXCEPT ![q] = FALSE] /\ told' = [told EXCEPT ![q] = {}]
    /\ UNCHANGED <<current, breakers, streak, calm>>

\* The loop starts a goroutine for the next source, or passes over it.
Ask(q, s) ==
    /\ s \in todo[q]
    /\ todo' = [todo EXCEPT ![q] = @ \ {s}]
    /\ \/ /\ Allow(BreakerOf(q, s))
          /\ call' = [call EXCEPT ![q][s] = "asking"]
       \/ /\ ~Allows(BreakerOf(q, s))
          /\ UNCHANGED <<breakers, call>>
    /\ UNCHANGED <<current, at, load, results, history>>

Waiting(q) == at[q] \in {1, 2} /\ todo[q] = {}

\* Bug: a goroutine is done before its answer is collected.
AllReported(q) == \A s \in SourcesOf(at[q]) : call[q][s] # "asking"

AllDone(q) == \A s \in SourcesOf(at[q]) : call[q][s] \in {"none", "ended"}

\* Without an answer the query ends; what the providers said decides which
\* geocoders are asked.
NextRound(q) ==
    /\ late' = [late EXCEPT ![q] = @ \/ ~AllDone(q)]
    /\ IF at[q] = 1 /\ results[q] # {}
       THEN /\ at' = [at EXCEPT ![q] = 2]
            /\ load' = [load EXCEPT ![q][2] = current[2]]
            /\ \E S \in SUBSET Geocoders : todo' = [todo EXCEPT ![q] = S]
       ELSE at' = [at EXCEPT ![q] = 3] /\ UNCHANGED <<load, todo>>
    /\ UNCHANGED <<current, breakers, call, results, told, streak, calm>>

\* Bug: a round has no deadline.
RoundEndsWhenDone(q) == Waiting(q) /\ AllDone(q) /\ NextRound(q)

\* All goroutines are done, or the deadline passes.
RoundEnds(q) == Waiting(q) /\ NextRound(q)

-----------------------------------------------------------------------------
(* The goroutines                                                          *)

\* The caller holds resMu until it has merged the answers.
Locked(q) == at[q] = 2

\* Bug: the breaker is looked up when the source has answered.
FailsNow(q, s) ==
    /\ call[q][s] = "asking"
    /\ call' = [call EXCEPT ![q][s] = "ended"]
    /\ Failure(<<current[RoundOf(s)], s>>)
    /\ LET b == BreakerOf(q, s)
       IN /\ streak' = [streak EXCEPT ![b] = Min2(@ + 1, MaxFails)]
          /\ calm' = [calm EXCEPT ![b] = 0]
    /\ UNCHANGED <<current, at, load, todo, results, late, told>>

Fails(q, s) ==
    /\ call[q][s] = "asking"
    /\ call' = [call EXCEPT ![q][s] = "ended"]
    /\ LET b == BreakerOf(q, s)
       IN /\ Failure(b)
          /\ streak' = [streak EXCEPT ![b] = Min2(@ + 1, MaxFails)]
          /\ calm' = [calm EXCEPT ![b] = 0]
    /\ UNCHANGED <<current, at, load, todo, results, late, told>>

Answers(q, s) ==
    /\ call[q][s] = "asking"
    /\ call' = [call EXCEPT ![q][s] = "append"]
    /\ told' = [told EXCEPT ![q] = @ \cup {s}]
    /\ LET b == BreakerOf(q, s) IN Success(b) /\ streak' = [streak EXCEPT ![b] = 0]
    /\ UNCHANGED <<current, at, load, todo, results, late, calm>>

\* The answers of the two rounds have a mutex each.  After the query the
\* answer goes nowhere.
Collect(q, s) ==
    /\ call[q][s] = "append"
    /\ Locked(q) => s \in Geocoders
    /\ call' = [call EXCEPT ![q][s] = "ended"]
    /\ results' = [results EXCEPT ![q] = IF at[q] = 3 THEN @ ELSE @ \cup {s}]
    /\ UNCHANGED <<current, breakers, at, load, todo, history>>

-----------------------------------------------------------------------------

\* SetGeocoders and ReloadProviders, by the request that reloads the scripts:
\* the sources get new breakers; queries under way keep theirs.
Reload(r) ==
    /\ SourcesOf(r) # {}
    /\ \E l \in Loads \ {current[r]} :
          /\ \A q \in Queries : Over(q) \/ load[q][r] # l
          /\ current' = [current EXCEPT ![r] = l]
          /\ LET new == {l} \X SourcesOf(r)
             IN /\ state' = [b \in Breakers |-> IF b \in new THEN "closed" ELSE state[b]]
                /\ fails' = [b \in Breakers |-> IF b \in new THEN 0 ELSE fails[b]]
                /\ age' = [b \in Breakers |-> IF b \in new THEN Cooldown ELSE age[b]]
                /\ streak' = [b \in Breakers |-> IF b \in new THEN 0 ELSE streak[b]]
                /\ calm' = [b \in Breakers |-> IF b \in new THEN Cooldown ELSE calm[b]]
    /\ UNCHANGED <<queries, late, told>>

Tick ==
    /\ age' = [b \in Breakers |-> Min2(age[b] + 1, Cooldown)]
    /\ calm' = [b \in Breakers |-> Min2(calm[b] + 1, Cooldown)]
    /\ UNCHANGED <<current, state, fails, queries, late, told, streak>>

Goes(q) == RoundEnds(q) \/ \E s \in Sources : Ask(q, s)
Goroutine(q, s) == Fails(q, s) \/ Answers(q, s) \/ Collect(q, s)

Next ==
    \/ \E q \in Queries : Begin(q) \/ Goes(q) \/ \E s \in Sources : Goroutine(q, s)
    \/ \E r \in Reloaded : Reload(r)
    \/ Tick

Spec == Init /\ [][Next]_vars

\* The caller goes on and its deadlines pass; a source that is asked need not
\* answer.
FairSpec == Spec /\ \A q \in Queries : WF_vars(Goes(q))

-----------------------------------------------------------------------------
(* Properties                                                              *)

Tripped(b) == streak[b] >= MaxFails /\ calm[b] < Cooldown

\* breaker.go:19: failures in a row trip the breaker until the cooldown is
\* over.  Whatever queries share it and however late their goroutines report,
\* a source is passed over if and only if its last MaxFails reports were
\* failures and the last of them is recent; reports to the breakers from
\* before a reload do not count.
PassedOverIfTripped ==
    [][\A q \in Queries : \A s \in todo[q] \ todo'[q] :
          call'[q][s] = "asking" <=> ~Tripped(BreakerOf(q, s))]_vars

\* A query that met no deadline has used every answer it was given: a round
\* is over only when the answers of its goroutines are collected.
AnswersAreUsed ==
    \A q \in Queries : at[q] = 3 /\ ~late[q] => results[q] = told[q]

\* Every query ends, whether its sources answer or not: what GeoLookup takes
\* for granted of its query.
QueriesEnd == \A q \in Queries : at[q] \in {1, 2} ~> at[q] = 3

-----------------------------------------------------------------------------
(* What a comment says and the code does not do                            *)

\* breaker.go:19: after it tripped a breaker cools down and is probed half
\* open.  So it is not closed before.
TripLastsCooldown ==
    [][\A b \in Breakers : state[b] = "open" /\ state'[b] = "closed" =>
          age[b] >= Cooldown \/ current' # current]_vars

=============================================================================
