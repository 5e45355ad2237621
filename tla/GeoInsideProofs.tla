--------------------------- MODULE GeoInsideProofs --------------------------
(***************************************************************************)
(* Proofs about the inside of a location query, GeoQuery, for any sources  *)
(* and any number of queries, and about the file of its cache,             *)
(* GeoCacheFile, for any number of saves.                                  *)
(***************************************************************************)
EXTENDS GeoQuery, GeoCacheFile, FiniteSetTheorems, TLAPS

-----------------------------------------------------------------------------
(* Types of GeoQuery                                                       *)

LEMMA MinType ==
    ASSUME NEW m \in Nat, NEW n \in 0 .. m
    PROVE  Min2(n + 1, m) \in 0 .. m
BY DEF Min2

LEMMA BreakerType ==
    ASSUME TypeOK, NEW q \in Queries, NEW s \in Sources
    PROVE  BreakerOf(q, s) \in Breakers
BY DEF TypeOK, BreakerOf, Breakers, RoundOf

LEMMA QueryTypeInit == Init => TypeOK
BY QueryAssumption DEF Init, TypeOK

LEMMA QueryTypeStep == TypeOK /\ [Next]_vars => TypeOK'
<1> SUFFICES ASSUME TypeOK, [Next]_vars PROVE TypeOK'
  OBVIOUS
<1>1. ASSUME NEW q \in Queries, Begin(q) PROVE TypeOK'
  BY <1>1 DEF Begin, TypeOK, Sources, breakers
<1>2. ASSUME NEW q \in Queries, NEW s \in Sources, Ask(q, s) PROVE TypeOK'
  <2>1. BreakerOf(q, s) \in Breakers
    BY BreakerType
  <2>2. state' \in [Breakers -> {"closed", "open", "half"}] /\ fails' = fails /\ age' = age
    BY <1>2, <2>1 DEF Ask, Allow, breakers, TypeOK
  <2>3. call' \in [Queries -> [Sources -> {"none", "asking", "append", "ended"}]]
    <3>1. call' = call \/ call' = [call EXCEPT ![q] = [call[q] EXCEPT ![s] = "asking"]]
      BY <1>2 DEF Ask, TypeOK
    <3>2. call[q] \in [Sources -> {"none", "asking", "append", "ended"}]
      BY DEF TypeOK
    <3>3. [call[q] EXCEPT ![s] = "asking"] \in [Sources -> {"none", "asking", "append", "ended"}]
      BY <3>2
    <3>4. QED
      BY <3>1, <3>3 DEF TypeOK
  <2>4. QED
    BY <1>2, <2>2, <2>3 DEF Ask, TypeOK, history
<1>3. ASSUME NEW q \in Queries, RoundEnds(q) PROVE TypeOK'
  <2>1. /\ late' \in [Queries -> BOOLEAN] /\ at' \in [Queries -> 0 .. 3]
        /\ load' \in [Queries -> [1 .. 2 -> Loads]]
    <3>1. load' = load \/ load' = [load EXCEPT ![q] = [load[q] EXCEPT ![2] = current[2]]]
      BY <1>3 DEF RoundEnds, NextRound, TypeOK
    <3>2. [load[q] EXCEPT ![2] = current[2]] \in [1 .. 2 -> Loads]
      BY DEF TypeOK
    <3>3. load' \in [Queries -> [1 .. 2 -> Loads]]
      BY <3>1, <3>2 DEF TypeOK
    <3> DEFINE cut == late[q] \/ ~AllDone(q)
    <3>4. cut \in BOOLEAN /\ late' = [late EXCEPT ![q] = cut]
      BY <1>3, Zenon DEF RoundEnds, NextRound, TypeOK
    <3> HIDE DEF cut
    <3>5. at' \in [Queries -> 0 .. 3]
      <4>1. at' = [at EXCEPT ![q] = 2] \/ at' = [at EXCEPT ![q] = 3]
        BY <1>3, Zenon DEF RoundEnds, NextRound
      <4>2. at \in [Queries -> 0 .. 3]
        BY DEF TypeOK
      <4>3. QED
        BY <4>1, <4>2
    <3>6. QED
      BY <3>3, <3>4, <3>5 DEF TypeOK
  <2>2. todo' \in [Queries -> SUBSET Sources]
    BY <1>3, SMTT(30) DEF RoundEnds, NextRound, TypeOK, Sources
  <2>3. QED
    BY <1>3, <2>1, <2>2 DEF RoundEnds, NextRound, TypeOK, breakers
<1>4. ASSUME NEW q \in Queries, NEW s \in Sources, Goroutine(q, s) PROVE TypeOK'
  <2> DEFINE b == BreakerOf(q, s)
  <2>1. b \in Breakers
    BY BreakerType
  <2>2. Min2(fails[b] + 1, MaxFails) \in 0 .. MaxFails /\ Min2(streak[b] + 1, MaxFails) \in 0 .. MaxFails
    BY <2>1, MinType, QueryAssumption DEF TypeOK
  <2> HIDE DEF b
  <2>3. CASE Fails(q, s)
    BY <2>1, <2>2, <2>3, QueryAssumption DEF Fails, Failure, b, TypeOK
  <2>4. CASE Answers(q, s)
    BY <2>1, <2>4, QueryAssumption DEF Answers, Success, b, TypeOK
  <2>5. CASE Collect(q, s)
    BY <2>5 DEF Collect, TypeOK, breakers, history
  <2>6. QED
    BY <1>4, <2>3, <2>4, <2>5 DEF Goroutine
<1>5. ASSUME NEW r \in Reloaded, Reload(r) PROVE TypeOK'
  <2>1. r \in 1 .. 2
    BY QueryAssumption
  <2>2. PICK l \in Loads :
          /\ current' = [current EXCEPT ![r] = l]
          /\ LET new == {l} \X SourcesOf(r)
             IN /\ state' = [b \in Breakers |-> IF b \in new THEN "closed" ELSE state[b]]
                /\ fails' = [b \in Breakers |-> IF b \in new THEN 0 ELSE fails[b]]
                /\ age' = [b \in Breakers |-> IF b \in new THEN Cooldown ELSE age[b]]
                /\ streak' = [b \in Breakers |-> IF b \in new THEN 0 ELSE streak[b]]
                /\ calm' = [b \in Breakers |-> IF b \in new THEN Cooldown ELSE calm[b]]
    BY <1>5 DEF Reload
  <2>3. QED
    BY <1>5, <2>1, <2>2, QueryAssumption DEF Reload, TypeOK, queries
<1>6. CASE Tick
  <2>1. ASSUME NEW b \in Breakers
        PROVE  Min2(age[b] + 1, Cooldown) \in 0 .. Cooldown /\ Min2(calm[b] + 1, Cooldown) \in 0 .. Cooldown
    BY MinType, QueryAssumption DEF TypeOK
  <2>2. QED
    BY <1>6, <2>1 DEF Tick, TypeOK, queries
<1>7. CASE UNCHANGED vars
  BY <1>7 DEF vars, breakers, queries, history, TypeOK
<1>8. QED
  BY <1>1, <1>2, <1>3, <1>4, <1>5, <1>6, <1>7 DEF Next, Goes

\* The queries, the breakers and the histories stay in their types, whatever
\* the number of sources and queries.
THEOREM QueryTypes == Spec => []TypeOK
<1>1. Init => TypeOK
  BY QueryTypeInit
<1>2. TypeOK /\ [Next]_vars => TypeOK'
  BY QueryTypeStep
<1> QED
  BY <1>1, <1>2, PTL DEF Spec

-----------------------------------------------------------------------------
(* The breakers                                                            *)

\* The breaker of a source is its history: its counter is the streak, its
\* clock the time since the last failure, and it is open as long as it is
\* tripped.
BreakerInv ==
    \A b \in Breakers :
        /\ fails[b] = streak[b] /\ age[b] = calm[b]
        /\ state[b] = "open" => fails[b] >= MaxFails
        /\ fails[b] >= MaxFails /\ age[b] < Cooldown => state[b] = "open"

\* A source the loop has yet to come to is not being asked.
LoopInv ==
    \A q \in Queries :
        /\ at[q] \in {0, 3} => todo[q] = {}
        /\ at[q] = 1 => todo[q] \subseteq Providers /\ \A s \in Geocoders : call[q][s] = "none"
        /\ at[q] = 2 => todo[q] \subseteq Geocoders
        /\ \A s \in todo[q] : call[q][s] = "none"

\* What a query was told is what it has collected and what its goroutines are
\* about to hand over; when no deadline has passed, a round that is over has
\* no goroutine left.
AnswerInv ==
    \A q \in Queries :
        /\ at[q] = 0 => \A s \in Sources : call[q][s] = "none"
        /\ at[q] # 3 \/ ~late[q] => told[q] = results[q] \cup {s \in Sources : call[q][s] = "append"}
        /\ ~late[q] /\ at[q] \in {2, 3} => \A s \in Providers : call[q][s] \in {"none", "ended"}
        /\ ~late[q] /\ at[q] = 3 => \A s \in Geocoders : call[q][s] \in {"none", "ended"}

LEMMA BreakerInit == Init => BreakerInv
BY QueryAssumption DEF Init, BreakerInv

LEMMA BreakerStep == TypeOK /\ BreakerInv /\ [Next]_vars => BreakerInv'
<1> SUFFICES ASSUME TypeOK, BreakerInv, [Next]_vars PROVE BreakerInv'
  OBVIOUS
<1> USE QueryAssumption
<1>1. /\ fails \in [Breakers -> 0 .. MaxFails] /\ age \in [Breakers -> 0 .. Cooldown]
      /\ streak \in [Breakers -> 0 .. MaxFails] /\ calm \in [Breakers -> 0 .. Cooldown]
      /\ state \in [Breakers -> {"closed", "open", "half"}]
  BY DEF TypeOK
<1>2. ASSUME NEW q \in Queries, NEW s \in Sources, Ask(q, s) PROVE BreakerInv'
  BY <1>1, <1>2, BreakerType DEF Ask, Allow, Allows, breakers, history, BreakerInv
<1>3. ASSUME NEW q \in Queries, NEW s \in Sources, Goroutine(q, s) PROVE BreakerInv'
  <2> DEFINE b == BreakerOf(q, s)
  <2>1. b \in Breakers
    BY BreakerType
  <2> HIDE DEF b
  <2>2. CASE Fails(q, s)
    BY <1>1, <2>1, <2>2 DEF Fails, Failure, b, Min2, BreakerInv
  <2>3. CASE Answers(q, s)
    BY <1>1, <2>1, <2>3 DEF Answers, Success, b, BreakerInv
  <2>4. CASE Collect(q, s)
    BY <2>4 DEF Collect, breakers, history, BreakerInv
  <2>5. QED
    BY <1>3, <2>2, <2>3, <2>4 DEF Goroutine
<1>4. ASSUME NEW r \in Reloaded, Reload(r) PROVE BreakerInv'
  BY <1>1, <1>4 DEF Reload, BreakerInv
<1>5. CASE Tick
  BY <1>1, <1>5 DEF Tick, Min2, BreakerInv
<1>6. ASSUME UNCHANGED <<breakers, streak, calm>> PROVE BreakerInv'
  BY <1>6 DEF breakers, BreakerInv
<1>7. ASSUME NEW q \in Queries, Begin(q) \/ RoundEnds(q) PROVE BreakerInv'
  BY <1>6, <1>7 DEF Begin, RoundEnds, NextRound
<1>8. QED
  BY <1>2, <1>3, <1>4, <1>5, <1>6, <1>7 DEF Next, Goes, vars, history

LEMMA LoopInit == Init => LoopInv
BY DEF Init, LoopInv, Sources

LEMMA LoopStep == TypeOK /\ LoopInv /\ [Next]_vars => LoopInv'
<1> SUFFICES ASSUME TypeOK, LoopInv, [Next]_vars PROVE LoopInv'
  OBVIOUS
<1>1. /\ at \in [Queries -> 0 .. 3] /\ todo \in [Queries -> SUBSET Sources]
      /\ call \in [Queries -> [Sources -> {"none", "asking", "append", "ended"}]]
  BY DEF TypeOK
<1>2. Providers \cap Geocoders = {} /\ Sources = Providers \cup Geocoders
  BY QueryAssumption DEF Sources
<1>3. ASSUME NEW q \in Queries, Begin(q) PROVE LoopInv'
  BY <1>1, <1>2, <1>3 DEF Begin, LoopInv
<1>4. ASSUME NEW q \in Queries, NEW s \in Sources, Ask(q, s) PROVE LoopInv'
  <2>1. /\ s \in todo[q] /\ at' = at /\ todo' = [todo EXCEPT ![q] = @ \ {s}]
        /\ call' = call \/ call' = [call EXCEPT ![q] = [call[q] EXCEPT ![s] = "asking"]]
    BY <1>1, <1>4 DEF Ask
  <2>2. at[q] # 1 \/ s \notin Geocoders
    BY <1>2, <2>1 DEF LoopInv
  <2>3. \A p \in Queries : \A t \in Sources : call'[p][t] = call[p][t] \/ (p = q /\ t = s)
    BY <1>1, <2>1
  <2>4. todo'[q] = todo[q] \ {s} /\ \A p \in Queries \ {q} : todo'[p] = todo[p]
    BY <1>1, <2>1
  <2>5. todo \in [Queries -> SUBSET Sources] /\ Geocoders \subseteq Sources
    BY <1>1, <1>2
  <2>6. QED
    BY <2>1, <2>2, <2>3, <2>4, <2>5 DEF LoopInv
<1>5. ASSUME NEW q \in Queries, RoundEnds(q) PROVE LoopInv'
  BY <1>1, <1>2, <1>5 DEF RoundEnds, Waiting, NextRound, LoopInv
<1>6. ASSUME NEW q \in Queries, NEW s \in Sources, Goroutine(q, s) PROVE LoopInv'
  <2>1. /\ at' = at /\ todo' = todo /\ call[q][s] \in {"asking", "append"}
        /\ \E c \in {"append", "ended"} : call' = [call EXCEPT ![q] = [call[q] EXCEPT ![s] = c]]
    BY <1>1, <1>6 DEF Goroutine, Fails, Answers, Collect
  <2>2. call'[q] = [call[q] EXCEPT ![s] = call'[q][s]] /\ \A p \in Queries \ {q} : call'[p] = call[p]
    BY <1>1, <1>6, <2>1
  <2>3. \A p \in Queries : \A t \in Sources : call[p][t] = "none" => call'[p][t] = "none"
    BY <1>1, <2>1, <2>2
  <2>4. todo \in [Queries -> SUBSET Sources] /\ Geocoders \subseteq Sources
    BY <1>1, <1>2
  <2>5. QED
    BY <2>1, <2>3, <2>4 DEF LoopInv
<1>7. ASSUME UNCHANGED <<at, todo, call>> PROVE LoopInv'
  BY <1>7 DEF LoopInv
<1>8. QED
  BY <1>3, <1>4, <1>5, <1>6, <1>7 DEF Next, Goes, Reload, Tick, vars, queries

\* A source is passed over if and only if its last MaxFails reports were
\* failures and the last of them is recent, whatever queries share its breaker
\* and however late their goroutines report.
THEOREM TrippedArePassedOver == Spec => PassedOverIfTripped
<1>1. Init => TypeOK /\ BreakerInv /\ LoopInv
  BY QueryTypeInit, BreakerInit, LoopInit
<1>2. TypeOK /\ BreakerInv /\ LoopInv /\ [Next]_vars => (TypeOK /\ BreakerInv /\ LoopInv)'
  BY QueryTypeStep, BreakerStep, LoopStep
<1>3. ASSUME TypeOK, BreakerInv, LoopInv, [Next]_vars,
             NEW q \in Queries, NEW s \in todo[q] \ todo'[q]
      PROVE  call'[q][s] = "asking" <=> ~Tripped(BreakerOf(q, s))
  <2>1. s \in Sources /\ call[q][s] = "none" /\ at[q] \in {1, 2}
    <3>1. s \in todo[q] /\ todo \in [Queries -> SUBSET Sources] /\ at[q] \in 0 .. 3
      BY <1>3 DEF TypeOK
    <3>2. QED
      BY <1>3, <3>1 DEF LoopInv
  <2>2. Ask(q, s)
    <3>1. todo' # todo
      BY <1>3
    <3>2. PICK p \in Queries : Begin(p) \/ Goes(p)
      BY <1>3, <3>1 DEF Next, Goroutine, Fails, Answers, Collect, Reload, Tick, vars, queries
    <3>3. ~ Begin(p) /\ ~ RoundEnds(p)
      <4>1. s \in todo[q] /\ s \notin todo'[q] /\ todo \in [Queries -> SUBSET Sources]
        BY <1>3 DEF TypeOK
      <4>2. p # q => ~(Begin(p) \/ RoundEnds(p))
        BY <1>3, <4>1 DEF Begin, RoundEnds, NextRound
      <4>3. ~(Begin(q) \/ RoundEnds(q))
        BY <2>1, <4>1 DEF Begin, Over, RoundEnds, Waiting
      <4>4. QED
        BY <4>2, <4>3
    <3>4. PICK t \in Sources : Ask(p, t)
      BY <3>2, <3>3 DEF Goes
    <3>5. p = q /\ t = s
      BY <1>3, <3>4 DEF Ask, TypeOK
    <3>6. QED
      BY <3>4, <3>5
  <2>3. BreakerOf(q, s) \in Breakers
    BY <1>3, <2>1, BreakerType
  <2>4. call'[q][s] = "asking" <=> Allows(BreakerOf(q, s))
    BY <1>3, <2>1, <2>2 DEF Ask, Allow, breakers, TypeOK
  <2>5. Allows(BreakerOf(q, s)) <=> ~Tripped(BreakerOf(q, s))
    BY <1>3, <2>3, QueryAssumption DEF BreakerInv, Allows, Tripped, TypeOK
  <2>6. QED
    BY <2>4, <2>5
<1>4. TypeOK /\ BreakerInv /\ LoopInv /\ [Next]_vars
        => [\A q \in Queries : \A s \in todo[q] \ todo'[q] :
               call'[q][s] = "asking" <=> ~Tripped(BreakerOf(q, s))]_vars
  BY <1>3
<1>5. QED
  BY <1>1, <1>2, <1>4, PTL DEF Spec, PassedOverIfTripped

-----------------------------------------------------------------------------
(* The answers                                                             *)

LEMMA AnswerInit == Init => AnswerInv
BY DEF Init, AnswerInv, Sources

LEMMA AnswerStep == TypeOK /\ LoopInv /\ AnswerInv /\ [Next]_vars => AnswerInv'
<1> SUFFICES ASSUME TypeOK, LoopInv, AnswerInv, [Next]_vars PROVE AnswerInv'
  OBVIOUS
<1>1. /\ at \in [Queries -> 0 .. 3] /\ late \in [Queries -> BOOLEAN]
      /\ call \in [Queries -> [Sources -> {"none", "asking", "append", "ended"}]]
      /\ results \in [Queries -> SUBSET Sources] /\ told \in [Queries -> SUBSET Sources]
  BY DEF TypeOK
<1>2. Sources = Providers \cup Geocoders
  BY DEF Sources
<1>3. ASSUME NEW q \in Queries, Begin(q) PROVE AnswerInv'
  BY <1>1, <1>2, <1>3 DEF Begin, AnswerInv
<1>4. ASSUME NEW q \in Queries, NEW s \in Sources, Ask(q, s) PROVE AnswerInv'
  <2>1. /\ s \in todo[q] /\ UNCHANGED <<at, late, results, told>> /\ call[q][s] = "none"
        /\ call' = call \/ call' = [call EXCEPT ![q] = [call[q] EXCEPT ![s] = "asking"]]
    BY <1>1, <1>4 DEF Ask, LoopInv, history
  <2>2. at[q] \in {1, 2} /\ (at[q] = 2 => s \in Geocoders)
    BY <1>1, <2>1 DEF LoopInv
  <2>3. QED
    BY <1>1, <1>2, <2>1, <2>2, QueryAssumption, SMTT(30) DEF AnswerInv
<1>5. ASSUME NEW q \in Queries, RoundEnds(q) PROVE AnswerInv'
  <2>1. /\ at[q] \in {1, 2} /\ UNCHANGED <<call, results, told>>
        /\ \A p \in Queries \ {q} : at'[p] = at[p] /\ late'[p] = late[p]
        /\ at'[q] \in {2, 3} /\ (at[q] = 2 => at'[q] = 3)
        /\ late'[q] = (late[q] \/ ~AllDone(q))
    BY <1>1, <1>5, Zenon DEF RoundEnds, Waiting, NextRound
  <2>2. at[q] = 1 => \A s \in Geocoders : call[q][s] = "none"
    BY DEF LoopInv
  <2>3. AllDone(q) => \A s \in SourcesOf(at[q]) : call[q][s] \in {"none", "ended"}
    BY DEF AllDone
  <2>4. at[q] = 1 /\ AllDone(q) => \A s \in Sources : call[q][s] \in {"none", "ended"}
    BY <1>2, <2>2, <2>3 DEF SourcesOf
  <2>5. at[q] = 2 /\ AllDone(q) => \A s \in Geocoders : call[q][s] \in {"none", "ended"}
    BY <2>3 DEF SourcesOf
  <2>6. ~late'[q] => ~late[q] /\ AllDone(q)
    BY <2>1
  <2> HIDE DEF AllDone
  <2>7. ASSUME NEW p \in Queries \ {q}
        PROVE  at'[p] = at[p] /\ late'[p] = late[p] /\ call'[p] = call[p] /\ results'[p] = results[p] /\ told'[p] = told[p]
    BY <2>1
  <2>8. told[q] = results[q] \cup {s \in Sources : call[q][s] = "append"}
    BY <2>1 DEF AnswerInv
  <2>9. at[q] = 2 /\ ~late[q] => \A s \in Providers : call[q][s] \in {"none", "ended"}
    BY DEF AnswerInv
  <2>10. QED
    BY <1>2, <2>1, <2>4, <2>5, <2>6, <2>7, <2>8, <2>9 DEF AnswerInv
<1>6. ASSUME NEW q \in Queries, NEW s \in Sources, Goroutine(q, s) PROVE AnswerInv'
  <2>1. call[q][s] \in {"asking", "append"} /\ UNCHANGED <<at, late>>
    BY <1>6 DEF Goroutine, Fails, Answers, Collect, history
  <2>2. at[q] # 0 /\ ~(at[q] = 3 /\ ~late[q]) /\ (~late[q] => at[q] # 2 \/ s \notin Providers)
    BY <1>2, <2>1 DEF AnswerInv
  <2>3. CASE Fails(q, s)
    BY <1>1, <1>2, <2>1, <2>2, <2>3 DEF Fails, AnswerInv
  <2>4. CASE Answers(q, s)
    BY <1>1, <1>2, <2>1, <2>2, <2>4 DEF Answers, AnswerInv
  <2>5. CASE Collect(q, s)
    BY <1>1, <1>2, <2>1, <2>2, <2>5 DEF Collect, AnswerInv, history
  <2>6. QED
    BY <1>6, <2>3, <2>4, <2>5 DEF Goroutine
<1>7. ASSUME UNCHANGED <<at, late, call, results, told>> PROVE AnswerInv'
  BY <1>7 DEF AnswerInv
<1>8. QED
  BY <1>3, <1>4, <1>5, <1>6, <1>7 DEF Next, Goes, Reload, Tick, vars, queries, history

\* A query that met no deadline has used every answer it was given.
THEOREM NoAnswerIsLost == Spec => []AnswersAreUsed
<1>1. Init => TypeOK /\ LoopInv /\ AnswerInv
  BY QueryTypeInit, LoopInit, AnswerInit
<1>2. TypeOK /\ LoopInv /\ AnswerInv /\ [Next]_vars => (TypeOK /\ LoopInv /\ AnswerInv)'
  BY QueryTypeStep, LoopStep, AnswerStep
<1>3. AnswerInv => AnswersAreUsed
  <2> SUFFICES ASSUME AnswerInv, NEW q \in Queries, at[q] = 3, ~late[q]
               PROVE  results[q] = told[q]
    BY DEF AnswersAreUsed
  <2>1. {s \in Sources : call[q][s] = "append"} = {}
    BY DEF AnswerInv, Sources
  <2>2. told[q] = results[q] \cup {s \in Sources : call[q][s] = "append"}
    BY DEF AnswerInv
  <2>3. QED
    BY <2>1, <2>2
<1>4. QED
  BY <1>1, <1>2, <1>3, PTL DEF Spec

-----------------------------------------------------------------------------
(* Types of GeoCacheFile                                                   *)

Contents == {Empty, Torn} \cup {Whole(S) : S \in SUBSET Putters}

LEMMA FileTypeInit == FileInit => FileTypeOK
<1> SUFFICES ASSUME FileInit PROVE FileTypeOK
  OBVIOUS
<1>1. content \in [Savers -> Contents]
  BY DEF FileInit, Contents
<1>2. /\ items \subseteq Putters /\ newOps \in Nat /\ met \subseteq Savers /\ last \subseteq Putters
      /\ mixed \in BOOLEAN /\ missed \in BOOLEAN
  BY DEF FileInit
<1>3. starts \in 0 .. MaxStarts
  BY FileAssumption DEF FileInit
<1>4. /\ pc \in [Putters -> {"idle", "count", "reset", "done"}]
      /\ save \in [Savers -> {"none", "snap", "open", "write", "rename", "remove", "done"}]
      /\ clean \in [Savers -> SUBSET Putters] /\ fd \in [Savers -> Savers \cup {None}]
      /\ tmp \in Savers \cup {None} /\ disk \in Savers \cup {None}
  BY DEF FileInit
<1>5. QED
  BY <1>1, <1>2, <1>3, <1>4 DEF FileTypeOK, Contents

LEMMA FileTypeStep == FileTypeOK /\ [FileNext]_fileVars => FileTypeOK'
<1> SUFFICES ASSUME FileTypeOK, [FileNext]_fileVars PROVE FileTypeOK'
  OBVIOUS
<1> USE FileAssumption DEF FileTypeOK
<1>1. content \in [Savers -> Contents]
  BY DEF Contents
<1>2. ASSUME NEW p \in Putters, Put(p) \/ Expire(p) PROVE FileTypeOK'
  <2>1. p \in Savers
    BY DEF Savers
  <2>2. CASE PutItem(p)
    BY <2>2 DEF PutItem, saving, files, fileHistory
  <2>3. CASE Count(p)
    BY <2>3 DEF Count, saving, files, fileHistory
  <2>4. CASE Reset(p)
    BY <2>1, <2>4 DEF Reset, files, fileHistory
  <2>5. CASE Expire(p)
    BY <2>5 DEF Expire, saving, files, fileHistory
  <2>6. QED
    BY <1>2, <2>2, <2>3, <2>4, <2>5 DEF Put
<1>3. ASSUME NEW s \in Savers, Save(s) PROVE FileTypeOK'
  <2>1. CASE TakeSnapshot(s)
    <3>1. met' \subseteq Savers
      BY <2>1 DEF TakeSnapshot
    <3>2. QED
      BY <2>1, <3>1 DEF TakeSnapshot, Goto, memory, files
  <2>2. CASE OpenTmp(s)
    <3>1. tmp' \in Savers /\ Empty \in Contents
      BY <2>2 DEF OpenTmp, Contents
    <3>2. content' \in [Savers -> Contents]
      BY <1>1, <2>2, <3>1 DEF OpenTmp
    <3>3. QED
      BY <2>2, <3>1, <3>2 DEF OpenTmp, Goto, memory, fileHistory, Contents
  <2>3. CASE WriteTmp(s)
    <3>1. Whole(clean[s]) \in Contents /\ Torn \in Contents
      BY DEF Contents
    <3>2. content' \in [Savers -> Contents]
      <4>1. \E c \in Contents : content' = [content EXCEPT ![fd[s]] = c]
        BY <2>3, <3>1 DEF WriteTmp
      <4>2. QED
        BY <1>1, <4>1
    <3>3. QED
      BY <2>3, <3>2 DEF WriteTmp, Close, Goto, memory, fileHistory, Contents
  <2>4. CASE WriteFails(s)
    <3>1. Torn \in Contents
      BY DEF Contents
    <3>2. content' \in [Savers -> Contents]
      <4>1. fd[s] \in Savers => content[fd[s]] \in Contents
        BY <1>1
      <4>2. PICK c : c \in {content[fd[s]], Torn} /\ content' = [content EXCEPT ![fd[s]] = c]
        BY <2>4 DEF WriteFails
      <4>3. QED
        BY <1>1, <3>1, <4>1, <4>2
    <3>3. QED
      BY <2>4, <3>2 DEF WriteFails, Close, Return, Goto, memory, Contents
  <2>5. CASE Rename(s)
    BY <2>5 DEF Rename, Return, Goto, memory
  <2>6. CASE RenameFails(s)
    BY <2>6 DEF RenameFails, Goto, memory, files
  <2>7. CASE RemoveTmp(s)
    BY <2>7 DEF RemoveTmp, Return, Goto, memory, fileHistory
  <2>8. QED
    BY <1>3, <2>1, <2>2, <2>3, <2>4, <2>5, <2>6, <2>7 DEF Save
<1>4. CASE Flush
  BY <1>4 DEF Flush, Savers, memory, files, fileHistory
<1>5. CASE Restart
  <2>1. items' \subseteq Putters
    <3>1. \A c \in Contents : c.of \subseteq Putters
      BY DEF Contents, Empty, Torn, Whole
    <3>2. QED
      BY <1>1, <1>5, <3>1 DEF Restart
  <2>2. /\ pc' \in [Putters -> {"idle", "count", "reset", "done"}]
        /\ save' \in [Savers -> {"none", "snap", "open", "write", "rename", "remove", "done"}]
        /\ clean' \in [Savers -> SUBSET Putters] /\ fd' \in [Savers -> Savers \cup {None}]
    BY <1>5 DEF Restart
  <2>3. newOps' \in Nat /\ starts' \in 0 .. MaxStarts
    BY <1>5 DEF Restart
  <2>4. UNCHANGED <<tmp, disk, content, met, last, mixed>> /\ missed' = FALSE
    BY <1>5 DEF Restart, files
  <2>5. QED
    BY <2>1, <2>2, <2>3, <2>4
<1>6. CASE UNCHANGED fileVars
  BY <1>6 DEF fileVars, memory, saving, files, fileHistory
<1>7. QED
  BY <1>2, <1>3, <1>4, <1>5, <1>6 DEF FileNext

-----------------------------------------------------------------------------
(* One file for all saves                                                  *)

\* Every inode is created once, by the save it is called after, and only a
\* save that writes has a descriptor.  A save that met no other is the only
\* one that runs, so the temporary file is its own; and unless saves have met
\* nobody can still write into the file that has the name of the cache.
SavesInv ==
    /\ \A p \in Putters : save[p] # "none" => pc[p] = "done"
    /\ \A s \in Savers : save[s] \in {"none", "snap", "open"} =>
          tmp # s /\ disk # s /\ \A o \in Savers : fd[o] # s
    /\ \A s \in Savers : fd[s] # None <=> save[s] = "write"
    /\ tmp = disk => tmp = None
    /\ \A s \in Savers \ met : Running(s) => \A o \in Savers : Running(o) => o = s
    /\ \A s \in Savers \ met : save[s] = "write" => fd[s] = tmp /\ content[tmp] = Empty
    /\ \A s \in Savers \ met : save[s] = "rename" => tmp # None /\ content[tmp] = Whole(clean[s])
    /\ ~mixed => \A s \in Savers : fd[s] = disk => disk = None

LEMMA SavesInit == FileInit => SavesInv /\ FileIsLastSave
BY FileAssumption DEF FileInit, SavesInv, FileIsLastSave, Running, Savers

LEMMA SavesStep ==
    FileTypeOK /\ SavesInv /\ FileIsLastSave /\ [FileNext]_fileVars => SavesInv' /\ FileIsLastSave'
<1> SUFFICES ASSUME FileTypeOK, SavesInv, FileIsLastSave, [FileNext]_fileVars
             PROVE  SavesInv' /\ FileIsLastSave'
  OBVIOUS
<1>1. /\ pc \in [Putters -> {"idle", "count", "reset", "done"}]
      /\ save \in [Savers -> {"none", "snap", "open", "write", "rename", "remove", "done"}]
      /\ clean \in [Savers -> SUBSET Putters] /\ fd \in [Savers -> Savers \cup {None}]
      /\ tmp \in Savers \cup {None} /\ disk \in Savers \cup {None}
      /\ DOMAIN content = Savers /\ content = [s \in Savers |-> content[s]]
      /\ mixed \in BOOLEAN /\ None \notin Savers /\ Putters \subseteq Savers /\ Flusher \in Savers \ Putters
  BY FileAssumption DEF FileTypeOK, Savers
<1> USE DEF SavesInv, Running
<1>2. ASSUME NEW p \in Putters, Put(p) \/ Expire(p) PROVE SavesInv' /\ FileIsLastSave'
  <2>1. CASE PutItem(p)
    BY <1>1, <2>1 DEF PutItem, saving, files, fileHistory, FileIsLastSave
  <2>2. CASE Count(p)
    BY <1>1, <2>2 DEF Count, saving, files, fileHistory, FileIsLastSave
  <2>3. CASE Reset(p)
    BY <1>1, <2>3 DEF Reset, files, fileHistory, FileIsLastSave
  <2>4. CASE Expire(p)
    BY <1>1, <2>4 DEF Expire, saving, files, fileHistory, FileIsLastSave
  <2>5. QED
    BY <1>2, <2>1, <2>2, <2>3, <2>4 DEF Put
<1>3. ASSUME NEW s \in Savers, Save(s) PROVE SavesInv' /\ FileIsLastSave'
  <2>1. CASE TakeSnapshot(s)
    <3>1. /\ save[s] = "snap" /\ save' = [save EXCEPT ![s] = "open"] /\ clean' = [clean EXCEPT ![s] = items]
          /\ UNCHANGED <<pc, fd, tmp, disk, content, last, mixed>>
      BY <2>1 DEF TakeSnapshot, Goto, memory, files
    <3>2. /\ met \subseteq met'
          /\ s \notin met' => \A o \in Savers : ~Running(o)
          /\ \A o \in Savers \ met' : Running(o) => FALSE
      BY <2>1 DEF TakeSnapshot
    <3>3. QED
      BY <1>1, <3>1, <3>2 DEF FileIsLastSave
  <2>2. CASE OpenTmp(s)
    <3>1. /\ save[s] = "open" /\ tmp' = IF tmp = None THEN s ELSE tmp
          /\ fd' = [fd EXCEPT ![s] = tmp'] /\ content' = [content EXCEPT ![tmp'] = Empty]
          /\ save' = [save EXCEPT ![s] = "write"] /\ UNCHANGED <<pc, clean, disk, met, last, mixed>>
      BY <2>2 DEF OpenTmp, Goto, memory, fileHistory
    <3>2. tmp' \in Savers /\ tmp' # disk
      BY <1>1, <3>1
    <3>3. \A o \in Savers : save[o] \in {"none", "snap", "open"} /\ o # s => tmp' # o
      BY <1>1, <3>1
    <3>4. content'[tmp'] = Empty /\ (disk # None => content'[disk] = content[disk])
      BY <1>1, <3>1, <3>2
    <3>5. QED
      BY <1>1, <3>1, <3>2, <3>3, <3>4 DEF FileIsLastSave
  <2>3. CASE WriteTmp(s)
    <3>1. PICK c \in {Whole(clean[s]), Torn} :
             (content[fd[s]] = Empty => c # Torn) /\ content' = [content EXCEPT ![fd[s]] = c]
      BY <2>3 DEF WriteTmp
    <3>2. /\ save[s] = "write" /\ fd' = [fd EXCEPT ![s] = None] /\ save' = [save EXCEPT ![s] = "rename"]
          /\ UNCHANGED <<pc, clean, tmp, disk, met, last, mixed>>
      BY <2>3 DEF WriteTmp, Close, Goto, memory, fileHistory
    <3>3. fd[s] \in Savers /\ (s \notin met => c = Whole(clean[s]) /\ fd[s] = tmp)
      BY <1>1, <3>1, <3>2
    <3>4. content'[fd[s]] = c /\ (~mixed /\ disk # None => content'[disk] = content[disk])
      BY <1>1, <3>1, <3>3
    <3>5. QED
      BY <1>1, <3>2, <3>3, <3>4 DEF FileIsLastSave
  <2>4. CASE WriteFails(s)
    <3>1. PICK c \in {content[fd[s]], Torn} : content' = [content EXCEPT ![fd[s]] = c]
      BY <2>4 DEF WriteFails
    <3>2. /\ save[s] = "write" /\ fd' = [fd EXCEPT ![s] = None] /\ save' = [save EXCEPT ![s] = "done"]
          /\ UNCHANGED <<pc, tmp, disk, met, last, mixed>> /\ clean' = [clean EXCEPT ![s] = {}]
      BY <2>4 DEF WriteFails, Close, Return, Goto, memory
    <3>3. ~mixed /\ disk # None => content'[disk] = content[disk]
      BY <1>1, <3>1, <3>2
    <3>4. QED
      BY <1>1, <3>2, <3>3 DEF FileIsLastSave
  <2>5. CASE Rename(s)
    <3>1. /\ save[s] = "rename" /\ tmp # None /\ disk' = tmp /\ tmp' = None
          /\ save' = [save EXCEPT ![s] = "done"] /\ clean' = [clean EXCEPT ![s] = {}]
          /\ last' = (IF s \in met THEN last ELSE clean[s]) /\ mixed' = (s \in met)
          /\ UNCHANGED <<pc, fd, content, met>>
      BY <2>5 DEF Rename, Return, Goto, memory
    <3>2. s \notin met => \A o \in Savers : fd[o] = None
      BY <1>1, <3>1
    <3>3. ~mixed' => s \notin met
      BY <3>1
    <3>4. \A o \in Savers \ met' : save'[o] \notin {"write", "rename"}
      BY <1>1, <3>1
    <3>5. FileIsLastSave'
      BY <1>1, <3>1, <3>3 DEF FileIsLastSave
    <3>6. \A o \in Savers \ met' : Running(o)' => \A r \in Savers : Running(r)' => r = o
      BY <1>1, <3>1
    <3>7. QED
      BY <1>1, <3>1, <3>2, <3>3, <3>4, <3>5, <3>6
  <2>6. CASE RenameFails(s)
    BY <1>1, <2>6 DEF RenameFails, Goto, memory, files, FileIsLastSave
  <2>7. CASE RemoveTmp(s)
    BY <1>1, <2>7 DEF RemoveTmp, Return, Goto, memory, fileHistory, FileIsLastSave
  <2>8. QED
    BY <1>3, <2>1, <2>2, <2>3, <2>4, <2>5, <2>6, <2>7 DEF Save
<1>4. CASE Flush
  BY <1>1, <1>4 DEF Flush, memory, files, fileHistory, FileIsLastSave
<1>5. CASE Restart
  BY <1>1, <1>5 DEF Restart, files, FileIsLastSave
<1>6. CASE UNCHANGED fileVars
  BY <1>6 DEF fileVars, memory, saving, files, fileHistory, FileIsLastSave
<1>7. QED
  BY <1>2, <1>3, <1>4, <1>5, <1>6 DEF FileNext

\* Every reachable state of the cache, its saves and its files is well-typed.
THEOREM FileTypes == FileSpec => []FileTypeOK
BY FileTypeInit, FileTypeStep, PTL DEF FileSpec

\* The cache file is the complete snapshot of the last save, at every moment
\* of a save and whatever failed, unless the last two saves ran together.
THEOREM FileIsComplete == FileSpec => []FileIsLastSave
<1>1. FileInit => FileTypeOK /\ SavesInv /\ FileIsLastSave
  BY FileTypeInit, SavesInit
<1>2. FileTypeOK /\ SavesInv /\ FileIsLastSave /\ [FileNext]_fileVars
        => (FileTypeOK /\ SavesInv /\ FileIsLastSave)'
  BY FileTypeStep, SavesStep
<1>3. QED
  BY <1>1, <1>2, PTL DEF FileSpec

-----------------------------------------------------------------------------
(* How far the cache is ahead of its file                                  *)

\* Entries that are in the cache and not in S, without those Put is about to
\* count.
Uncounted == {p \in Putters : pc[p] = "count"}
Saved == IF disk = None THEN {} ELSE content[disk].of
Ahead(S) == Cardinality((items \ S) \ Uncounted) <= newOps

\* A save is due or starts.
Due == (\E p \in Putters : pc[p] = "reset") \/ (\E s \in Savers : save[s] = "snap")

Finite ==
    /\ IsFiniteSet(items)
    /\ \A s \in Savers : IsFiniteSet(clean[s]) /\ IsFiniteSet(content[s].of)

\* The counter counts what came since the snapshot of the save that runs, or
\* since the last one, unless the next save is already due: a save that runs
\* alone leaves no more behind than the counter says.
LagInv ==
    /\ newOps >= PersistEvery => \E p \in Putters : pc[p] = "reset"
    /\ \A s \in Savers : save[s] = "remove" => missed
    /\ \A s \in Savers \ met : save[s] \in {"open", "write", "rename"} => Due \/ Ahead(clean[s])
    /\ missed \/ Due \/ (\E s \in Savers : Running(s)) \/ Ahead(Saved)

LEMMA FiniteInit == FileInit => Finite
BY FS_EmptySet DEF FileInit, Finite, Empty

LEMMA FiniteStep == FileTypeOK /\ Finite /\ [FileNext]_fileVars => Finite'
<1> SUFFICES ASSUME FileTypeOK, Finite, [FileNext]_fileVars PROVE Finite'
  OBVIOUS
<1>1. /\ DOMAIN content = Savers /\ content = [s \in Savers |-> content[s]]
      /\ clean \in [Savers -> SUBSET Putters] /\ disk \in Savers \cup {None}
  BY DEF FileTypeOK
<1>2. IsFiniteSet({}) /\ IsFiniteSet(Empty.of) /\ IsFiniteSet(Torn.of)
  BY FS_EmptySet DEF Empty, Torn
<1>3. ASSUME NEW p, items' \subseteq items \cup {p}, UNCHANGED <<clean, content>> PROVE Finite'
  <2>1. IsFiniteSet(items \cup {p})
    BY FS_AddElement DEF Finite
  <2>2. IsFiniteSet(items')
    BY <1>3, <2>1, FS_Subset
  <2>3. QED
    BY <1>3, <2>2 DEF Finite
<1>4. ASSUME NEW p \in Putters, Put(p) \/ Expire(p) PROVE Finite'
  BY <1>3, <1>4 DEF Put, PutItem, Count, Reset, Expire, saving, files
<1>5. ASSUME NEW s \in Savers, Save(s) PROVE Finite'
  <2>1. items' = items
    BY <1>5 DEF Save, TakeSnapshot, OpenTmp, WriteTmp, WriteFails, Rename, RenameFails, RemoveTmp, memory
  <2>2. \A o \in Savers : clean'[o] \in {clean[o], items, {}}
    BY <1>1, <1>5 DEF Save, TakeSnapshot, OpenTmp, WriteTmp, WriteFails, Rename, RenameFails, RemoveTmp, Return
  <2>3. \A o \in Savers : content'[o] = content[o] \/ content'[o] \in {Empty, Torn, Whole(clean[s])}
    <3>1. CASE content' = content
      BY <3>1
    <3>2. CASE OpenTmp(s)
      BY <1>1, <3>2 DEF OpenTmp
    <3>3. CASE WriteTmp(s)
      <4>1. PICK c \in {Whole(clean[s]), Torn} : content' = [content EXCEPT ![fd[s]] = c]
        BY <3>3 DEF WriteTmp
      <4>2. QED
        BY <1>1, <4>1
    <3>4. CASE WriteFails(s)
      <4>1. PICK c : c \in {content[fd[s]], Torn} /\ content' = [content EXCEPT ![fd[s]] = c]
        BY <3>4 DEF WriteFails
      <4>2. QED
        BY <1>1, <4>1
    <3>5. QED
      BY <1>5, <3>1, <3>2, <3>3, <3>4
        DEF Save, TakeSnapshot, Rename, RenameFails, RemoveTmp, files
  <2>4. IsFiniteSet(Whole(clean[s]).of)
    BY DEF Whole, Finite
  <2>5. QED
    BY <1>2, <2>1, <2>2, <2>3, <2>4 DEF Finite
<1>6. CASE Flush \/ UNCHANGED fileVars
  BY <1>3, <1>6 DEF Flush, fileVars, memory, saving, files
<1>7. CASE Restart
  BY <1>1, <1>2, <1>7 DEF Restart, Finite, files
<1>8. QED
  BY <1>4, <1>5, <1>6, <1>7 DEF FileNext

\* One entry more adds at most one to what is counted.
LEMMA CountedOnceMore ==
    ASSUME NEW S, IsFiniteSet(S), NEW T, NEW n \in Nat, Cardinality(S) <= n
    PROVE  /\ T \subseteq S => Cardinality(T) <= n
           /\ \A p : T \subseteq S \cup {p} => Cardinality(T) <= n + 1
<1>1. Cardinality(S) \in Nat
  BY FS_CardinalityType
<1>2. ASSUME T \subseteq S PROVE Cardinality(T) <= n
  <2>1. IsFiniteSet(T) /\ Cardinality(T) <= Cardinality(S)
    BY <1>2, FS_Subset
  <2>2. Cardinality(T) \in Nat
    BY <2>1, FS_CardinalityType
  <2>3. QED
    BY <1>1, <2>1, <2>2
<1>3. ASSUME NEW p, T \subseteq S \cup {p} PROVE Cardinality(T) <= n + 1
  <2>1. /\ IsFiniteSet(S \cup {p})
        /\ Cardinality(S \cup {p}) = IF p \in S THEN Cardinality(S) ELSE Cardinality(S) + 1
    BY FS_AddElement
  <2>2. IsFiniteSet(T) /\ Cardinality(T) <= Cardinality(S \cup {p})
    BY <1>3, <2>1, FS_Subset
  <2>3. Cardinality(T) \in Nat /\ Cardinality(S \cup {p}) \in Nat
    BY <2>1, <2>2, FS_CardinalityType
  <2>4. QED
    BY <1>1, <2>1, <2>2, <2>3
<1>4. QED
  BY <1>2, <1>3

\* What one step of the memory does to what is counted as ahead of S.
LEMMA AheadStep ==
    ASSUME FileTypeOK, Finite, NEW S, Ahead(S),
           NEW p \in Putters, PutItem(p) \/ Count(p) \/ Expire(p)
    PROVE  Cardinality((items' \ S) \ Uncounted') <= newOps'
<1> DEFINE A == (items \ S) \ Uncounted
           B == (items' \ S) \ Uncounted'
<1>1. IsFiniteSet(A) /\ newOps \in Nat /\ Cardinality(A) <= newOps
  BY FS_Subset DEF Finite, FileTypeOK, Ahead
<1>2. pc \in [Putters -> {"idle", "count", "reset", "done"}] /\ items \subseteq Putters
  BY DEF FileTypeOK
<1>3. CASE PutItem(p)
  <2>1. B \subseteq A /\ newOps' = newOps
    BY <1>2, <1>3 DEF PutItem, Uncounted
  <2>2. QED
    BY <1>1, <2>1, CountedOnceMore
<1>4. CASE Expire(p)
  <2>1. B \subseteq A /\ newOps' = newOps
    BY <1>2, <1>4 DEF Expire, Uncounted
  <2>2. QED
    BY <1>1, <2>1, CountedOnceMore
<1>5. CASE Count(p)
  <2>1. B \subseteq A \cup {p} /\ newOps' = newOps + 1
    BY <1>2, <1>5 DEF Count, Uncounted
  <2> HIDE DEF A, B
  <2>2. Cardinality(B) <= newOps + 1
    BY <1>1, <2>1, CountedOnceMore
  <2>3. QED
    BY <2>1, <2>2 DEF B
<1>6. QED
  BY <1>3, <1>4, <1>5

LEMMA LagInit == FileInit => LagInv
<1> SUFFICES ASSUME FileInit PROVE LagInv
  OBVIOUS
<1>1. (items \ Saved) \ Uncounted = {} /\ newOps = 0
  BY DEF FileInit
<1>2. Ahead(Saved)
  BY <1>1, FS_EmptySet DEF Ahead
<1>3. QED
  BY <1>2, FileAssumption DEF LagInv, FileInit

LEMMA LagStep ==
    FileTypeOK /\ SavesInv /\ Finite /\ LagInv /\ [FileNext]_fileVars => LagInv'
<1> SUFFICES ASSUME FileTypeOK, SavesInv, Finite, LagInv, [FileNext]_fileVars PROVE LagInv'
  OBVIOUS
<1>1. /\ pc \in [Putters -> {"idle", "count", "reset", "done"}] /\ newOps \in Nat
      /\ save \in [Savers -> {"none", "snap", "open", "write", "rename", "remove", "done"}]
      /\ Putters \subseteq Savers /\ Flusher \in Savers
      /\ clean \in [Savers -> SUBSET Putters]
      /\ DOMAIN content = Savers /\ tmp \in Savers \cup {None} /\ disk \in Savers \cup {None}
      /\ PersistEvery \in Nat \ {0}
  BY FileAssumption DEF FileTypeOK, Savers
<1> USE DEF Running
<1>2. ASSUME NEW p \in Putters, PutItem(p) \/ Count(p) \/ Expire(p) PROVE LagInv'
  <2>1. UNCHANGED <<save, clean, fd, tmp, disk, content, met, missed>>
    BY <1>2 DEF PutItem, Count, Expire, saving, files, fileHistory
  <2>2. Saved' = Saved /\ (Due => Due')
    BY <1>1, <1>2, <2>1 DEF Saved, Due, PutItem, Count, Expire
  <2>3. Ahead(Saved) => Ahead(Saved)'
    BY <1>2, <2>2, AheadStep DEF Ahead
  <2>4. \A s \in Savers : Ahead(clean[s]) => Ahead(clean[s])'
    BY <1>2, <2>1, AheadStep DEF Ahead
  <2>5. newOps' >= PersistEvery => \E o \in Putters : pc'[o] = "reset"
    BY <1>1, <1>2 DEF LagInv, PutItem, Count, Expire
  <2>6. QED
    BY <2>1, <2>2, <2>3, <2>4, <2>5 DEF LagInv
<1>3. ASSUME NEW p \in Putters, Reset(p) PROVE LagInv'
  <2>1. UNCHANGED <<met, missed>> /\ newOps' = 0 /\ save' = [save EXCEPT ![p] = "snap"]
    BY <1>3 DEF Reset, fileHistory
  <2>2. Due'
    BY <1>1, <2>1 DEF Due
  <2>3. QED
    BY <1>1, <2>1, <2>2 DEF LagInv
<1>4. CASE Flush
  <2>1. UNCHANGED <<met, missed, newOps, pc>> /\ save' = [save EXCEPT ![Flusher] = "snap"]
    BY <1>4 DEF Flush, memory, fileHistory
  <2>2. Due'
    BY <1>1, <2>1 DEF Due
  <2>3. QED
    BY <1>1, <2>1, <2>2 DEF LagInv
<1>5. CASE Restart
  <2>1. items' = Saved /\ Saved' = Saved /\ newOps' = 0
    BY <1>5 DEF Restart, Saved, files
  <2>2. (items' \ Saved') \ Uncounted' = {}
    BY <2>1
  <2>3. Ahead(Saved)'
    BY <2>1, <2>2, FS_EmptySet DEF Ahead
  <2>4. QED
    BY <1>1, <1>5, <2>1, <2>3 DEF Restart, LagInv
<1>6. ASSUME NEW s \in Savers, Save(s) PROVE LagInv'
  <2>1. UNCHANGED <<items, newOps, pc>> /\ Uncounted' = Uncounted
    BY <1>6 DEF Save, TakeSnapshot, OpenTmp, WriteTmp, WriteFails, Rename, RenameFails, RemoveTmp,
                memory, Uncounted
  <2>2. \A S : (Cardinality((items' \ S) \ Uncounted') <= newOps') <=> Ahead(S)
    BY <2>1 DEF Ahead
  <2>3. CASE TakeSnapshot(s)
    <3>1. /\ save[s] = "snap" /\ save' = [save EXCEPT ![s] = "open"] /\ clean' = [clean EXCEPT ![s] = items]
          /\ missed' = missed
      BY <2>3 DEF TakeSnapshot, Goto
    <3>2. \A o \in Savers \ met' : ~Running(o)
      BY <2>3 DEF TakeSnapshot
    <3>3. clean'[s] = items /\ \A o \in Savers \ {s} : save'[o] = save[o]
      BY <1>1, <3>1
    <3>4. (items' \ clean'[s]) \ Uncounted' = {}
      BY <2>1, <3>3
    <3>5. Ahead(clean[s])'
      <4>1. Cardinality((items' \ clean'[s]) \ Uncounted') = 0
        BY <3>4, FS_EmptySet
      <4>2. newOps' \in Nat
        BY <1>1, <2>1
      <4>3. QED
        BY <4>1, <4>2 DEF Ahead
    <3>6. Running(s)' /\ save'[s] # "remove"
      BY <1>1, <3>1
    <3>7. QED
      BY <2>1, <3>1, <3>2, <3>3, <3>5, <3>6 DEF LagInv
  <2>4. CASE OpenTmp(s) \/ WriteTmp(s)
    <3>1. /\ save[s] \in {"open", "write"} /\ clean' = clean /\ met' = met /\ missed' = missed
          /\ \E l \in {"write", "rename"} : save' = [save EXCEPT ![s] = l]
      BY <2>4 DEF OpenTmp, WriteTmp, Goto, fileHistory
    <3>2. Due => Due'
      BY <1>1, <2>1, <3>1 DEF Due
    <3>3. \A o \in Savers : Ahead(clean[o])' <=> Ahead(clean[o])
      BY <2>2, <3>1 DEF Ahead
    <3>4. QED
      BY <1>1, <2>1, <3>1, <3>2, <3>3 DEF LagInv
  <2>5. CASE WriteFails(s) \/ RenameFails(s) \/ RemoveTmp(s)
    <3>1. /\ save[s] \in {"write", "rename", "remove"} /\ met' = met /\ missed'
          /\ \E l \in {"done", "remove"} : save' = [save EXCEPT ![s] = l]
          /\ \A o \in Savers \ {s} : clean'[o] = clean[o]
      BY <1>1, <2>5 DEF WriteFails, RenameFails, RemoveTmp, Return, Goto, fileHistory, LagInv
    <3>2. Due => Due'
      BY <1>1, <2>1, <3>1 DEF Due
    <3>3. \A o \in Savers \ {s} : Ahead(clean[o])' <=> Ahead(clean[o])
      BY <2>2, <3>1 DEF Ahead
    <3>4. QED
      BY <1>1, <2>1, <3>1, <3>2, <3>3 DEF LagInv
  <2>6. CASE Rename(s)
    <3>1. /\ save[s] = "rename" /\ tmp # None /\ disk' = tmp /\ content' = content /\ met' = met
          /\ save' = [save EXCEPT ![s] = "done"] /\ clean' = [clean EXCEPT ![s] = {}]
          /\ missed' = (s \in met)
      BY <2>6 DEF Rename, Return, Goto
    <3>2. Due => Due'
      BY <1>1, <2>1, <3>1 DEF Due
    <3>3. \A o \in Savers \ {s} : Ahead(clean[o])' <=> Ahead(clean[o])
      BY <1>1, <2>2, <3>1 DEF Ahead
    <3>4. CASE s \in met
      BY <1>1, <2>1, <3>1, <3>2, <3>3, <3>4 DEF LagInv
    <3>5. CASE s \notin met
      <4>1. content[tmp] = Whole(clean[s]) /\ \A o \in Savers : Running(o) => o = s
        BY <3>1, <3>5 DEF SavesInv
      <4>2. Saved' = clean[s]
        BY <3>1, <4>1 DEF Saved, Whole
      <4>3. Ahead(clean[s]) => Ahead(Saved)'
        BY <2>2, <4>2 DEF Ahead
      <4>4. Due \/ Ahead(clean[s])
        BY <3>1, <3>5 DEF LagInv
      <4>5. \A o \in Savers : ~Running(o)'
        BY <1>1, <3>1, <4>1
      <4>6. QED
        BY <2>1, <3>2, <4>3, <4>4, <4>5 DEF LagInv
    <3>6. QED
      BY <3>4, <3>5
  <2>7. QED
    BY <1>6, <2>3, <2>4, <2>5, <2>6 DEF Save
<1>7. CASE UNCHANGED fileVars
  BY <1>7 DEF fileVars, memory, saving, files, fileHistory, LagInv, Due, Ahead, Saved, Uncounted
<1>8. QED
  BY <1>2, <1>3, <1>4, <1>5, <1>6, <1>7 DEF FileNext, Put

\* A cache at rest is ahead of its file by fewer than PersistEvery entries,
\* however the counter was increased and reset, as long as the saves since the
\* last good one neither failed nor met.
THEOREM LagIsBounded == FileSpec => []FileLagsLittle
<1>1. FileInit => FileTypeOK /\ SavesInv /\ FileIsLastSave /\ Finite /\ LagInv
  BY FileTypeInit, SavesInit, FiniteInit, LagInit
<1>2. FileTypeOK /\ SavesInv /\ FileIsLastSave /\ Finite /\ LagInv /\ [FileNext]_fileVars
        => (FileTypeOK /\ SavesInv /\ FileIsLastSave /\ Finite /\ LagInv)'
  BY FileTypeStep, SavesStep, FiniteStep, LagStep
<1>3. FileTypeOK /\ Finite /\ LagInv => FileLagsLittle
  <2> SUFFICES ASSUME FileTypeOK, Finite, LagInv, Quiet, ~missed
               PROVE  Cardinality(items \ Saved) < PersistEvery
    BY DEF FileLagsLittle, Saved
  <2>1. ~Due /\ (\A s \in Savers : ~Running(s)) /\ Uncounted = {}
    BY DEF Quiet, Due, Running, Uncounted
  <2>2. Cardinality(items \ Saved) <= newOps
    <3>1. (items \ Saved) \ Uncounted = items \ Saved
      BY <2>1
    <3>2. QED
      BY <2>1, <3>1 DEF LagInv, Ahead
  <2>3. newOps \in Nat /\ newOps < PersistEvery
    BY FileAssumption DEF LagInv, Quiet, FileTypeOK
  <2>4. Cardinality(items \ Saved) \in Nat
    BY FS_Subset, FS_CardinalityType DEF Finite
  <2>5. QED
    BY <2>2, <2>3, <2>4, FileAssumption
<1>4. QED
  BY <1>1, <1>2, <1>3, PTL DEF FileSpec

=============================================================================
