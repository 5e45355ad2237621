--------------------------- MODULE GeoLookupProofs --------------------------
(***************************************************************************)
(* Proofs about GeoLookup for any callers, addresses and lifetimes.        *)
(***************************************************************************)
EXTENDS GeoLookup, TLAPS

-----------------------------------------------------------------------------
(* Types                                                                   *)

LEMMA TypeInit == Init => TypeOK
<1> SUFFICES ASSUME Init PROVE TypeOK
  OBVIOUS
<1>1. Created \in Fields
  BY DEF Created, Fields
<1>2. PICK loaded \in SUBSET IPs :
         /\ items = [ip \in IPs |-> IF ip \in loaded THEN ip ELSE Nil]
         /\ \E saved \in [loaded -> [age : 0 .. NormalTTL, idle : 0 .. NormalTTL, hits : {1, 2}]] :
               entry = [e \in Entries |-> IF e \in loaded THEN saved[e] ELSE Created]
  BY DEF Init
<1>3. items \in [IPs -> Entries \cup {Nil}]
  BY <1>2 DEF Entries
<1>4. [age : 0 .. NormalTTL, idle : 0 .. NormalTTL, hits : {1, 2}] \subseteq Fields
  BY LookupAssumption DEF Fields
<1>5. entry \in [Entries -> Fields]
  BY <1>1, <1>2, <1>4
<1>6. QED
  BY <1>3, <1>5 DEF Init, TypeOK, Reading

\* An answer that is nil or an entry keeps the rank of the answers a number.
LEMMA ReturnType ==
    ASSUME TypeOK, NEW c \in Callers, NEW i \in Entries \cup {Nil}, Return(c, i)
    PROVE  /\ pc' = [pc EXCEPT ![c] = "done"]
           /\ answer' \in [Callers -> Entries \cup {Nil}]
           /\ order' \in [Entries -> Nat] /\ asked' \in [IPs -> Nat]
           /\ returned' \in [IPs -> Nat] /\ floor' \in [Callers -> Nat]
BY DEF Return, Goto, TypeOK

LEMMA MissType ==
    ASSUME TypeOK, NEW c \in Callers, Miss(c)
    PROVE  /\ pc' \in {[pc EXCEPT ![c] = "done"], [pc EXCEPT ![c] = "miss"]}
           /\ answer' \in [Callers -> Entries \cup {Nil}]
           /\ order' \in [Entries -> Nat] /\ asked' \in [IPs -> Nat]
           /\ returned' \in [IPs -> Nat] /\ floor' \in [Callers -> Nat]
<1>1. CASE c \in Peekers
  BY <1>1, ReturnType DEF Miss
<1>2. CASE c \notin Peekers
  BY <1>2 DEF Miss, Goto, TypeOK, history
<1>3. QED
  BY <1>1, <1>2

LEMMA FieldsSet ==
    ASSUME NEW r \in Fields, NEW a \in Nat, NEW i \in Nat
    PROVE  [r EXCEPT !.age = a, !.idle = i] \in Fields
BY DEF Fields

LEMMA TypeStep == TypeOK /\ [Next]_vars => TypeOK'
<1> SUFFICES ASSUME TypeOK, [Next]_vars PROVE TypeOK'
  OBVIOUS
<1> USE DEF Reading, Owning
<1>1. ASSUME NEW c \in Callers, Begin(c) PROVE TypeOK'
  BY <1>1 DEF Begin, Goto, TypeOK, cache, calls
<1>2. ASSUME NEW c \in Callers, Read(c) PROVE TypeOK'
  <2>1. items[asks[c]] \in Entries \cup {Nil}
    BY DEF TypeOK
  <2>2. CASE items[asks[c]] = Nil
    BY <1>2, <2>1, <2>2, MissType DEF Read, TypeOK, cache, calls
  <2>3. CASE items[asks[c]] # Nil
    BY <1>2, <2>1, <2>3 DEF Read, Goto, TypeOK, cache, calls, history
  <2>4. QED
    BY <2>2, <2>3
<1>3. ASSUME NEW c \in Callers, Check(c) PROVE TypeOK'
  BY <1>3 DEF Check, Goto, TypeOK, cache, calls, history
<1>4. ASSUME NEW c \in Callers, Evict(c) PROVE TypeOK'
  BY <1>4, MissType DEF Evict, TypeOK, calls
<1>5. ASSUME NEW c \in Callers, Hit(c) PROVE TypeOK'
  <2>1. sees[c] \in Entries /\ Return(c, sees[c])
    BY <1>5 DEF Hit, TypeOK
  <2>2. entry' \in [Entries -> Fields]
    <3>1. /\ entry \in [Entries -> Fields] /\ entry[sees[c]] \in Fields
          /\ \E h \in {1, 2} : entry' = [entry EXCEPT ![sees[c]].idle = 0, ![sees[c]].hits = h]
      BY <1>5, <2>1 DEF Hit, TypeOK
    <3>2. ASSUME NEW h \in {1, 2} PROVE [entry[sees[c]] EXCEPT !.idle = 0, !.hits = h] \in Fields
      BY <3>1 DEF Fields
    <3>3. QED
      BY <2>1, <3>1, <3>2
  <2>3. QED
    BY <1>5, <2>1, <2>2, ReturnType DEF Hit, TypeOK, calls
<1>6. ASSUME NEW c \in Callers, LoadOrStore(c) PROVE TypeOK'
  <2>1. c \in Entries /\ pending[asks[c]] \in Callers \cup {Nil}
    BY DEF Entries, TypeOK
  <2>2. CASE pending[asks[c]] # Nil
    BY <1>6, <2>1, <2>2 DEF LoadOrStore, Goto, TypeOK, cache, Entries
  <2>3. CASE pending[asks[c]] = Nil
    BY <1>6, <2>1, <2>3 DEF LoadOrStore, Goto, TypeOK, cache
  <2>4. QED
    BY <2>2, <2>3
<1>7. ASSUME NEW c \in Callers, Query(c) PROVE TypeOK'
  BY <1>7 DEF Query, Goto, TypeOK, cache, calls, history
<1>8. ASSUME NEW c \in Callers, Put(c) PROVE TypeOK'
  <2>1. c \in Entries /\ Created \in Fields
    BY DEF Entries, Created, Fields
  <2>2. QED
    BY <1>8, <2>1 DEF Put, Goto, TypeOK, calls, history
<1>9. ASSUME NEW c \in Callers, Publish(c) PROVE TypeOK'
  BY <1>9 DEF Publish, Goto, TypeOK, cache, history
<1>10. ASSUME NEW c \in Callers, Leave(c) PROVE TypeOK'
  BY <1>10 DEF Leave, Goto, TypeOK, cache, history
<1>11. ASSUME NEW c \in Callers, Close(c) PROVE TypeOK'
  <2>1. (IF c \in found THEN c ELSE Nil) \in Entries \cup {Nil}
    BY DEF Entries
  <2>2. QED
    BY <1>11, <2>1, ReturnType DEF Close, TypeOK, cache
<1>12. ASSUME NEW c \in Callers, Wait(c) PROVE TypeOK'
  <2>1. (IF sees[c] \in shared THEN sees[c] ELSE Nil) \in Entries \cup {Nil}
    BY DEF TypeOK
  <2>2. QED
    BY <1>12, <2>1, ReturnType DEF Wait, TypeOK, cache, calls
<1>13. CASE Tick
  <2> DEFINE aged(e) == [entry[e] EXCEPT !.age = IF @ > NormalTTL THEN @ ELSE @ + 1,
                                         !.idle = IF @ > NormalTTL THEN @ ELSE @ + 1]
  <2>1. ASSUME NEW e \in Entries PROVE aged(e) \in Fields
    <3>1. entry[e] \in [age : Nat, idle : Nat, hits : {1, 2}]
      BY DEF TypeOK, Fields
    <3>2. entry[e].age \in Nat /\ entry[e].idle \in Nat /\ entry[e].hits \in {1, 2}
      BY <3>1
    <3> DEFINE older(n) == IF n > NormalTTL THEN n ELSE n + 1
    <3>3. older(entry[e].age) \in Nat /\ older(entry[e].idle) \in Nat
      BY <3>2, LookupAssumption
    <3>4. aged(e) = [entry[e] EXCEPT !.age = older(entry[e].age), !.idle = older(entry[e].idle)]
      OBVIOUS
    <3>5. entry[e] \in Fields
      BY DEF TypeOK
    <3> HIDE DEF older, aged
    <3>6. QED
      BY <3>3, <3>4, <3>5, FieldsSet
  <2>2. \A e \in Entries : entry'[e] \in {aged(e), entry[e]}
    BY <1>13 DEF Tick
  <2>3. entry' = [e \in Entries |-> entry'[e]]
    BY <1>13 DEF Tick
  <2> HIDE DEF aged
  <2>4. entry' \in [Entries -> Fields]
    BY <2>1, <2>2, <2>3 DEF TypeOK
  <2>5. QED
    BY <1>13, <2>4 DEF Tick, TypeOK, calls, history
<1>14. CASE UNCHANGED vars
  BY <1>14 DEF vars, cache, calls, history, TypeOK
<1>15. QED
  BY <1>1, <1>2, <1>3, <1>4, <1>5, <1>6, <1>7, <1>8, <1>9, <1>10, <1>11, <1>12, <1>13, <1>14
     DEF Next, Get, Lookup

\* Every reachable state is well-typed; in particular Get never uses an entry
\* that is not there.
THEOREM TypeCorrect == Spec => []TypeOK
<1>1. QED
  BY TypeInit, TypeStep, PTL DEF Spec

-----------------------------------------------------------------------------
(* One query at a time                                                     *)

LEMMA FlightInit == Init => OneQueryPerIP
BY LookupAssumption DEF Init, OneQueryPerIP, Owning

LEMMA FlightStep == TypeOK /\ OneQueryPerIP /\ [Next]_vars => OneQueryPerIP'
<1> SUFFICES ASSUME TypeOK, OneQueryPerIP, [Next]_vars PROVE OneQueryPerIP'
  OBVIOUS
<1> USE LookupAssumption DEF OneQueryPerIP, Owning
<1>1. ASSUME NEW c \in Callers, Begin(c) PROVE OneQueryPerIP'
  BY <1>1 DEF Begin, Goto, TypeOK, calls
<1>2. ASSUME NEW c \in Callers, Get(c) PROVE OneQueryPerIP'
  <2>1. /\ UNCHANGED <<pending, asks>>
        /\ \E l \in {"check", "miss", "hit", "evict", "done"} : pc' = [pc EXCEPT ![c] = l]
        /\ pc[c] \in {"get", "check", "evict", "hit"}
    BY <1>2 DEF Get, Read, Check, Evict, Hit, Miss, Return, Goto, calls
  <2>2. QED
    BY <2>1 DEF TypeOK
<1>3. ASSUME NEW c \in Callers, LoadOrStore(c) PROVE OneQueryPerIP'
  BY <1>3 DEF LoadOrStore, Goto, TypeOK
<1>4. ASSUME NEW c \in Callers, Query(c) \/ Put(c) \/ Publish(c) PROVE OneQueryPerIP'
  BY <1>4 DEF Query, Put, Publish, Goto, TypeOK, calls
<1>5. ASSUME NEW c \in Callers, Leave(c) PROVE OneQueryPerIP'
  BY <1>5 DEF Leave, Goto, TypeOK
<1>6. ASSUME NEW c \in Callers, Close(c) \/ Wait(c) PROVE OneQueryPerIP'
  BY <1>6 DEF Close, Wait, Return, Goto, TypeOK, calls
<1>7. CASE Tick \/ UNCHANGED vars
  BY <1>7 DEF Tick, vars, calls
<1>8. QED
  BY <1>1, <1>2, <1>3, <1>4, <1>5, <1>6, <1>7 DEF Next, Lookup

\* However many callers look an address up, one of them queries it.
THEOREM QueriesAreSingle == Spec => []OneQueryPerIP
<1>1. QED
  BY TypeInit, TypeStep, FlightInit, FlightStep, PTL DEF Spec

-----------------------------------------------------------------------------
(* What the waiters get                                                    *)

\* A query that found an Info puts it in the cache and shares it before its
\* call is closed; a call that somebody waits for is owned, or closed.
CallsInv ==
    /\ \A c \in found : pc[c] \in {"put", "publish", "leave", "close", "done"}
    /\ \A c \in Callers : pc[c] = "put" => c \in found
    /\ \A c \in closed : pc[c] = "done"
    /\ \A c \in found : pc[c] \in {"leave", "close", "done"} => c \in shared
    /\ \A c \in Callers : pc[c] = "wait" =>
          /\ sees[c] \in Callers /\ asks[sees[c]] = asks[c]
          /\ sees[c] \in closed \/ pc[sees[c]] \in Owning \cup {"close"}
    /\ \A ip \in IPs : pending[ip] # Nil => asks[pending[ip]] = ip

\* Nobody waits for a call that no goroutine will close.
WaitersHaveOwner ==
    \A c \in Callers : pc[c] = "wait" =>
        sees[c] \in closed \/ pc[sees[c]] \in Owning \cup {"close"}

LEMMA CallsInit == Init => CallsInv
BY DEF Init, CallsInv

LEMMA CallsStep == TypeOK /\ OneQueryPerIP /\ CallsInv /\ [Next]_vars => CallsInv'
<1> SUFFICES ASSUME TypeOK, OneQueryPerIP, CallsInv, [Next]_vars PROVE CallsInv'
  OBVIOUS
<1> USE LookupAssumption DEF CallsInv, Owning
<1>1. ASSUME NEW c \in Callers, Begin(c) PROVE CallsInv'
  BY <1>1 DEF Begin, Goto, TypeOK, calls
<1>2. ASSUME NEW c \in Callers, Get(c) PROVE CallsInv'
  <2>1. /\ UNCHANGED <<calls, asks, found>>
        /\ \E l \in {"check", "miss", "hit", "evict", "done"} : pc' = [pc EXCEPT ![c] = l]
        /\ pc[c] \in {"get", "check", "evict", "hit"}
        /\ \A d \in Callers \ {c} : sees'[d] = sees[d]
    BY <1>2 DEF Get, Read, Check, Evict, Hit, Miss, Return, Goto, calls, TypeOK
  <2>2. QED
    BY <2>1 DEF TypeOK, calls
<1>3. ASSUME NEW c \in Callers, LoadOrStore(c) PROVE CallsInv'
  BY <1>3 DEF LoadOrStore, Goto, TypeOK, OneQueryPerIP
<1>4. ASSUME NEW c \in Callers, Query(c) \/ Put(c) \/ Publish(c) PROVE CallsInv'
  BY <1>4 DEF Query, Put, Publish, Goto, TypeOK, calls
<1>5. ASSUME NEW c \in Callers, Leave(c) PROVE CallsInv'
  BY <1>5 DEF Leave, Goto, TypeOK
<1>6. ASSUME NEW c \in Callers, Close(c) PROVE CallsInv'
  BY <1>6 DEF Close, Return, Goto, TypeOK
<1>7. ASSUME NEW c \in Callers, Wait(c) PROVE CallsInv'
  BY <1>7 DEF Wait, Return, Goto, TypeOK, calls
<1>8. CASE Tick \/ UNCHANGED vars
  BY <1>8 DEF Tick, vars, calls
<1>9. QED
  BY <1>1, <1>2, <1>3, <1>4, <1>5, <1>6, <1>7, <1>8 DEF Next, Lookup

\* No caller is left waiting for a call whose owner is gone, however many
\* callers there are: the safety half of LookupsReturn.
THEOREM NobodyWaitsInVain == Spec => []WaitersHaveOwner
<1>1. CallsInv => WaitersHaveOwner
  BY DEF CallsInv, WaitersHaveOwner
<1>2. QED
  BY <1>1, TypeInit, TypeStep, FlightInit, FlightStep, CallsInit, CallsStep, PTL DEF Spec

\* A caller that waited returns what the query it waited for found.
THEOREM AnswersAreShared == Spec => WaitersShareAnswer
<1> DEFINE Shares == \A c \in Callers : pc[c] = "wait" /\ pc'[c] = "done" =>
                        answer'[c] = IF sees[c] \in found THEN sees[c] ELSE Nil
<1>1. TypeOK /\ CallsInv /\ [Next]_vars => [Shares]_vars
  <2> SUFFICES ASSUME TypeOK, CallsInv, [Next]_vars,
                      NEW c \in Callers, pc[c] = "wait", pc'[c] = "done"
               PROVE  answer'[c] = IF sees[c] \in found THEN sees[c] ELSE Nil
    OBVIOUS
  <2>1. Wait(c)
    <3>1. PICK d \in Callers : Begin(d) \/ Get(d) \/ Lookup(d)
      BY DEF Next, Tick, vars
    <3>2. pc'[c] # pc[c] => c = d
      BY <3>1 DEF Begin, Get, Read, Check, Evict, Hit, Miss, Lookup, LoadOrStore, Query, Put,
            Publish, Leave, Close, Wait, Return, Goto, TypeOK
    <3>3. QED
      BY <3>1, <3>2 DEF Begin, Get, Read, Check, Evict, Hit, Lookup, LoadOrStore, Query, Put,
            Publish, Leave, Close
  <2>2. sees[c] \in shared <=> sees[c] \in found
    BY <2>1 DEF Wait, CallsInv, TypeOK
  <2>3. QED
    BY <2>1, <2>2 DEF Wait, Return, TypeOK
<1>2. QED
  BY <1>1, TypeInit, TypeStep, FlightInit, FlightStep, CallsInit, CallsStep, PTL
     DEF Spec, WaitersShareAnswer

-----------------------------------------------------------------------------
(* Answers do not go back                                                  *)

\* The address of an entry, and whether it has been in the cache.
IpOf(e) == IF e \in IPs THEN e ELSE asks[e]
Stored(e) == e \in IPs \/ (e \in found /\ pc[e] # "put")

\* What a caller may still return: an entry of its address that was in the
\* cache and is not older than what it must not go back behind.
Fit(c, e) == e \in Entries /\ Stored(e) /\ IpOf(e) = asks[c] /\ order[e] >= floor[c]

\* No rank exceeds the queries asked so far, and a query under way is the last.
RanksBounded ==
    /\ \A e \in Entries : order[e] <= asked[IpOf(e)]
    /\ \A ip \in IPs : returned[ip] <= asked[ip]
    /\ \A c \in Callers : floor[c] <= returned[asks[c]]
    /\ \A c \in Callers : pc[c] \in Owning => order[c] = asked[asks[c]]

\* What is cached is the newest that ever was.
CacheIsNewest ==
    \A ip \in IPs : items[ip] # Nil =>
        /\ Stored(items[ip]) /\ IpOf(items[ip]) = ip
        /\ returned[ip] <= order[items[ip]]
        /\ \A e \in Entries : Stored(e) /\ IpOf(e) = ip => order[e] <= order[items[ip]]

CallersFit ==
    \A c \in Callers :
        /\ pc[c] \in Reading => Fit(c, sees[c])
        /\ pc[c] = "wait" => order[sees[c]] >= floor[c]
        /\ pc[c] \in Owning \cup {"close"} => order[c] >= floor[c]
        /\ pc[c] = "done" /\ answer[c] # Nil => Fit(c, answer[c])

RankInv == RanksBounded /\ CacheIsNewest /\ CallersFit
IInv == TypeOK /\ OneQueryPerIP /\ CallsInv /\ RankInv

LEMMA RankInit == Init => RankInv
<1> SUFFICES ASSUME Init PROVE RankInv
  OBVIOUS
<1>1. \A e \in Entries : IpOf(e) \in IPs
  BY DEF Init, IpOf, Entries
<1>2. \A ip \in IPs : items[ip] \in {ip, Nil}
  BY DEF Init
<1>3. QED
  BY <1>1, <1>2 DEF Init, RankInv, RanksBounded, CacheIsNewest, CallersFit, Stored, IpOf, Reading,
     Owning, Entries

\* A caller that returns something fit, or nothing, keeps the ranks in order.
LEMMA ReturnKeepsRanks ==
    ASSUME IInv, NEW c \in Callers, NEW i \in Entries \cup {Nil}, i # Nil => Fit(c, i),
           Return(c, i), pc[c] \notin Owning, pc[c] # "done",
           UNCHANGED <<asks, found>>,
           \A d \in Callers \ {c} : sees'[d] = sees[d],
           \A ip \in IPs : items'[ip] \in {items[ip], Nil}
    PROVE  RankInv'
<1>1. /\ pc' = [pc EXCEPT ![c] = "done"] /\ answer' = [answer EXCEPT ![c] = i]
      /\ UNCHANGED <<order, asked, floor, asks, found>>
  BY DEF Return, Goto
<1>2. Nil \notin Entries /\ asks[c] \in IPs
  BY LookupAssumption DEF Entries, IInv, TypeOK
<1>3. \A e \in Entries : IpOf(e)' = IpOf(e) /\ IpOf(e) \in IPs /\ (Stored(e)' <=> Stored(e))
  BY <1>1, LookupAssumption DEF IpOf, Stored, Entries, IInv, TypeOK, CallsInv, Owning
<1>4. \A ip \in IPs : returned'[ip] \in Nat /\ returned'[ip] >= returned[ip]
  BY <1>2 DEF Return, IInv, TypeOK
<1>5. \A ip \in IPs : returned'[ip] = returned[ip]
         \/ (ip = asks[c] /\ i \in Entries /\ returned'[ip] = order[i])
  BY <1>2 DEF Return, IInv, TypeOK
<1>6. RanksBounded'
  <2>1. i \in Entries => order[i] <= asked[asks[c]]
    BY <1>2 DEF IInv, RankInv, RanksBounded, Fit
  <2>2. ASSUME NEW ip \in IPs PROVE returned'[ip] <= asked[ip]
    <3>1. returned[ip] <= asked[ip]
      BY DEF IInv, RankInv, RanksBounded
    <3>2. CASE returned'[ip] = returned[ip]
      BY <3>1, <3>2
    <3>3. CASE returned'[ip] # returned[ip]
      BY <1>5, <2>1, <3>3
    <3>4. QED
      BY <3>2, <3>3
  <2>3. ASSUME NEW d \in Callers PROVE floor[d] <= returned'[asks[d]]
    <3>1. /\ asks[d] \in IPs /\ floor[d] \in Nat /\ returned[asks[d]] \in Nat
          /\ floor[d] <= returned[asks[d]]
      BY DEF IInv, TypeOK, RankInv, RanksBounded
    <3>2. returned'[asks[d]] \in Nat /\ returned'[asks[d]] >= returned[asks[d]]
      BY <1>4, <3>1
    <3>3. QED
      BY <3>1, <3>2
  <2>4. QED
    BY <1>1, <1>3, <2>2, <2>3 DEF IInv, RankInv, RanksBounded, TypeOK, Owning
<1>7. CacheIsNewest'
  <2> SUFFICES ASSUME NEW ip \in IPs, items'[ip] # Nil
               PROVE  /\ Stored(items[ip])' /\ IpOf(items[ip])' = ip
                      /\ returned'[ip] <= order[items'[ip]]
                      /\ \A e \in Entries : Stored(e)' /\ IpOf(e)' = ip => order[e] <= order[items'[ip]]
    BY <1>1 DEF CacheIsNewest
  <2>1. items'[ip] = items[ip] /\ items[ip] \in Entries
    BY DEF IInv, TypeOK
  <2> DEFINE e0 == items[ip]
  <2>2. /\ Stored(e0) /\ IpOf(e0) = ip /\ returned[ip] <= order[e0]
        /\ \A e \in Entries : Stored(e) /\ IpOf(e) = ip => order[e] <= order[e0]
    BY <2>1 DEF IInv, RankInv, CacheIsNewest
  <2>3. returned'[ip] <= order[e0]
    <3>1. CASE returned'[ip] = returned[ip]
      BY <2>2, <3>1
    <3>2. CASE returned'[ip] # returned[ip]
      <4>1. i \in Entries /\ asks[c] = ip /\ returned'[ip] = order[i]
        BY <1>5, <3>2
      <4>2. Stored(i) /\ IpOf(i) = ip
        BY <1>2, <4>1 DEF Fit
      <4>3. QED
        BY <2>2, <4>1, <4>2
    <3>3. QED
      BY <3>1, <3>2
  <2>4. Stored(items[ip])' /\ IpOf(items[ip])' = ip
    BY <1>1, <1>3, <2>1, <2>2 DEF Stored, IpOf
  <2>5. \A e \in Entries : Stored(e)' /\ IpOf(e)' = ip => order[e] <= order[e0]
    BY <1>3, <2>2
  <2>6. QED
    BY <2>1, <2>3, <2>4, <2>5
<1>8. CallersFit'
  <2>1. \A d \in Callers, e \in Entries : Fit(d, e)' <=> Fit(d, e)
    BY <1>1, <1>3 DEF Fit
  <2>2. QED
    BY <1>1, <1>2, <2>1 DEF IInv, RankInv, CallersFit, TypeOK, Reading, Owning
<1>9. QED
  BY <1>6, <1>7, <1>8 DEF RankInv

LEMMA RankStep == IInv /\ [Next]_vars => RankInv'
<1> SUFFICES ASSUME IInv, [Next]_vars PROVE RankInv'
  OBVIOUS
<1> USE DEF RankInv, RanksBounded, CacheIsNewest, CallersFit, Reading, Owning
<1>0. Nil \notin Entries /\ \A e \in Entries : IpOf(e) \in IPs
  BY LookupAssumption DEF Entries, IpOf, IInv, TypeOK
<1>1. ASSUME NEW c \in Callers, Begin(c) PROVE RankInv'
  BY <1>0, <1>1, LookupAssumption DEF Begin, Goto, IInv, TypeOK, CallsInv, cache, calls, Fit, Stored, IpOf, Entries
<1>2. ASSUME NEW c \in Callers, Read(c) PROVE RankInv'
  <2>1. CASE items[asks[c]] = Nil /\ c \in Peekers
    BY <1>2, <2>1, ReturnKeepsRanks DEF Read, Miss, IInv, TypeOK, cache
  <2>2. CASE items[asks[c]] = Nil /\ c \notin Peekers
    BY <1>0, <1>2, <2>2, LookupAssumption
       DEF Read, Miss, Goto, IInv, TypeOK, CallsInv, cache, history, Fit, Stored, IpOf, Entries
  <2>3. CASE items[asks[c]] # Nil
    BY <1>0, <1>2, <2>3, LookupAssumption
       DEF Read, Goto, IInv, TypeOK, CallsInv, cache, history, Fit, Stored, IpOf, Entries
  <2>4. QED
    BY <2>1, <2>2, <2>3
<1>3. ASSUME NEW c \in Callers, Check(c) PROVE RankInv'
  BY <1>0, <1>3, LookupAssumption
     DEF Check, Goto, IInv, TypeOK, CallsInv, cache, history, Fit, Stored, IpOf, Entries
<1>4. ASSUME NEW c \in Callers, Evict(c) PROVE RankInv'
  <2>1. CASE c \in Peekers
    BY <1>4, <2>1, ReturnKeepsRanks DEF Evict, Miss, IInv, TypeOK
  <2>2. CASE c \notin Peekers
    BY <1>0, <1>4, <2>2, LookupAssumption
       DEF Evict, Miss, Goto, IInv, TypeOK, CallsInv, history, Fit, Stored, IpOf, Entries
  <2>3. QED
    BY <2>1, <2>2
<1>5. ASSUME NEW c \in Callers, Hit(c) PROVE RankInv'
  <2>1. sees[c] \in Entries /\ Fit(c, sees[c])
    BY <1>5 DEF Hit, IInv, TypeOK
  <2>2. QED
    BY <1>5, <2>1, ReturnKeepsRanks DEF Hit, IInv, TypeOK
<1>6. ASSUME NEW c \in Callers, LoadOrStore(c) PROVE RankInv'
  <2> DEFINE ip == asks[c]
  <2>1. /\ pc[c] = "miss" /\ ip \in IPs /\ c \in Entries /\ ~Stored(c)
        /\ UNCHANGED <<items, asks, found, answer, returned, floor>>
        /\ floor[c] <= returned[ip] /\ returned[ip] <= asked[ip]
        /\ floor[c] \in Nat /\ returned[ip] \in Nat /\ asked[ip] \in Nat
    BY <1>6, LookupAssumption DEF LoadOrStore, IInv, TypeOK, CallsInv, cache, Stored, Entries
  <2>2. CASE pending[ip] # Nil
    <3>1. /\ sees' = [sees EXCEPT ![c] = pending[ip]] /\ pc' = [pc EXCEPT ![c] = "wait"]
          /\ UNCHANGED <<asked, order>>
      BY <1>6, <2>2 DEF LoadOrStore, Goto
    <3>2. order[pending[ip]] = asked[ip]
      BY <2>1, <2>2 DEF IInv, TypeOK, OneQueryPerIP, CallsInv
    <3>3. \A e \in Entries : IpOf(e)' = IpOf(e) /\ (Stored(e)' <=> Stored(e))
      BY <2>1, <3>1 DEF IpOf, Stored, IInv, TypeOK, Entries
    <3>4. \A d \in Callers, e \in Entries : Fit(d, e)' <=> Fit(d, e)
      BY <2>1, <3>1, <3>3 DEF Fit
    <3>5. RanksBounded'
      BY <2>1, <3>1, <3>3 DEF IInv, TypeOK
    <3>6. CacheIsNewest'
      BY <1>0, <2>1, <3>1, <3>3 DEF IInv, TypeOK, Stored, IpOf
    <3>7. CallersFit'
      BY <1>0, <2>1, <3>1, <3>2, <3>4 DEF IInv, TypeOK
    <3>8. QED
      BY <3>5, <3>6, <3>7
  <2>3. CASE pending[ip] = Nil
    <3>1. /\ pc' = [pc EXCEPT ![c] = "query"] /\ UNCHANGED sees
          /\ asked' = [asked EXCEPT ![ip] = @ + 1]
          /\ order' = [order EXCEPT ![c] = asked[ip] + 1]
      BY <1>6, <2>3 DEF LoadOrStore, Goto
    <3>2. \A d \in Callers : pc[d] \in Owning => asks[d] # ip
      BY <2>3, LookupAssumption DEF IInv, OneQueryPerIP
    <3>3. \A e \in Entries : IpOf(e)' = IpOf(e) /\ (Stored(e)' <=> Stored(e))
      BY <2>1, <3>1 DEF IpOf, Stored, IInv, TypeOK, Entries
    <3>4. \A e \in Entries : e = c \/ order'[e] = order[e]
      BY <2>1, <3>1 DEF IInv, TypeOK
    <3>5. RanksBounded'
      <4>1. IpOf(c) = ip
        BY LookupAssumption DEF IpOf
      <4>2. \A e \in Entries : order'[e] <= asked'[IpOf(e)]
        BY <1>0, <2>1, <3>1, <3>3, <3>4, <4>1 DEF IInv, TypeOK
      <4>3. \A j \in IPs : returned[j] <= asked'[j]
        BY <2>1, <3>1 DEF IInv, TypeOK
      <4>4. \A d \in Callers : pc'[d] \in Owning => order'[d] = asked'[asks[d]]
        BY <2>1, <3>1, <3>2, <3>3, <3>4 DEF IInv, TypeOK, Entries
      <4>5. \A e \in Entries : order'[e] <= asked'[IpOf(e)']
        BY <3>3, <4>2
      <4>6. QED
        BY <2>1, <4>3, <4>4, <4>5 DEF IInv
    <3>6. CacheIsNewest'
      <4> SUFFICES ASSUME NEW j \in IPs, items[j] # Nil
                   PROVE  /\ Stored(items[j])' /\ IpOf(items[j])' = j
                          /\ returned[j] <= order'[items[j]]
                          /\ \A e \in Entries : Stored(e)' /\ IpOf(e)' = j => order'[e] <= order'[items[j]]
        BY <2>1
      <4>1. items[j] \in Entries /\ Stored(items[j]) /\ items[j] # c
        BY <2>1 DEF IInv, TypeOK
      <4>2. QED
        BY <2>1, <3>1, <3>3, <3>4, <4>1 DEF IInv, Stored, IpOf
    <3>7. CallersFit'
      <4> SUFFICES ASSUME NEW d \in Callers
                   PROVE  /\ pc'[d] \in Reading => Fit(d, sees[d])'
                          /\ pc'[d] = "wait" => order'[sees[d]] >= floor[d]
                          /\ pc'[d] \in Owning \cup {"close"} => order'[d] >= floor[d]
                          /\ pc'[d] = "done" /\ answer[d] # Nil => Fit(d, answer[d])'
        BY <2>1, <3>1
      <4>1. pc'[d] \in Reading => Fit(d, sees[d])'
        BY <2>1, <3>1, <3>3, <3>4 DEF IInv, TypeOK, Fit, Stored, IpOf
      <4>2. pc'[d] = "wait" => order'[sees[d]] >= floor[d]
        BY <2>1, <3>1, <3>3, <3>4 DEF IInv, TypeOK, CallsInv, Entries
      <4>3. pc'[d] \in Owning \cup {"close"} => order'[d] >= floor[d]
        BY <2>1, <3>1, <3>3, <3>4 DEF IInv, TypeOK, Entries
      <4>4. pc'[d] = "done" /\ answer[d] # Nil => Fit(d, answer[d])'
        BY <2>1, <3>1, <3>3, <3>4 DEF IInv, TypeOK, Fit, Stored, IpOf
      <4>5. QED
        BY <4>1, <4>2, <4>3, <4>4
    <3>8. QED
      BY <3>5, <3>6, <3>7
  <2>4. QED
    BY <2>2, <2>3
<1>7. ASSUME NEW c \in Callers, Query(c) PROVE RankInv'
  BY <1>0, <1>7, LookupAssumption
     DEF Query, Goto, IInv, TypeOK, CallsInv, cache, history, Fit, Stored, IpOf, Entries
<1>8. ASSUME NEW c \in Callers, Put(c) PROVE RankInv'
  <2> DEFINE ip == asks[c]
  <2>1. /\ pc[c] = "put" /\ pc' = [pc EXCEPT ![c] = "publish"] /\ items' = [items EXCEPT ![ip] = c]
        /\ UNCHANGED <<asks, sees, found, answer, order, asked, returned, floor>>
        /\ c \in Entries /\ ip \in IPs /\ IpOf(c) = ip /\ c \in found
    BY <1>8, LookupAssumption DEF Put, Goto, history, IInv, TypeOK, CallsInv, Entries, IpOf
  <2>2. \A e \in Entries : IpOf(e)' = IpOf(e) /\ (Stored(e)' <=> Stored(e) \/ e = c)
    BY <2>1, LookupAssumption DEF IpOf, Stored, IInv, TypeOK, Entries
  <2>3. \A d \in Callers, e \in Entries : Fit(d, e) => Fit(d, e)'
    BY <2>1, <2>2 DEF Fit
  <2>4. RanksBounded'
    BY <2>1, <2>2 DEF IInv, TypeOK
  <2>5. CacheIsNewest'
    <3> SUFFICES ASSUME NEW j \in IPs, items'[j] # Nil
                 PROVE  /\ Stored(items[j])' /\ IpOf(items[j])' = j
                        /\ returned[j] <= order[items'[j]]
                        /\ \A e \in Entries : Stored(e)' /\ IpOf(e)' = j => order[e] <= order[items'[j]]
      BY <2>1
    <3>1. CASE j = ip
      <4>1. items'[j] = c /\ order[c] = asked[ip]
        BY <2>1, <3>1 DEF IInv, TypeOK
      <4>2. returned[ip] <= asked[ip] /\ \A e \in Entries : IpOf(e) = ip => order[e] <= asked[ip]
        BY <2>1 DEF IInv
      <4>3. Stored(items[j])' /\ IpOf(items[j])' = j
        BY <2>1, <3>1, <4>1 DEF Stored, IpOf, IInv, TypeOK
      <4>4. QED
        BY <2>2, <3>1, <4>1, <4>2, <4>3
    <3>2. CASE j # ip
      <4>1. items'[j] = items[j] /\ items[j] \in Entries
        BY <2>1, <3>2 DEF IInv, TypeOK
      <4>2. Stored(items[j])' /\ IpOf(items[j])' = j
        BY <2>1, <4>1 DEF Stored, IpOf, IInv, TypeOK
      <4>3. QED
        BY <2>1, <2>2, <3>2, <4>1, <4>2 DEF IInv
    <3>3. QED
      BY <3>1, <3>2
  <2>6. CallersFit'
    BY <1>0, <2>1, <2>3 DEF IInv, TypeOK
  <2>7. QED
    BY <2>4, <2>5, <2>6
<1>9. ASSUME NEW c \in Callers, Publish(c) \/ Leave(c) PROVE RankInv'
  BY <1>0, <1>9, LookupAssumption
     DEF Publish, Leave, Goto, IInv, TypeOK, CallsInv, cache, history, Fit, Stored, IpOf, Entries
<1>10. ASSUME NEW c \in Callers, Close(c) PROVE RankInv'
  <2>1. c \in found => Fit(c, c)
    BY <1>10, LookupAssumption DEF Close, Fit, Stored, IpOf, Entries, IInv
  <2>2. QED
    BY <1>0, <1>10, <2>1, ReturnKeepsRanks DEF Close, IInv, TypeOK, cache, Entries
<1>11. ASSUME NEW c \in Callers, Wait(c) PROVE RankInv'
  <2> DEFINE i == IF sees[c] \in shared THEN sees[c] ELSE Nil
  <2>1. i # Nil => i \in Entries /\ Fit(c, i)
    BY <1>11, LookupAssumption DEF Wait, Fit, Stored, IpOf, Entries, IInv, TypeOK, CallsInv
  <2>2. QED
    BY <1>0, <1>11, <2>1, ReturnKeepsRanks DEF Wait, IInv, TypeOK, cache
<1>12. ASSUME Tick \/ UNCHANGED vars PROVE RankInv'
  <2>1. UNCHANGED <<items, pc, asks, sees, found, answer, order, asked, returned, floor>>
    BY <1>12 DEF Tick, vars, cache, calls, history
  <2>2. QED
    BY <2>1 DEF IInv, Fit, Stored, IpOf
<1>13. QED
  BY <1>1, <1>2, <1>3, <1>4, <1>5, <1>6, <1>7, <1>8, <1>9, <1>10, <1>11, <1>12 DEF Next, Get, Lookup

\* A caller that begins after another has returned gets no older Info, however
\* the callers read, evict and refresh the entries around it.
THEOREM MonotonicAnswers == Spec => []AnswersNeverGoBack
<1>1. Init => IInv
  BY TypeInit, FlightInit, CallsInit, RankInit DEF IInv
<1>2. IInv /\ [Next]_vars => IInv'
  BY TypeStep, FlightStep, CallsStep, RankStep DEF IInv
<1>3. IInv => AnswersNeverGoBack
  BY DEF IInv, RankInv, CallersFit, Fit, AnswersNeverGoBack
<1>4. QED
  BY <1>1, <1>2, <1>3, PTL DEF Spec
=============================================================================
