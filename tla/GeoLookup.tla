----------------------------- MODULE GeoLookup -----------------------------
(***************************************************************************)
(* How FRP_PV finds the location of an address: the cache                  *)
(* (internal/geo/cache.go) in front of one query at a time per address     *)
(* (Service.Lookup in internal/geo/service.go).                            *)
(*                                                                         *)
(* Each caller is a goroutine that looks one address up once, with Lookup  *)
(* or, if it is one of Peekers, with GetCached.  What a caller creates, a  *)
(* cache entry, a pendingCall or the Info of its query, goes by the        *)
(* caller's name; the entries loaded from disk go by their address's.      *)
(* The query of the providers is one step that ends in time, because of    *)
(* its deadline, with an Info or with nil: GeoQuery looks inside.  The     *)
(* file of the cache is GeoCacheFile's.                                    *)
(***************************************************************************)
EXTENDS Integers, FiniteSets

CONSTANTS
    Callers,     \* goroutines that look an address up
    Peekers,     \* those that only ask the cache
    IPs,         \* addresses
    Nil,         \* no entry, no call, no Info
    Window,      \* CacheConfig.ActiveWindow, in ticks of the clock
    ActiveTTL,   \* CacheConfig.ActiveTTL
    NormalTTL    \* CacheConfig.NormalTTL

ASSUME LookupAssumption ==
    /\ Peekers \subseteq Callers
    /\ Callers \cap IPs = {} /\ Nil \notin Callers \cup IPs
    /\ Window \in Nat /\ ActiveTTL \in Nat /\ NormalTTL \in Nat

VARIABLES
    items,      \* GeoCache.items
    entry,      \* the fields of the entries
    pending,    \* Service.pending
    closed,     \* the callers whose pendingCall.done is closed
    shared,     \* the callers whose pendingCall.info is set
    pc,         \* where a caller is
    asks,       \* the address it looks up
    sees,       \* the entry it read, or the call it waits for
    found,      \* the callers whose query found an Info
    answer,     \* what it returned
    order,      \* history: the rank of a query among those of its address
    asked,      \* history: the queries of an address so far
    returned,   \* history: the highest rank among the answers returned
    floor       \* history: that rank when the caller began

history == <<order, asked, returned, floor>>
cache == <<items, entry>>
calls == <<pending, closed, shared>>
vars == <<cache, calls, pc, asks, sees, found, answer, history>>

Entries == Callers \cup IPs

\* A cacheEntry: the time since CreatedAt and since LastHit, and HitCount,
\* counted up to the two at which it makes an entry active.
Fields == [age : Nat, idle : Nat, hits : {1, 2}]
Created == [age |-> 0, idle |-> 0, hits |-> 1]

\* Whether the entry has expired: active entries live shorter.
IsActive(e) == entry[e].hits >= 2 /\ entry[e].idle < Window
Expired(e) == entry[e].age > (IF IsActive(e) THEN ActiveTTL ELSE NormalTTL)

\* Where a caller holds an entry it read, and where it owns a pending call.
Reading == {"check", "hit", "evict"}
Owning == {"query", "put", "publish", "leave"}

TypeOK ==
    /\ items \in [IPs -> Entries \cup {Nil}]
    /\ entry \in [Entries -> Fields]
    /\ pending \in [IPs -> Callers \cup {Nil}]
    /\ closed \subseteq Callers /\ shared \subseteq found /\ found \subseteq Callers
    /\ pc \in [Callers -> {"idle", "get", "miss", "wait", "close", "done"}
                              \cup Reading \cup Owning]
    /\ asks \in [Callers -> IPs]
    /\ sees \in [Callers -> Entries \cup {Nil}]
    /\ \A c \in Callers : pc[c] \in Reading => sees[c] \in Entries
    /\ answer \in [Callers -> Entries \cup {Nil}]
    /\ order \in [Entries -> Nat]
    /\ asked \in [IPs -> Nat] /\ returned \in [IPs -> Nat]
    /\ floor \in [Callers -> Nat]

\* loadFromDisk brings back the entries that have not expired.
Init ==
    /\ \E loaded \in SUBSET IPs :
          /\ items = [ip \in IPs |-> IF ip \in loaded THEN ip ELSE Nil]
          /\ \E saved \in [loaded -> [age : 0 .. NormalTTL, idle : 0 .. NormalTTL, hits : {1, 2}]] :
                entry = [e \in Entries |-> IF e \in loaded THEN saved[e] ELSE Created]
    /\ \A e \in IPs : entry[e].idle <= entry[e].age /\ ~Expired(e)
    /\ pending = [ip \in IPs |-> Nil]
    /\ closed = {} /\ shared = {} /\ found = {}
    /\ pc = [c \in Callers |-> "idle"]
    /\ asks \in [Callers -> IPs]
    /\ sees = [c \in Callers |-> Nil]
    /\ answer = [c \in Callers |-> Nil]
    /\ order = [e \in Entries |-> 0]
    /\ asked = [ip \in IPs |-> 0] /\ returned = asked
    /\ floor = [c \in Callers |-> 0]

-----------------------------------------------------------------------------
(* GeoCache.Get                                                            *)

Goto(c, l) == pc' = [pc EXCEPT ![c] = l]

\* The caller returns the Info named i.
Return(c, i) ==
    /\ Goto(c, "done")
    /\ answer' = [answer EXCEPT ![c] = i]
    /\ returned' = [returned EXCEPT ![asks[c]] =
                      IF i # Nil /\ order[i] > @ THEN order[i] ELSE @]
    /\ UNCHANGED <<order, asked, floor>>

Begin(c) ==
    /\ pc[c] = "idle"
    /\ Goto(c, "get")
    /\ floor' = [floor EXCEPT ![c] = returned[asks[c]]]
    /\ UNCHANGED <<cache, calls, asks, sees, found, answer, order, asked, returned>>

\* Get returns nil: that is GetCached's answer, but Lookup goes on.
Miss(c) ==
    IF c \in Peekers THEN Return(c, Nil) ELSE Goto(c, "miss") /\ UNCHANGED <<answer, history>>

Read(c) ==
    /\ pc[c] = "get"
    /\ sees' = [sees EXCEPT ![c] = items[asks[c]]]
    /\ IF items[asks[c]] = Nil
       THEN Miss(c)
       ELSE Goto(c, "check") /\ UNCHANGED <<answer, history>>
    /\ UNCHANGED <<cache, calls, asks, found>>

\* HitCount and LastHit are read without the lock: while another caller
\* writes them, either result is possible.
Outcomes(c) ==
    IF \E d \in Callers \ {c} : pc[d] = "hit" /\ sees[d] = sees[c]
    THEN {entry[sees[c]].age > ActiveTTL, entry[sees[c]].age > NormalTTL}
    ELSE {Expired(sees[c])}

Check(c) ==
    /\ pc[c] = "check"
    /\ \E expired \in Outcomes(c) : Goto(c, IF expired THEN "evict" ELSE "hit")
    /\ UNCHANGED <<cache, calls, asks, sees, found, answer, history>>

Evict(c) ==
    /\ pc[c] = "evict"
    /\ items' = [items EXCEPT ![asks[c]] = Nil]
    /\ Miss(c)
    /\ UNCHANGED <<entry, calls, asks, sees, found>>

Hit(c) ==
    /\ pc[c] = "hit"
    /\ entry' = [entry EXCEPT ![sees[c]].idle = 0,
                               ![sees[c]].hits = IF entry[sees[c]].idle > Window THEN 1 ELSE 2]
    /\ Return(c, sees[c])
    /\ UNCHANGED <<items, calls, asks, sees, found>>

-----------------------------------------------------------------------------
(* Service.Lookup, after the cache missed                                  *)

\* Bug: the call is stored although another one was there.
StoreUnchecked(c) ==
    /\ pc[c] = "miss"
    /\ pending' = [pending EXCEPT ![asks[c]] = c]
    /\ asked' = [asked EXCEPT ![asks[c]] = @ + 1]
    /\ order' = [order EXCEPT ![c] = asked[asks[c]] + 1]
    /\ Goto(c, "query")
    /\ UNCHANGED <<cache, closed, shared, asks, sees, found, answer, returned, floor>>

\* LoadOrStore: the caller waits for the call that is there, or leaves its own.
LoadOrStore(c) ==
    /\ pc[c] = "miss"
    /\ IF pending[asks[c]] # Nil
       THEN /\ sees' = [sees EXCEPT ![c] = pending[asks[c]]]
            /\ Goto(c, "wait")
            /\ UNCHANGED <<pending, asked, order>>
       ELSE /\ pending' = [pending EXCEPT ![asks[c]] = c]
            /\ asked' = [asked EXCEPT ![asks[c]] = @ + 1]
            /\ order' = [order EXCEPT ![c] = asked[asks[c]] + 1]
            /\ Goto(c, "query")
            /\ UNCHANGED sees
    /\ UNCHANGED <<cache, closed, shared, asks, found, answer, returned, floor>>

\* Bug: a query without a result returns at once, outside the deferred close.
QueryOrQuit(c) ==
    /\ pc[c] = "query"
    /\ \/ /\ Goto(c, "put")
          /\ found' = found \cup {c}
          /\ UNCHANGED <<calls, answer, history>>
       \/ /\ pending' = [pending EXCEPT ![asks[c]] = Nil]
          /\ Return(c, Nil)
          /\ UNCHANGED <<closed, shared, found>>
    /\ UNCHANGED <<cache, asks, sees>>

\* queryAll ends with an Info, or with nil.
Query(c) ==
    /\ pc[c] = "query"
    /\ \/ Goto(c, "put") /\ found' = found \cup {c}
       \/ Goto(c, "publish") /\ UNCHANGED found
    /\ UNCHANGED <<cache, calls, asks, sees, answer, history>>

\* GeoCache.Put.
Put(c) ==
    /\ pc[c] = "put"
    /\ items' = [items EXCEPT ![asks[c]] = c]
    /\ entry' = [entry EXCEPT ![c] = Created]
    /\ Goto(c, "publish")
    /\ UNCHANGED <<calls, asks, sees, found, answer, history>>

\* Bug: the call is closed before its info is set.
CloseFirst(c) ==
    /\ pc[c] = "publish"
    /\ IF c \in closed
       THEN /\ shared' = IF c \in found THEN shared \cup {c} ELSE shared
            /\ Goto(c, "leave")
            /\ UNCHANGED closed
       ELSE closed' = closed \cup {c} /\ UNCHANGED <<shared, pc>>
    /\ UNCHANGED <<cache, pending, asks, sees, found, answer, history>>

Publish(c) ==
    /\ pc[c] = "publish"
    /\ shared' = IF c \in found THEN shared \cup {c} ELSE shared
    /\ Goto(c, "leave")
    /\ UNCHANGED <<cache, pending, closed, asks, sees, found, answer, history>>

\* Bug: the call is gone from pending before the answer is in the cache.
LeaveThenPut(c) ==
    \/ /\ pc[c] = "put" /\ pending[asks[c]] = c
       /\ pending' = [pending EXCEPT ![asks[c]] = Nil]
       /\ UNCHANGED <<cache, closed, shared, pc, asks, sees, found, answer, history>>
    \/ /\ pc[c] = "leave"
       /\ Goto(c, "close")
       /\ UNCHANGED <<cache, calls, asks, sees, found, answer, history>>

Leave(c) ==
    /\ pc[c] = "leave"
    /\ pending' = [pending EXCEPT ![asks[c]] = Nil]
    /\ Goto(c, "close")
    /\ UNCHANGED <<cache, closed, shared, asks, sees, found, answer, history>>

\* The call is closed, and its owner returns the Info it found.
Close(c) ==
    /\ pc[c] = "close"
    /\ closed' = closed \cup {c}
    /\ Return(c, IF c \in found THEN c ELSE Nil)
    /\ UNCHANGED <<cache, pending, shared, asks, sees, found>>

\* A waiter returns the info of the call it waited for.
Wait(c) ==
    /\ pc[c] = "wait" /\ sees[c] \in closed
    /\ Return(c, IF sees[c] \in shared THEN sees[c] ELSE Nil)
    /\ UNCHANGED <<cache, calls, asks, sees, found>>

-----------------------------------------------------------------------------

\* Time passes for the entries that are cached or held; past NormalTTL it is
\* not told apart.
Tick ==
    /\ entry' = [e \in Entries |->
          IF \/ \E ip \in IPs : items[ip] = e
             \/ \E c \in Callers : pc[c] \in Reading /\ sees[c] = e
          THEN [entry[e] EXCEPT !.age = IF @ > NormalTTL THEN @ ELSE @ + 1,
                                !.idle = IF @ > NormalTTL THEN @ ELSE @ + 1]
          ELSE entry[e]]
    /\ UNCHANGED <<items, calls, pc, asks, sees, found, answer, history>>

Get(c) == Read(c) \/ Check(c) \/ Evict(c) \/ Hit(c)
Lookup(c) == LoadOrStore(c) \/ Query(c) \/ Put(c) \/ Publish(c) \/ Leave(c) \/ Close(c) \/ Wait(c)

Next == Tick \/ \E c \in Callers : Begin(c) \/ Get(c) \/ Lookup(c)

Spec == Init /\ [][Next]_vars

\* A goroutine that began goes on until it returns: the queries end at their
\* deadlines.  Nothing makes anyone begin, or time pass.
FairSpec == Spec /\ \A c \in Callers : WF_vars(Get(c) \/ Lookup(c))

-----------------------------------------------------------------------------
(* Properties                                                              *)

\* However callers interleave, at most one of them queries an address, and
\* it is the one whose call the others find (LoadOrStore and the deferred
\* Delete in Lookup).
OneQueryPerIP ==
    \A c \in Callers : pc[c] \in Owning <=> pending[asks[c]] = c

\* A caller that waited returns what the query it waited for found: done is
\* closed after info is set.
WaitersShareAnswer ==
    [][\A c \in Callers : pc[c] = "wait" /\ pc'[c] = "done" =>
          answer'[c] = IF sees[c] \in found THEN sees[c] ELSE Nil]_vars

\* A caller that begins after another has returned never gets an older Info,
\* although Get evicts and updates entries it read earlier, and Put replaces
\* them: an answer is in the cache before its call leaves pending.
AnswersNeverGoBack ==
    \A c \in Callers : pc[c] = "done" /\ answer[c] # Nil => order[answer[c]] >= floor[c]

\* Every lookup returns, whatever the query finds.
LookupsReturn == \A c \in Callers : pc[c] # "idle" ~> pc[c] = "done"
=============================================================================
