------------------------------ MODULE Tracker -------------------------------
(***************************************************************************)
(* The connection tracker of FRP_PV (internal/services/tracker.go) between *)
(* frps, whose plugin events it aggregates (internal/handlers/plugin.go),  *)
(* and the hub, to which it announces them.  The handlers of the events    *)
(* and the goroutines that look an address up before they record it        *)
(* interleave around the tracker's mutex and the hub's channel.            *)
(*                                                                         *)
(* Only events that are let through reach the tracker; the ban rules are   *)
(* in BanManager.  Dashboard adds the browser at the hub's other end.      *)
(***************************************************************************)
EXTENDS Integers, Sequences, FiniteSets

CONSTANTS
    Conns,     \* user connections, by their remote address
    Keys,      \* "ip|module"
    KeyOf,     \* the key of a connection
    Finds,     \* the connections whose lookup finds coordinates
    Modes,     \* firewall modes in which events are handled
    NextCap(_), \* the capacity that append gives a full slice of this one
    WireSize   \* capacity of the hub's channel (256 in the code)

\* Of append the language says only that there is room: the runtime doubles a
\* small slice, gives a large one a quarter more, and fills up what it allocates.
ASSUME TrackerAssumption ==
    /\ KeyOf \in [Conns -> Keys]
    /\ Finds \subseteq Conns
    /\ Modes \subseteq {"plugin", "iptables"}
    /\ WireSize \in Nat \ {0}
    /\ IsFiniteSet(Keys)
    /\ \A n \in 0 .. Cardinality(Keys) : NextCap(n) \in Nat /\ NextCap(n) > n

VARIABLES
    listed,    \* ct.records, by key: what AllRecords returns
    own,       \* the record behind ct.index, by key
    live,      \* the keys whose index entry points into ct.records
    cap,       \* the capacity of ct.records
    active,    \* ct.active
    frps,      \* what frps knows of a connection
    how,       \* the mode in which NewUserConn was handled
    opener,    \* where the handling of NewUserConn is
    closer,    \* where the handling of CloseUserConn is
    snap,      \* what Record copied under the mutex
    wire,      \* the hub's channel
    announced  \* history: the counts announced so far

records == <<listed, own, live, cap>>
vars == <<records, active, frps, how, opener, closer, snap, wire, announced>>

\* A record: how often its key connected, and whether it has a location.
Record == [count : Nat, placed : BOOLEAN]
Absent == [count |-> 0, placed |-> FALSE]
NoSnap == [rec |-> Absent, new |-> FALSE, active |-> FALSE]

\* One event of the hub; new_ip and update_ip carry a record, the others a
\* connection.
RecordEvents == [kind : {"new_ip", "update_ip"}, key : Keys, rec : Record]
ConnEvents == [kind : {"connection_opened", "connection_closed"}, conn : Conns]

TypeOK ==
    /\ listed \in [Keys -> Record] /\ own \in [Keys -> Record]
    /\ live \subseteq Keys /\ cap \in Nat
    /\ active \subseteq Conns
    /\ frps \in [Conns -> {"none", "asking", "open", "ended"}]
    /\ how \in [Conns -> {"plugin", "iptables"}]
    /\ opener \in [Conns -> {"idle", "open", "lookup", "emit", "announce", "done"}]
    /\ closer \in [Conns -> {"idle", "close", "emit", "done"}]
    /\ snap \in [Conns -> [rec : Record, new : BOOLEAN, active : BOOLEAN]]
    /\ wire \in Seq(RecordEvents \cup ConnEvents) /\ Len(wire) <= WireSize
    /\ announced \in [Keys -> SUBSET Nat]

Init ==
    /\ listed = [k \in Keys |-> Absent] /\ own = listed
    /\ live = {} /\ cap = 0
    /\ active = {}
    /\ frps = [c \in Conns |-> "none"]
    /\ how = [c \in Conns |-> "plugin"]
    /\ opener = [c \in Conns |-> "idle"]
    /\ closer = [c \in Conns |-> "idle"]
    /\ snap = [c \in Conns |-> NoSnap]
    /\ wire = <<>>
    /\ announced = [k \in Keys |-> {}]

Known(k) == own[k].count > 0
Length == Cardinality({k \in Keys : Known(k)})

\* Emit blocks while the hub's channel is full.
Emit(event) == Len(wire) < WireSize /\ wire' = Append(wire, event)

-----------------------------------------------------------------------------
(* frps and PluginHandler.Handle                                           *)

\* Bug: the answer comes before the connection is tracked, as in iptables mode.
AnswerFirst(c, mode) ==
    /\ frps[c] = "none"
    /\ how' = [how EXCEPT ![c] = mode]
    /\ frps' = [frps EXCEPT ![c] = "open"]
    /\ opener' = [opener EXCEPT ![c] = "open"]
    /\ UNCHANGED <<records, active, closer, snap, wire, announced>>

\* In plugin mode frps gets its answer once the connection is tracked; in
\* iptables mode at once, and another goroutine tracks it.
NewUserConn(c, mode) ==
    /\ frps[c] = "none"
    /\ how' = [how EXCEPT ![c] = mode]
    /\ frps' = [frps EXCEPT ![c] = IF mode = "plugin" THEN "asking" ELSE "open"]
    /\ opener' = [opener EXCEPT ![c] = "open"]
    /\ UNCHANGED <<records, active, closer, snap, wire, announced>>

\* frps announces the end of a connection it was allowed to open.
CloseUserConn(c) ==
    /\ frps[c] = "open"
    /\ frps' = [frps EXCEPT ![c] = "ended"]
    /\ closer' = [closer EXCEPT ![c] = "close"]
    /\ UNCHANGED <<records, active, how, opener, snap, wire, announced>>

\* OpenConnection, then the answer; LookupAsync runs on.
OpenConnection(c) ==
    /\ opener[c] = "open"
    /\ active' = active \cup {c}
    /\ opener' = [opener EXCEPT ![c] = "lookup"]
    /\ frps' = IF frps[c] = "asking" THEN [frps EXCEPT ![c] = "open"] ELSE frps
    /\ UNCHANGED <<records, how, closer, snap, wire, announced>>

-----------------------------------------------------------------------------
(* Record                                                                  *)

\* Bug: the index holds the address of the local record, not of the slice's.
IndexLocal(k) ==
    /\ cap' = IF Length # cap THEN cap ELSE NextCap(cap)
    /\ UNCHANGED live

\* append reallocates a full slice, and every older index entry then points
\* into the array that ct.records has left.
Grow(k) ==
    IF Length = cap
    THEN live' = {k} /\ cap' = NextCap(cap)
    ELSE live' = live \cup {k} /\ UNCHANGED cap

\* Record's critical section, when the lookup is over.
RecordLock(c) ==
    /\ opener[c] = "lookup"
    /\ LET k == KeyOf[c]
           rec == [count |-> own[k].count + 1, placed |-> own[k].placed \/ c \in Finds]
       IN /\ own' = [own EXCEPT ![k] = rec]
          /\ IF Known(k)
             THEN /\ listed' = IF k \in live THEN [listed EXCEPT ![k] = rec] ELSE listed
                  /\ UNCHANGED <<live, cap>>
             ELSE /\ listed' = [listed EXCEPT ![k] = rec]
                  /\ Grow(k)
          /\ snap' = [snap EXCEPT ![c] = [rec |-> rec, new |-> ~Known(k), active |-> c \in active]]
    /\ opener' = [opener EXCEPT ![c] = "emit"]
    /\ UNCHANGED <<active, frps, how, closer, wire, announced>>

\* Bug: the record is copied after the mutex is given back.
EmitLatest(c) ==
    /\ opener[c] = "emit"
    /\ Emit([kind |-> IF snap[c].new THEN "new_ip" ELSE "update_ip",
             key |-> KeyOf[c], rec |-> own[KeyOf[c]]])
    /\ opener' = [opener EXCEPT ![c] = IF snap[c].active THEN "announce" ELSE "done"]
    /\ snap' = [snap EXCEPT ![c] = NoSnap]
    /\ announced' = [announced EXCEPT ![KeyOf[c]] = @ \cup {own[KeyOf[c]].count}]
    /\ UNCHANGED <<records, active, frps, how, closer>>

EmitRecord(c) ==
    /\ opener[c] = "emit"
    /\ Emit([kind |-> IF snap[c].new THEN "new_ip" ELSE "update_ip",
             key |-> KeyOf[c], rec |-> snap[c].rec])
    /\ opener' = [opener EXCEPT ![c] = IF snap[c].active THEN "announce" ELSE "done"]
    /\ snap' = [snap EXCEPT ![c] = NoSnap]
    /\ announced' = [announced EXCEPT ![KeyOf[c]] = @ \cup {snap[c].rec.count}]
    /\ UNCHANGED <<records, active, frps, how, closer>>

EmitOpened(c) ==
    /\ opener[c] = "announce"
    /\ Emit([kind |-> "connection_opened", conn |-> c])
    /\ opener' = [opener EXCEPT ![c] = "done"]
    /\ UNCHANGED <<records, active, frps, how, closer, snap, announced>>

-----------------------------------------------------------------------------
(* CloseConnection                                                         *)

CloseLock(c) ==
    /\ closer[c] = "close"
    /\ active' = active \ {c}
    /\ closer' = [closer EXCEPT ![c] = "emit"]
    /\ UNCHANGED <<records, frps, how, opener, snap, wire, announced>>

EmitClosed(c) ==
    /\ closer[c] = "emit"
    /\ Emit([kind |-> "connection_closed", conn |-> c])
    /\ closer' = [closer EXCEPT ![c] = "done"]
    /\ UNCHANGED <<records, active, frps, how, opener, snap, announced>>

-----------------------------------------------------------------------------
\* Run takes the next event out of the channel.
Dispatch ==
    /\ wire # <<>>
    /\ wire' = Tail(wire)
    /\ UNCHANGED <<records, active, frps, how, opener, closer, snap, announced>>

-----------------------------------------------------------------------------
Frps(c) == CloseUserConn(c) \/ \E m \in Modes : NewUserConn(c, m)

Opener(c) ==
    OpenConnection(c) \/ RecordLock(c) \/ EmitRecord(c) \/ EmitOpened(c)

Closer(c) == CloseLock(c) \/ EmitClosed(c)

Next == Dispatch \/ \E c \in Conns : Frps(c) \/ Opener(c) \/ Closer(c)

Spec == Init /\ [][Next]_vars

-----------------------------------------------------------------------------
(* What the tracker promises                                               *)

Emitting(k) == {c \in Conns : KeyOf[c] = k /\ opener[c] = "emit"}

\* Every connection of a key is announced with a count of its own, whatever
\* order the goroutines of Record leave the mutex in: no count is skipped and
\* none is announced twice.
EveryCountAnnouncedOnce ==
    \A k \in Keys :
        LET pending == {snap[c].rec.count : c \in Emitting(k)}
        IN /\ announced[k] \cup pending = 1..own[k].count
           /\ announced[k] \cap pending = {}
           /\ \A c, d \in Emitting(k) : c # d => snap[c].rec.count # snap[d].rec.count

\* In plugin mode the active connections are those frps has open: each one from
\* the answer to NewUserConn until its CloseUserConn is handled.
ActiveTracksFrps ==
    \A c \in Conns : how[c] = "plugin" =>
        /\ frps[c] = "open" => c \in active
        /\ c \in active => closer[c] \in {"idle", "close"}

\* AllRecords lists every known key, and lags behind only for the keys that the
\* last growth of the slice copied, be it half of the slice or more: never for
\* one that came later, and for none while the slice has not grown.
OnlyOldRecordsLag ==
    /\ \A k \in Keys :
        /\ Known(k) <=> listed[k].count > 0
        /\ k \in live => listed[k] = own[k]
        /\ listed[k].count <= own[k].count
    /\ LET copied == Cardinality({k \in Keys : Known(k) /\ k \notin live})
       IN IF cap = 0 THEN copied = 0 ELSE cap = NextCap(copied)

-----------------------------------------------------------------------------
(* The inductive invariant behind ActiveTracksFrps                         *)

\* frps closes what it was allowed to open, and in plugin mode it is allowed to
\* only when the connection is tracked.
AnswersFollowTracking ==
    \A c \in Conns :
        /\ frps[c] = "none" => opener[c] = "idle" /\ c \notin active
        /\ closer[c] # "idle" => frps[c] = "ended"
        /\ how[c] = "plugin" /\ opener[c] = "open" => frps[c] = "asking"

-----------------------------------------------------------------------------
(* What the documentation says and the code does not do                    *)

\* tracker.go:41: AllRecords returns a snapshot of all aggregated records.
AllRecordsAreCurrent == listed = own

=============================================================================
