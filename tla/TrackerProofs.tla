--------------------------- MODULE TrackerProofs ----------------------------
(***************************************************************************)
(* Proofs about Tracker, and about Dashboard on top of it, for any         *)
(* connections, keys, modes and channel size.                              *)
(***************************************************************************)
EXTENDS Dashboard, FiniteSetTheorems, TLAPS

-----------------------------------------------------------------------------
(* Types                                                                   *)

Event == RecordEvents \cup ConnEvents

\* The slice never holds more records than there are keys.
LEMMA LengthBounded == Length \in 0 .. Cardinality(Keys)
<1>1. IsFiniteSet(Keys) /\ {k \in Keys : Known(k)} \subseteq Keys
  BY TrackerAssumption
<1>2. QED
  BY <1>1, FS_Subset, FS_CardinalityType DEF Length

\* An event that finds room in the hub's channel keeps it within its capacity.
LEMMA EmitType ==
    ASSUME TypeOK, NEW e \in Event, Emit(e)
    PROVE  wire' \in Seq(Event) /\ Len(wire') <= WireSize
<1>1. wire \in Seq(Event) /\ Len(wire) < WireSize /\ wire' = Append(wire, e)
  BY DEF TypeOK, Emit, Event
<1>2. Append(wire, e) \in Seq(Event) /\ Len(Append(wire, e)) = Len(wire) + 1
  BY <1>1
<1>3. WireSize \in Nat /\ Len(wire) \in Nat
  BY <1>1, TrackerAssumption
<1>4. QED
  BY <1>1, <1>2, <1>3

\* The record that RecordLock makes.
LEMMA NextRecord ==
    ASSUME TypeOK, NEW k \in Keys, NEW b \in BOOLEAN
    PROVE  [count |-> own[k].count + 1, placed |-> own[k].placed \/ b] \in Record
<1>1. own[k] \in [count : Nat, placed : BOOLEAN]
  BY DEF TypeOK, Record
<1>2. own[k].count \in Nat /\ own[k].placed \in BOOLEAN
  BY <1>1
<1>3. (own[k].placed \/ b) \in BOOLEAN
  OBVIOUS
<1>4. QED
  BY <1>2, <1>3 DEF Record

LEMMA TypeInit == Init => TypeOK
<1> SUFFICES ASSUME Init PROVE TypeOK
  OBVIOUS
<1>1. Absent \in Record /\ NoSnap \in [rec : Record, new : BOOLEAN, active : BOOLEAN]
  BY DEF Absent, Record, NoSnap
<1>2. wire \in Seq(RecordEvents \cup ConnEvents) /\ Len(wire) <= WireSize
  BY TrackerAssumption DEF Init
<1>3. QED
  BY <1>1, <1>2 DEF Init, TypeOK

LEMMA TypeStep == TypeOK /\ [Next]_vars => TypeOK'
<1> SUFFICES ASSUME TypeOK, [Next]_vars PROVE TypeOK'
  OBVIOUS
<1>1. CASE Dispatch
  <2>1. Tail(wire) \in Seq(Event) /\ Len(Tail(wire)) <= WireSize
    <3>1. wire \in Seq(Event) /\ wire # <<>> /\ Len(wire) <= WireSize
      BY <1>1 DEF Dispatch, TypeOK, Event
    <3>2. Tail(wire) \in Seq(Event) /\ Len(Tail(wire)) = Len(wire) - 1 /\ Len(wire) \in Nat
      BY <3>1
    <3>3. QED
      BY <3>1, <3>2, TrackerAssumption
  <2>2. QED
    BY <1>1, <2>1 DEF Dispatch, TypeOK, Event, records
<1>2. ASSUME NEW c \in Conns, CloseUserConn(c) PROVE TypeOK'
  BY <1>2 DEF CloseUserConn, TypeOK, records
<1>3. ASSUME NEW c \in Conns, NEW m \in Modes, NewUserConn(c, m) PROVE TypeOK'
  BY <1>3, TrackerAssumption DEF NewUserConn, TypeOK, records
<1>4. ASSUME NEW c \in Conns, OpenConnection(c) PROVE TypeOK'
  BY <1>4 DEF OpenConnection, TypeOK, records
<1>5. ASSUME NEW c \in Conns, RecordLock(c) PROVE TypeOK'
  <2> DEFINE k == KeyOf[c]
             rec == [count |-> own[k].count + 1, placed |-> own[k].placed \/ c \in Finds]
             s == [rec |-> rec, new |-> ~Known(k), active |-> c \in active]
  <2>1. k \in Keys
    BY TrackerAssumption
  <2>2. rec \in Record
    BY <2>1, NextRecord
  <2>3. /\ own' = [own EXCEPT ![k] = rec]
        /\ listed' \in {listed, [listed EXCEPT ![k] = rec]}
        /\ snap' = [snap EXCEPT ![c] = s]
        /\ opener' = [opener EXCEPT ![c] = "emit"]
        /\ UNCHANGED <<active, frps, how, closer, wire, announced>>
    BY <1>5 DEF RecordLock
  <2>4. /\ live' \in {live, {k}, live \cup {k}}
        /\ cap' = cap \/ (Length = cap /\ cap' = NextCap(cap))
    BY <1>5 DEF RecordLock, Grow
  <2>5. s \in [rec : Record, new : BOOLEAN, active : BOOLEAN]
    BY <2>2 DEF Known
  <2> HIDE DEF k, rec, s
  <2>6. live' \subseteq Keys /\ cap' \in Nat
    BY <2>1, <2>4, LengthBounded, TrackerAssumption DEF TypeOK
  <2>7. own' \in [Keys -> Record] /\ listed' \in [Keys -> Record]
    BY <2>1, <2>2, <2>3 DEF TypeOK
  <2>8. /\ snap' \in [Conns -> [rec : Record, new : BOOLEAN, active : BOOLEAN]]
        /\ opener' \in [Conns -> {"idle", "open", "lookup", "emit", "announce", "done"}]
    BY <2>3, <2>5 DEF TypeOK
  <2>9. QED
    BY <2>3, <2>6, <2>7, <2>8 DEF TypeOK
<1>6. ASSUME NEW c \in Conns, EmitRecord(c) PROVE TypeOK'
  <2> DEFINE e == [kind |-> IF snap[c].new THEN "new_ip" ELSE "update_ip",
                   key |-> KeyOf[c], rec |-> snap[c].rec]
  <2>1. snap[c] \in [rec : Record, new : BOOLEAN, active : BOOLEAN]
    BY DEF TypeOK
  <2>2. snap[c].rec \in Record /\ KeyOf[c] \in Keys
    BY <2>1, TrackerAssumption
  <2>3. e \in Event
    BY <2>2 DEF Event, RecordEvents
  <2>4. Emit(e)
    BY <1>6 DEF EmitRecord
  <2>5. wire' \in Seq(Event) /\ Len(wire') <= WireSize
    BY <2>3, <2>4, EmitType
  <2>6. snap[c].rec.count \in Nat
    BY <2>2 DEF Record
  <2>7. announced' \in [Keys -> SUBSET Nat]
    BY <1>6, <2>2, <2>6 DEF EmitRecord, TypeOK
  <2>8. NoSnap \in [rec : Record, new : BOOLEAN, active : BOOLEAN]
    BY DEF NoSnap, Absent, Record
  <2>9. QED
    BY <1>6, <2>5, <2>7, <2>8 DEF EmitRecord, TypeOK, Event, records
<1>7. ASSUME NEW c \in Conns, EmitOpened(c) PROVE TypeOK'
  <2>1. [kind |-> "connection_opened", conn |-> c] \in Event
    BY DEF Event, ConnEvents
  <2>2. wire' \in Seq(Event) /\ Len(wire') <= WireSize
    BY <1>7, <2>1, EmitType DEF EmitOpened
  <2>3. QED
    BY <1>7, <2>2 DEF EmitOpened, TypeOK, Event, records
<1>8. ASSUME NEW c \in Conns, CloseLock(c) PROVE TypeOK'
  BY <1>8 DEF CloseLock, TypeOK, records
<1>9. ASSUME NEW c \in Conns, EmitClosed(c) PROVE TypeOK'
  <2>1. [kind |-> "connection_closed", conn |-> c] \in Event
    BY DEF Event, ConnEvents
  <2>2. wire' \in Seq(Event) /\ Len(wire') <= WireSize
    BY <1>9, <2>1, EmitType DEF EmitClosed
  <2>3. QED
    BY <1>9, <2>2 DEF EmitClosed, TypeOK, Event, records
<1>10. CASE UNCHANGED vars
  BY <1>10 DEF vars, records, TypeOK
<1>11. QED
  BY <1>1, <1>2, <1>3, <1>4, <1>5, <1>6, <1>7, <1>8, <1>9, <1>10
     DEF Next, Frps, Opener, Closer

\* Every reachable state is well-typed; in particular Emit never overfills the
\* hub's channel.
THEOREM TypeCorrect == Spec => []TypeOK
<1>1. QED
  BY TypeInit, TypeStep, PTL DEF Spec

-----------------------------------------------------------------------------
(* Active connections                                                      *)

ActiveInv == TypeOK /\ AnswersFollowTracking /\ ActiveTracksFrps

LEMMA ActiveInit == Init => ActiveInv
BY TypeInit DEF Init, ActiveInv, AnswersFollowTracking, ActiveTracksFrps

LEMMA ActiveStep == ActiveInv /\ [Next]_vars => ActiveInv'
<1> SUFFICES ASSUME ActiveInv, [Next]_vars PROVE ActiveInv'
  OBVIOUS
<1> USE DEF AnswersFollowTracking, ActiveTracksFrps
<1>1. TypeOK'
  BY TypeStep DEF ActiveInv
<1>2. CASE UNCHANGED <<active, frps, how, opener, closer>>
  BY <1>1, <1>2 DEF ActiveInv
<1>3. ASSUME NEW c \in Conns, CloseUserConn(c) PROVE ActiveInv'
  BY <1>1, <1>3 DEF CloseUserConn, ActiveInv, TypeOK
<1>4. ASSUME NEW c \in Conns, NEW m \in Modes, NewUserConn(c, m) PROVE ActiveInv'
  BY <1>1, <1>4 DEF NewUserConn, ActiveInv, TypeOK
<1>5. ASSUME NEW c \in Conns, OpenConnection(c) PROVE ActiveInv'
  BY <1>1, <1>5 DEF OpenConnection, ActiveInv, TypeOK
<1>6. ASSUME NEW c \in Conns,
             \/ RecordLock(c) \/ EmitRecord(c) \/ EmitOpened(c)
      PROVE  ActiveInv'
  <2>1. /\ UNCHANGED <<active, frps, how, closer>>
        /\ opener[c] # "idle"
        /\ opener' \in {[opener EXCEPT ![c] = x] : x \in {"emit", "announce", "done"}}
    BY <1>6 DEF RecordLock, EmitRecord, EmitOpened
  <2>2. QED
    BY <1>1, <2>1 DEF ActiveInv, TypeOK
<1>7. ASSUME NEW c \in Conns, CloseLock(c) PROVE ActiveInv'
  BY <1>1, <1>7 DEF CloseLock, ActiveInv, TypeOK
<1>8. ASSUME NEW c \in Conns, EmitClosed(c) PROVE ActiveInv'
  BY <1>1, <1>8 DEF EmitClosed, ActiveInv, TypeOK
<1>9. QED
  BY <1>2, <1>3, <1>4, <1>5, <1>6, <1>7, <1>8
     DEF Next, Frps, Opener, Closer, Dispatch, vars

\* In plugin mode a connection is active from the answer to NewUserConn until
\* its CloseUserConn is handled.
THEOREM ActiveConnectionsAreFrps == Spec => []ActiveTracksFrps
<1>1. ActiveInv => ActiveTracksFrps
  BY DEF ActiveInv
<1>2. QED
  BY <1>1, ActiveInit, ActiveStep, PTL DEF Spec

-----------------------------------------------------------------------------
(* Announced counts                                                        *)

CountInv == ActiveInv /\ EveryCountAnnouncedOnce

Pending(k) == {snap[c].rec.count : c \in Emitting(k)}

\* EveryCountAnnouncedOnce, for one key.
Announced(k) ==
    /\ announced[k] \cup Pending(k) = 1..own[k].count
    /\ announced[k] \cap Pending(k) = {}
    /\ \A c, d \in Emitting(k) : c # d => snap[c].rec.count # snap[d].rec.count

LEMMA CountLock ==
    ASSUME CountInv, NEW c \in Conns, RecordLock(c), NEW k \in Keys
    PROVE  Announced(k)'
<1> DEFINE n == own[k].count + 1
<1>1. Announced(k)
  BY DEF CountInv, EveryCountAnnouncedOnce, Announced, Pending
<1>2. own[k].count \in Nat
  BY DEF CountInv, ActiveInv, TypeOK, Record
<1>3. /\ opener[c] = "lookup" /\ opener' = [opener EXCEPT ![c] = "emit"]
      /\ announced' = announced
      /\ KeyOf[c] = k => own'[k].count = n /\ snap'[c].rec.count = n
      /\ KeyOf[c] # k => own'[k] = own[k]
      /\ \A d \in Conns \ {c} : snap'[d] = snap[d]
  BY TrackerAssumption DEF RecordLock, CountInv, ActiveInv, TypeOK
<1>4. opener \in [Conns -> {"idle", "open", "lookup", "emit", "announce", "done"}]
  BY DEF CountInv, ActiveInv, TypeOK
<1>5. CASE KeyOf[c] # k
  <2>1. Emitting(k)' = Emitting(k) /\ c \notin Emitting(k)
    BY <1>3, <1>4, <1>5 DEF Emitting
  <2>2. \A d \in Emitting(k) : snap'[d] = snap[d]
    BY <1>3, <2>1 DEF Emitting
  <2>3. Pending(k)' = Pending(k)
    BY <2>1, <2>2 DEF Pending
  <2>4. QED
    BY <1>1, <1>3, <1>5, <2>1, <2>2, <2>3 DEF Announced
<1>6. CASE KeyOf[c] = k
  <2>1. Emitting(k)' = Emitting(k) \cup {c} /\ c \notin Emitting(k)
    BY <1>3, <1>4, <1>6 DEF Emitting
  <2>2. \A d \in Emitting(k) : snap'[d] = snap[d]
    BY <1>3, <2>1 DEF Emitting
  <2>3. Pending(k)' = Pending(k) \cup {n}
    BY <1>3, <1>6, <2>1, <2>2 DEF Pending
  <2>4. 1..n = (1..own[k].count) \cup {n} /\ n \notin 1..own[k].count
    BY <1>2
  <2>5. n \notin Pending(k) /\ n \notin announced[k]
    BY <1>1, <2>4 DEF Announced
  <2>6. \A d \in Emitting(k) : snap[d].rec.count # n
    BY <2>5 DEF Pending
  <2>7. own'[k].count = n /\ snap'[c].rec.count = n
    BY <1>3, <1>6
  <2> HIDE DEF n
  <2>8. announced'[k] \cup Pending(k)' = 1..own'[k].count /\ announced'[k] \cap Pending(k)' = {}
    BY <1>1, <1>3, <2>3, <2>4, <2>5, <2>7 DEF Announced
  <2>9. \A d, e \in Emitting(k)' : d # e => snap'[d].rec.count # snap'[e].rec.count
    BY <1>1, <2>1, <2>2, <2>6, <2>7 DEF Announced
  <2>10. QED
    BY <2>8, <2>9 DEF Announced
<1>7. QED
  BY <1>5, <1>6

LEMMA CountEmit ==
    ASSUME CountInv, NEW c \in Conns, EmitRecord(c), NEW k \in Keys
    PROVE  Announced(k)'
<1> DEFINE n == snap[c].rec.count
<1>1. Announced(k)
  BY DEF CountInv, EveryCountAnnouncedOnce, Announced, Pending
<1>2. /\ opener[c] = "emit" /\ opener'[c] # "emit"
      /\ \A d \in Conns \ {c} : opener'[d] = opener[d] /\ snap'[d] = snap[d]
      /\ own' = own
      /\ announced'[k] = IF KeyOf[c] = k THEN announced[k] \cup {n} ELSE announced[k]
  BY TrackerAssumption DEF EmitRecord, CountInv, ActiveInv, TypeOK, records
<1>3. Emitting(k)' = Emitting(k) \ {c}
  BY <1>2 DEF Emitting
<1>4. \A d \in Emitting(k)' : snap'[d] = snap[d] /\ d \in Emitting(k) /\ d # c
  BY <1>2, <1>3 DEF Emitting
<1>5. Pending(k)' = {snap[d].rec.count : d \in Emitting(k) \ {c}}
  BY <1>3, <1>4 DEF Pending
<1>6. \A d, e \in Emitting(k)' : d # e => snap'[d].rec.count # snap'[e].rec.count
  BY <1>1, <1>4 DEF Announced
<1>7. CASE KeyOf[c] # k
  <2>1. c \notin Emitting(k)
    BY <1>7 DEF Emitting
  <2>2. Pending(k)' = Pending(k)
    BY <1>5, <2>1 DEF Pending
  <2>3. QED
    BY <1>1, <1>2, <1>6, <1>7, <2>2 DEF Announced
<1>8. CASE KeyOf[c] = k
  <2>1. c \in Emitting(k)
    BY <1>2, <1>8 DEF Emitting
  <2>2. Pending(k) = Pending(k)' \cup {n}
    BY <1>5, <2>1 DEF Pending
  <2>3. n \notin Pending(k)'
    BY <1>1, <1>5, <2>1 DEF Announced
  <2> HIDE DEF n
  <2>4. QED
    BY <1>1, <1>2, <1>6, <1>8, <2>2, <2>3 DEF Announced
<1>9. QED
  BY <1>7, <1>8

\* Every connection of a key is announced with a count of its own, in whatever
\* order the goroutines of Record run.
THEOREM CountsAreAnnounced == Spec => []EveryCountAnnouncedOnce
<1>1. Init => CountInv
  <2> SUFFICES ASSUME Init PROVE EveryCountAnnouncedOnce
    BY ActiveInit DEF CountInv
  <2>1. \A k \in Keys : Emitting(k) = {} /\ announced[k] = {} /\ own[k].count = 0
    BY DEF Init, Emitting, Absent
  <2>2. QED
    BY <2>1 DEF EveryCountAnnouncedOnce
<1>2. CountInv /\ [Next]_vars => CountInv'
  <2> SUFFICES ASSUME CountInv, [Next]_vars PROVE CountInv'
    OBVIOUS
  <2>1. ActiveInv'
    BY ActiveStep DEF CountInv
  <2>2. SUFFICES ASSUME NEW k \in Keys PROVE Announced(k)'
    BY <2>1 DEF CountInv, EveryCountAnnouncedOnce, Announced, Pending
  <2>3. ASSUME UNCHANGED <<own, snap, announced>>,
               \A d \in Conns : opener'[d] = "emit" <=> opener[d] = "emit"
        PROVE  Announced(k)'
    <3>1. Announced(k)
      BY DEF CountInv, EveryCountAnnouncedOnce, Announced, Pending
    <3>2. Emitting(k)' = Emitting(k)
      BY <2>3 DEF Emitting
    <3>3. QED
      BY <2>3, <3>1, <3>2 DEF Announced, Pending
  <2>4. ASSUME NEW c \in Conns, RecordLock(c) PROVE Announced(k)'
    BY <2>4, CountLock
  <2>5. ASSUME NEW c \in Conns, EmitRecord(c) PROVE Announced(k)'
    BY <2>5, CountEmit
  <2>6. ASSUME NEW c \in Conns,
               \/ Frps(c) \/ OpenConnection(c) \/ EmitOpened(c) \/ Closer(c)
        PROVE  Announced(k)'
    <3>1. /\ UNCHANGED <<own, snap, announced>>
          /\ \/ opener' = opener
             \/ /\ opener[c] # "emit"
                /\ \E x \in {"open", "lookup", "done"} : opener' = [opener EXCEPT ![c] = x]
      BY <2>6 DEF Frps, Closer, NewUserConn, CloseUserConn, OpenConnection, EmitOpened,
                  CloseLock, EmitClosed, records, CountInv, ActiveInv, AnswersFollowTracking
    <3>2. opener \in [Conns -> {"idle", "open", "lookup", "emit", "announce", "done"}]
      BY DEF CountInv, ActiveInv, TypeOK
    <3>3. ASSUME NEW d \in Conns PROVE opener'[d] = "emit" <=> opener[d] = "emit"
      <4>1. CASE opener' = opener
        BY <4>1
      <4>2. CASE opener' # opener
        <5>1. opener[c] # "emit" /\ \E x \in {"open", "lookup", "done"} : opener' = [opener EXCEPT ![c] = x]
          BY <3>1, <4>2
        <5>2. PICK x \in {"open", "lookup", "done"} : opener' = [opener EXCEPT ![c] = x]
          BY <5>1
        <5>3. QED
          BY <3>2, <5>1, <5>2
      <4>3. QED
        BY <4>1, <4>2
    <3>4. QED
      BY <2>3, <3>1, <3>3
  <2>7. QED
    BY <2>3, <2>4, <2>5, <2>6 DEF Next, Opener, Dispatch, vars, records
<1>3. CountInv => EveryCountAnnouncedOnce
  BY DEF CountInv
<1>4. QED
  BY <1>1, <1>2, <1>3, PTL DEF Spec

-----------------------------------------------------------------------------
(* The slice of records                                                    *)

LagInv == TypeOK /\ OnlyOldRecordsLag

\* The keys whose record is no longer the one in ct.records.
Left == {j \in Keys : Known(j) /\ j \notin live}

\* OnlyOldRecordsLag, for one key.
ListedWell(k) ==
    /\ Known(k) <=> listed[k].count > 0
    /\ k \in live => listed[k] = own[k]
    /\ listed[k].count <= own[k].count

\* What the last growth of a slice of this capacity copied.
Copied(n, size) == IF size = 0 THEN n = 0 ELSE size = NextCap(n)

LEMMA LagLock ==
    ASSUME LagInv, NEW c \in Conns, RecordLock(c)
    PROVE  (\A k \in Keys : ListedWell(k)') /\ Copied(Cardinality(Left'), cap')
<1> DEFINE key == KeyOf[c]
           rec == [count |-> own[key].count + 1, placed |-> own[key].placed \/ c \in Finds]
<1>1. /\ \A k \in Keys : ListedWell(k)
      /\ Copied(Cardinality(Left), cap)
  BY DEF LagInv, OnlyOldRecordsLag, ListedWell, Left, Copied
<1>2. key \in Keys /\ cap \in Nat
  BY TrackerAssumption DEF LagInv, TypeOK
<1>3. \A k \in Keys : own[k].count \in Nat /\ listed[k].count \in Nat
  BY DEF LagInv, TypeOK, Record
<1>4. /\ own' = [own EXCEPT ![key] = rec]
      /\ Known(key) => /\ listed' = IF key \in live THEN [listed EXCEPT ![key] = rec] ELSE listed
                       /\ live' = live /\ cap' = cap
      /\ ~Known(key) => listed' = [listed EXCEPT ![key] = rec] /\ Grow(key)
  BY DEF RecordLock
<1>5. own \in [Keys -> Record] /\ listed \in [Keys -> Record]
  BY DEF LagInv, TypeOK
<1>6. rec.count = own[key].count + 1
  OBVIOUS
<1> HIDE DEF key, rec
<1>7. /\ own'[key] = rec
      /\ \A k \in Keys \ {key} : own'[k] = own[k] /\ listed'[k] = listed[k]
      /\ listed'[key] = IF Known(key) /\ key \notin live THEN listed[key] ELSE rec
  BY <1>2, <1>4, <1>5
<1>8. /\ Known(key)'
      /\ \A k \in Keys \ {key} : Known(k)' <=> Known(k)
  BY <1>2, <1>3, <1>6, <1>7 DEF Known
<1>9. /\ \A k \in Keys \ {key} : k \in live' => k \in live
      /\ key \in live' => ~(Known(key) /\ key \notin live)
  BY <1>4 DEF Grow
<1>10. ASSUME NEW k \in Keys PROVE ListedWell(k)'
  <2>1. ListedWell(k)
    BY <1>1
  <2>2. CASE k # key
    BY <1>7, <1>8, <1>9, <2>1, <2>2 DEF ListedWell
  <2>3. CASE k = key /\ Known(key) /\ key \notin live
    BY <1>3, <1>6, <1>7, <1>8, <1>9, <2>1, <2>3 DEF ListedWell
  <2>4. CASE k = key /\ ~(Known(key) /\ key \notin live)
    BY <1>3, <1>6, <1>7, <1>8, <2>1, <2>4 DEF ListedWell
  <2>5. QED
    BY <2>2, <2>3, <2>4
<1>11. Copied(Cardinality(Left'), cap')
  <2>1. CASE Known(key)
    <3>1. Left' = Left
      BY <1>2, <1>4, <1>8, <2>1 DEF Left
    <3>2. QED
      BY <1>1, <1>4, <2>1, <3>1
  <2>2. CASE ~Known(key) /\ Length # cap
    <3>1. live' = live \cup {key} /\ cap' = cap
      BY <1>4, <2>2 DEF Grow
    <3>2. Left' = Left
      BY <1>2, <1>8, <2>2, <3>1 DEF Left
    <3>3. QED
      BY <1>1, <3>1, <3>2
  <2>3. CASE ~Known(key) /\ Length = cap
    <3>1. live' = {key} /\ cap' = NextCap(cap)
      BY <1>4, <2>3 DEF Grow
    <3>2. Left' = {k \in Keys : Known(k)}
      BY <1>2, <1>8, <2>3, <3>1 DEF Left
    <3>3. Cardinality(Left') = cap
      BY <2>3, <3>2 DEF Length
    <3>4. NextCap(cap) \in Nat /\ NextCap(cap) > cap
      BY <2>3, LengthBounded, TrackerAssumption
    <3>5. QED
      BY <1>2, <3>1, <3>3, <3>4 DEF Copied
  <2>4. QED
    BY <2>1, <2>2, <2>3
<1>12. QED
  BY <1>10, <1>11

LEMMA LagInit == Init => LagInv
<1> SUFFICES ASSUME Init PROVE OnlyOldRecordsLag
  BY TypeInit DEF LagInv, OnlyOldRecordsLag
<1>1. \A k \in Keys : own[k].count = 0 /\ listed[k].count = 0 /\ listed[k] = own[k]
  BY DEF Init, Absent
<1>2. {j \in Keys : Known(j) /\ j \notin live} = {} /\ cap = 0
  BY <1>1 DEF Init, Known
<1>3. Cardinality({}) = 0
  BY FS_EmptySet
<1>4. QED
  BY <1>1, <1>2, <1>3 DEF OnlyOldRecordsLag, Known

LEMMA LagStep == LagInv /\ [Next]_vars => LagInv'
<1> SUFFICES ASSUME LagInv, [Next]_vars PROVE LagInv'
  OBVIOUS
<1>1. TypeOK'
  BY TypeStep DEF LagInv
<1>2. ASSUME UNCHANGED records PROVE LagInv'
  BY <1>1, <1>2 DEF LagInv, OnlyOldRecordsLag, Known, records
<1>3. ASSUME NEW c \in Conns, RecordLock(c) PROVE LagInv'
  BY <1>1, <1>3, LagLock DEF LagInv, OnlyOldRecordsLag, ListedWell, Left, Copied
<1>4. QED
  BY <1>2, <1>3 DEF Next, Frps, Opener, Closer, Dispatch, NewUserConn, CloseUserConn,
     OpenConnection, EmitRecord, EmitOpened, CloseLock, EmitClosed, vars

\* AllRecords knows every key, and its entries lag behind for as many keys as
\* the last growth of the slice copied, however append grows it, and never for
\* the younger ones.
THEOREM LagIsBounded == Spec => []OnlyOldRecordsLag
<1>1. LagInv => OnlyOldRecordsLag
  BY DEF LagInv
<1>2. QED
  BY <1>1, LagInit, LagStep, PTL DEF Spec


-----------------------------------------------------------------------------
(* The dashboard: every step of it is one of the tracker or leaves it alone *)

LEMMA TrackerGoesOn == [ScreenNext]_allVars => [Next]_vars
<1>1. ASSUME NEW c \in Conns, TrackerStep(c) PROVE Next
  BY <1>1 DEF TrackerStep, Next, Opener
<1>2. Receive => Next
  BY DEF Receive, Next
<1>3. QED
  BY <1>1, <1>2 DEF ScreenNext, Register, ReadRecords, SendInit, ReadActive, SendActiveInit,
     Disconnect, allVars

\* The entries after an update of the count.
LEMMA CountedEntries ==
    ASSUME NEW s \in Seq(Record), NEW n \in Nat
    PROVE  LET t == [i \in DOMAIN s |-> [s[i] EXCEPT !.count = n]]
           IN /\ t \in Seq(Record) /\ Len(t) = Len(s)
              /\ DOMAIN t = DOMAIN s
              /\ \A i \in DOMAIN s : t[i].count = n /\ t[i].placed = s[i].placed
<1> DEFINE t == [i \in DOMAIN s |-> [s[i] EXCEPT !.count = n]]
<1>1. DOMAIN s = 1..Len(s) /\ Len(s) \in Nat /\ \A i \in DOMAIN s : s[i] \in Record
  OBVIOUS
<1>2. \A i \in DOMAIN s : /\ t[i] \in Record
                          /\ t[i].count = n /\ t[i].placed = s[i].placed
  BY <1>1 DEF Record
<1>3. t \in [1..Len(s) -> Record]
  BY <1>1, <1>2
<1>4. t \in Seq(Record) /\ Len(t) = Len(s)
  BY <1>1, <1>3
<1>5. QED
  BY <1>2, <1>4

\* What an event at the head of the channel is.
LEMMA HeadOfWire ==
    ASSUME TypeOK, wire # <<>>
    PROVE  /\ Head(wire) \in Event
           /\ Head(wire).kind \in {"new_ip", "update_ip"} => Head(wire) \in RecordEvents
           /\ Head(wire).kind \in {"connection_opened", "connection_closed"}
                => Head(wire) \in ConnEvents
<1>1. Head(wire) \in Event
  BY DEF TypeOK, Event
<1>2. QED
  BY <1>1 DEF Event, RecordEvents, ConnEvents

LEMMA TypesOfTracker == ScreenTypeOK => TypeOK
BY DEF ScreenTypeOK

LEMMA ReceiveTypes ==
    ASSUME ScreenTypeOK, Receive
    PROVE  view' \in [Keys -> Seq(Record)] /\ viewActive' \subseteq Conns
<1> DEFINE e == Head(wire)
<1>1. wire # <<>>
  BY DEF Receive, Dispatch
<1>2. \/ UNCHANGED <<view, viewActive>>
      \/ AddNewIp(e) \/ UpdateIp(e) \/ OpenInStore(e) \/ CloseInStore(e)
  BY DEF Receive
<1>3. CASE UNCHANGED <<view, viewActive>>
  BY <1>3 DEF ScreenTypeOK
<1>4. CASE AddNewIp(e)
  <2>1. e.key \in Keys /\ e.rec \in Record
    BY <1>1, <1>4, HeadOfWire, TypesOfTracker DEF AddNewIp, RecordEvents
  <2>2. Append(view[e.key], e.rec) \in Seq(Record)
    BY <2>1 DEF ScreenTypeOK
  <2>3. QED
    BY <1>4, <2>1, <2>2 DEF AddNewIp, ScreenTypeOK
<1>5. CASE UpdateIp(e)
  <2>1. e.key \in Keys /\ e.rec.count \in Nat
    BY <1>1, <1>5, HeadOfWire, TypesOfTracker DEF UpdateIp, RecordEvents, Record
  <2>2. view[e.key] \in Seq(Record)
    BY <2>1 DEF ScreenTypeOK
  <2>3. [i \in DOMAIN view[e.key] |-> [view[e.key][i] EXCEPT !.count = e.rec.count]] \in Seq(Record)
    BY <2>1, <2>2, CountedEntries
  <2>4. QED
    BY <1>5, <2>1, <2>3 DEF UpdateIp, ScreenTypeOK
<1>6. CASE OpenInStore(e)
  <2>1. e.conn \in Conns
    BY <1>1, <1>6, HeadOfWire, TypesOfTracker DEF OpenInStore, ConnEvents
  <2>2. QED
    BY <1>6, <2>1 DEF OpenInStore, ScreenTypeOK
<1>7. CASE CloseInStore(e)
  BY <1>7 DEF CloseInStore, ScreenTypeOK
<1>8. QED
  BY <1>2, <1>3, <1>4, <1>5, <1>6, <1>7

LEMMA ScreenTypeInit == ScreenInit => ScreenTypeOK
<1> SUFFICES ASSUME ScreenInit PROVE ScreenTypeOK
  OBVIOUS
<1>1. Nothing \in [records : [Keys -> Record], active : SUBSET Conns]
  BY DEF Nothing, Absent, Record
<1>2. view \in [Keys -> Seq(Record)]
  BY DEF ScreenInit
<1>3. TypeOK
  BY TypeInit DEF ScreenInit
<1>4. QED
  BY <1>1, <1>2, <1>3 DEF ScreenInit, ScreenTypeOK

LEMMA ScreenTypeStep == ScreenTypeOK /\ [ScreenNext]_allVars => ScreenTypeOK'
<1> SUFFICES ASSUME ScreenTypeOK, [ScreenNext]_allVars PROVE ScreenTypeOK'
  OBVIOUS
<1>1. TypeOK /\ TypeOK'
  BY TypesOfTracker, TrackerGoesOn, TypeStep
<1>2. Nothing \in [records : [Keys -> Record], active : SUBSET Conns]
  BY DEF Nothing, Absent, Record
<1>3. listed \in [Keys -> Record] /\ active \subseteq Conns
  BY <1>1 DEF TypeOK
<1>4. CASE Receive
  BY <1>1, <1>4, ReceiveTypes DEF Receive, ScreenTypeOK
<1>5. CASE Register
  BY <1>1, <1>5 DEF Register, Settled, ScreenTypeOK
<1>6. CASE ReadRecords \/ ReadActive
  BY <1>1, <1>3, <1>6 DEF ReadRecords, ReadActive, ScreenTypeOK
<1>7. CASE SendInit
  <2>1. \A k \in Keys : held.records[k] \in Record
    BY DEF ScreenTypeOK
  <2>2. view' \in [Keys -> Seq(Record)]
    BY <1>7, <2>1 DEF SendInit
  <2>3. QED
    BY <1>1, <1>2, <1>7, <2>2 DEF SendInit, ScreenTypeOK
<1>8. CASE SendActiveInit \/ Disconnect
  BY <1>1, <1>2, <1>8 DEF SendActiveInit, Disconnect, ScreenTypeOK
<1>9. ASSUME NEW c \in Conns, TrackerStep(c) PROVE ScreenTypeOK'
  <2>1. newcomers' \subseteq Keys
    BY <1>9, TrackerAssumption DEF TrackerStep, Watched, ScreenTypeOK
  <2>2. QED
    BY <1>1, <1>9, <2>1 DEF TrackerStep, screen, ScreenTypeOK
<1>10. CASE UNCHANGED allVars
  BY <1>1, <1>10 DEF allVars, screen, ScreenTypeOK
<1>11. QED
  BY <1>4, <1>5, <1>6, <1>7, <1>8, <1>9, <1>10 DEF ScreenNext

\* Every reachable state of a dashboard and its tracker is well-typed; a snapshot
\* is held only while the greeting is between reading and sending it.
THEOREM DashboardTypes == ScreenSpec => []ScreenTypeOK
<1>1. QED
  BY ScreenTypeInit, ScreenTypeStep, PTL DEF ScreenSpec

-----------------------------------------------------------------------------
(* A greeting in a quiet moment                                            *)

\* What the store shows once it was told of all that the tracker lists.
AsListed == [k \in Keys |-> IF Known(k) THEN <<listed[k]>> ELSE <<>>]

\* As long as nothing happens after Register, each half of the greeting is what
\* the tracker still has, from the moment it is read.
CalmInv ==
    calm =>
        /\ Settled /\ dash # "away"
        /\ dash = "init" => held.records = listed
        /\ dash \in {"active", "active_init", "live"} => view = AsListed
        /\ dash = "active_init" => held.active = active
        /\ dash = "live" => viewActive = active

LEMMA CalmStep ==
    ASSUME ScreenTypeOK, LagInv, CalmInv, [ScreenNext]_allVars
    PROVE  CalmInv'
<1>1. CASE Receive
  <2>1. ~Settled
    BY <1>1 DEF Receive, Dispatch, Settled
  <2>2. QED
    BY <1>1, <2>1 DEF Receive, CalmInv
<1>2. ASSUME UNCHANGED vars PROVE Settled' = Settled /\ AsListed' = AsListed
  <2>1. UNCHANGED <<own, listed, wire, opener, closer>>
    BY <1>2 DEF vars, records
  <2>2. QED
    BY <2>1 DEF Settled, AsListed, Known
<1>3. CASE Register
  BY <1>2, <1>3 DEF Register, CalmInv
<1>4. CASE ReadRecords
  <2>1. held'.records = listed /\ listed' = listed
    BY <1>4 DEF ReadRecords, ScreenTypeOK, vars, records
  <2>2. QED
    BY <1>2, <1>4, <2>1 DEF ReadRecords, CalmInv
<1>5. CASE SendInit
  <2>1. ASSUME calm PROVE view' = AsListed
    <3>1. held.records = listed
      BY <1>5, <2>1 DEF SendInit, CalmInv
    <3>2. \A k \in Keys : Known(k) <=> listed[k].count > 0
      BY DEF LagInv, OnlyOldRecordsLag
    <3>3. QED
      BY <1>5, <3>1, <3>2 DEF SendInit, AsListed
  <2>2. QED
    BY <1>2, <1>5, <2>1 DEF SendInit, CalmInv
<1>6. CASE ReadActive
  <2>1. held'.active = active /\ active' = active
    BY <1>6 DEF ReadActive, ScreenTypeOK, vars
  <2>2. QED
    BY <1>2, <1>6, <2>1 DEF ReadActive, CalmInv
<1>7. CASE SendActiveInit
  <2>1. active' = active
    BY <1>7 DEF SendActiveInit, vars
  <2>2. QED
    BY <1>2, <1>7, <2>1 DEF SendActiveInit, CalmInv
<1>8. CASE Disconnect
  BY <1>8 DEF Disconnect, CalmInv
<1>9. ASSUME NEW c \in Conns, TrackerStep(c) PROVE CalmInv'
  BY <1>9 DEF TrackerStep, CalmInv
<1>10. CASE UNCHANGED allVars
  <2>1. UNCHANGED vars /\ UNCHANGED <<dash, held, view, viewActive, calm, listed, active>>
    BY <1>10 DEF allVars, screen, vars, records
  <2>2. QED
    BY <1>2, <2>1 DEF CalmInv
<1>11. QED
  BY <1>1, <1>3, <1>4, <1>5, <1>6, <1>7, <1>8, <1>9, <1>10 DEF ScreenNext

\* Reconnecting in a quiet moment repairs the store, whatever it showed before.
THEOREM CalmHeals == ScreenSpec => []CalmGreetingHeals
<1> DEFINE Inv == ScreenTypeOK /\ LagInv /\ CalmInv
<1>1. ScreenInit => Inv
  BY ScreenTypeInit, LagInit DEF ScreenInit, CalmInv
<1>2. Inv /\ [ScreenNext]_allVars => Inv'
  BY ScreenTypeStep, TrackerGoesOn, LagStep, CalmStep
<1>3. Inv => CalmGreetingHeals
  BY DEF CalmInv, CalmGreetingHeals, AsListed
<1>4. QED
  BY <1>1, <1>2, <1>3, PTL DEF ScreenSpec

-----------------------------------------------------------------------------
(* Nothing is shown that did not happen                                    *)

\* A record that the tracker once had for a key.
Past(k, rec) == rec.count \in 1..own[k].count /\ (rec.placed => own[k].placed)

\* The copies of a record: in the slice, read for a greeting, shown, taken under
\* the mutex, in the channel.
ListedPast == \A k \in Keys : listed[k].count > 0 => Past(k, listed[k])
HeldPast == \A k \in Keys : held.records[k].count > 0 => Past(k, held.records[k])
ShownPast == \A k \in Keys : \A i \in DOMAIN view[k] : Past(k, view[k][i])
SnapsPast == \A c \in Conns : opener[c] = "emit" => Past(KeyOf[c], snap[c].rec)
WirePast ==
    \A i \in 1..Len(wire) :
        wire[i].kind \in {"new_ip", "update_ip"} => Past(wire[i].key, wire[i].rec)

\* The same of the state after a step.
PastNext(k, rec) == rec.count \in 1..own'[k].count /\ (rec.placed => own'[k].placed)

PastInv == ListedPast /\ HeldPast /\ ShownPast /\ SnapsPast /\ WirePast

\* The tracker forgets no connection and no location.
LEMMA OwnGrows ==
    ASSUME TypeOK, [Next]_vars, NEW k \in Keys, NEW rec, Past(k, rec)
    PROVE  PastNext(k, rec)
<1>1. own[k].count \in Nat
  BY DEF TypeOK, Record
<1>2. ASSUME NEW c \in Conns, RecordLock(c) PROVE PastNext(k, rec)
  <2> DEFINE key == KeyOf[c]
             r == [count |-> own[key].count + 1, placed |-> own[key].placed \/ c \in Finds]
  <2>1. own' = [own EXCEPT ![key] = r]
    BY <1>2 DEF RecordLock
  <2>2. key \in Keys /\ own \in [Keys -> Record]
    BY TrackerAssumption DEF TypeOK
  <2>3. r.count = own[key].count + 1 /\ (own[key].placed => r.placed)
    OBVIOUS
  <2> HIDE DEF key, r
  <2>4. own'[k] = IF k = key THEN r ELSE own[k]
    BY <2>1, <2>2
  <2>5. 1..own[k].count \subseteq 1..own'[k].count
    BY <1>1, <2>3, <2>4
  <2>6. own[k].placed => own'[k].placed
    BY <2>3, <2>4
  <2>7. QED
    BY <2>5, <2>6 DEF Past, PastNext
<1>3. CASE UNCHANGED own
  BY <1>3 DEF Past, PastNext
<1>4. QED
  BY <1>2, <1>3 DEF Next, Frps, Opener, Closer, Dispatch, NewUserConn, CloseUserConn,
     OpenConnection, EmitRecord, EmitOpened, CloseLock, EmitClosed, vars, records

\* The record that Record announces and lists is one the tracker then has.
LEMMA NewRecordIsPast ==
    ASSUME TypeOK, NEW c \in Conns, RecordLock(c)
    PROVE  /\ Past(KeyOf[c], own[KeyOf[c]])'
           /\ \A k \in Keys : listed'[k] = listed[k] \/ (k = KeyOf[c] /\ listed'[k] = own'[k])
           /\ snap' = [snap EXCEPT ![c] = [rec |-> own'[KeyOf[c]], new |-> ~Known(KeyOf[c]),
                                           active |-> c \in active]]
<1> DEFINE key == KeyOf[c]
           r == [count |-> own[key].count + 1, placed |-> own[key].placed \/ c \in Finds]
<1>1. key \in Keys /\ own \in [Keys -> Record] /\ listed \in [Keys -> Record]
  BY TrackerAssumption DEF TypeOK
<1>2. /\ own' = [own EXCEPT ![key] = r]
      /\ listed' \in {listed, [listed EXCEPT ![key] = r]}
      /\ snap' = [snap EXCEPT ![c] = [rec |-> r, new |-> ~Known(key), active |-> c \in active]]
  BY DEF RecordLock
<1>3. r.count = own[key].count + 1 /\ own[key].count \in Nat
  BY <1>1 DEF Record
<1> HIDE DEF key, r
<1>4. own'[key] = r
  BY <1>1, <1>2
<1>5. r.count \in 1..own'[key].count
  BY <1>3, <1>4
<1>6. \A k \in Keys : listed'[k] = listed[k] \/ (k = key /\ listed'[k] = r)
  <2>1. CASE listed' = listed
    BY <2>1
  <2>2. CASE listed' = [listed EXCEPT ![key] = r]
    BY <1>1, <2>2
  <2>3. QED
    BY <1>2, <2>1, <2>2
<1>7. QED
  BY <1>2, <1>4, <1>5, <1>6 DEF Past, key

LEMMA PastReceive ==
    ASSUME ScreenTypeOK, PastInv, Receive
    PROVE  ShownPast' /\ WirePast'
<1> DEFINE e == Head(wire)
<1>1. TypeOK /\ wire # <<>> /\ wire' = Tail(wire) /\ own' = own
  BY TypesOfTracker DEF Receive, Dispatch, records
<1>2. wire \in Seq(Event) /\ Len(wire) \in Nat
  BY <1>1 DEF TypeOK, Event
<1>3. Len(wire) >= 1 /\ e = wire[1]
  BY <1>1, <1>2
<1>4. WirePast'
  <2>1. Len(wire') = Len(wire) - 1 /\ \A i \in 1..Len(wire') : wire'[i] = wire[i + 1]
    BY <1>1, <1>2
  <2>2. \A i \in 1..Len(wire') : i + 1 \in 1..Len(wire)
    BY <1>2, <2>1
  <2>3. QED
    BY <1>1, <2>1, <2>2 DEF PastInv, WirePast, Past
<1>5. e.kind \in {"new_ip", "update_ip"} => /\ Past(e.key, e.rec)
                                           /\ e.key \in Keys /\ e.rec \in Record
  BY <1>1, <1>2, <1>3, HeadOfWire DEF PastInv, WirePast, RecordEvents
<1>6. \/ view' = view \/ AddNewIp(e) \/ UpdateIp(e)
  BY DEF Receive, OpenInStore, CloseInStore
<1>7. CASE view' = view
  BY <1>1, <1>4, <1>7 DEF PastInv, ShownPast, Past
<1>8. CASE AddNewIp(e)
  <2>1. /\ e.key \in Keys /\ e.rec \in Record /\ Past(e.key, e.rec)
        /\ view' = [view EXCEPT ![e.key] = Append(view[e.key], e.rec)]
    BY <1>5, <1>8 DEF AddNewIp
  <2>2. view \in [Keys -> Seq(Record)]
    BY DEF ScreenTypeOK
  <2> HIDE DEF e
  <2>3. ASSUME NEW k \in Keys, NEW i \in DOMAIN view'[k] PROVE Past(k, view[k][i])'
    <3>1. CASE k # e.key
      <4>1. view'[k] = view[k]
        BY <2>1, <2>2, <3>1
      <4>2. Past(k, view[k][i])
        BY <2>3, <4>1 DEF PastInv, ShownPast
      <4>3. QED
        BY <1>1, <4>1, <4>2 DEF Past
    <3>2. CASE k = e.key
      <4>1. view'[k] = Append(view[k], e.rec) /\ view[k] \in Seq(Record)
        BY <2>1, <2>2, <3>2
      <4>2. (i \in DOMAIN view[k] /\ view'[k][i] = view[k][i]) \/ view'[k][i] = e.rec
        BY <2>1, <2>3, <4>1
      <4>3. Past(k, view'[k][i])
        BY <2>1, <3>2, <4>2 DEF PastInv, ShownPast
      <4>4. QED
        BY <1>1, <4>3 DEF Past
    <3>3. QED
      BY <3>1, <3>2
  <2>4. QED
    BY <1>4, <2>3 DEF ShownPast
<1>9. CASE UpdateIp(e)
  <2> DEFINE t == [i \in DOMAIN view[e.key] |-> [view[e.key][i] EXCEPT !.count = e.rec.count]]
  <2>1. e.key \in Keys /\ e.rec \in Record /\ Past(e.key, e.rec) /\ view' = [view EXCEPT ![e.key] = t]
    BY <1>5, <1>9 DEF UpdateIp
  <2>2. view \in [Keys -> Seq(Record)]
    BY DEF ScreenTypeOK
  <2>3. e.rec.count \in Nat /\ view[e.key] \in Seq(Record)
    BY <2>1, <2>2 DEF Record
  <2>4. DOMAIN t = DOMAIN view[e.key]
    OBVIOUS
  <2>5. \A i \in DOMAIN t : t[i].count = e.rec.count /\ t[i].placed = view[e.key][i].placed
    BY <2>3, <2>4, CountedEntries
  <2> HIDE DEF e, t
  <2>6. ASSUME NEW k \in Keys, NEW i \in DOMAIN view'[k] PROVE Past(k, view[k][i])'
    <3>1. CASE k # e.key
      <4>1. view'[k] = view[k]
        BY <2>1, <2>2, <3>1
      <4>2. Past(k, view[k][i])
        BY <2>6, <4>1 DEF PastInv, ShownPast
      <4>3. QED
        BY <1>1, <4>1, <4>2 DEF Past
    <3>2. CASE k = e.key
      <4>1. view'[k] = t
        BY <2>1, <2>2, <3>2
      <4>2. Past(k, view[k][i])
        BY <2>4, <2>6, <3>2, <4>1 DEF PastInv, ShownPast
      <4>3. QED
        BY <1>1, <2>1, <2>5, <2>6, <3>2, <4>1, <4>2 DEF Past
    <3>3. QED
      BY <3>1, <3>2
  <2>7. QED
    BY <1>4, <2>6 DEF ShownPast
<1>10. QED
  BY <1>6, <1>7, <1>8, <1>9

\* What the tracker's own steps do to the copies it keeps.
LEMMA PastTracker ==
    ASSUME TypeOK, ListedPast, SnapsPast, WirePast, NEW c \in Conns,
           Frps(c) \/ Opener(c) \/ Closer(c)
    PROVE  ListedPast' /\ SnapsPast' /\ WirePast'
<1>1. ASSUME NEW k \in Keys, NEW rec, Past(k, rec) PROVE PastNext(k, rec)
  <2>1. [Next]_vars
    BY DEF Next
  <2>2. QED
    BY <1>1, <2>1, OwnGrows
<1>2. /\ listed \in [Keys -> Record] /\ wire \in Seq(Event) /\ KeyOf \in [Conns -> Keys]
      /\ opener \in [Conns -> {"idle", "open", "lookup", "emit", "announce", "done"}]
      /\ snap \in [Conns -> [rec : Record, new : BOOLEAN, active : BOOLEAN]]
  BY TrackerAssumption DEF TypeOK, Event
<1>3. ASSUME NEW i \in 1..Len(wire), wire[i].kind \in {"new_ip", "update_ip"}
      PROVE  PastNext(wire[i].key, wire[i].rec)
  <2>1. wire[i] \in Event
    BY <1>2
  <2>2. wire[i].key \in Keys
    BY <1>3, <2>1 DEF Event, RecordEvents, ConnEvents
  <2>3. Past(wire[i].key, wire[i].rec)
    BY <1>3 DEF WirePast
  <2>4. QED
    BY <1>1, <2>2, <2>3
<1>4. ASSUME UNCHANGED listed PROVE ListedPast'
  <2>1. \A k \in Keys : listed[k].count > 0 => PastNext(k, listed[k])
    BY <1>1 DEF ListedPast
  <2>2. QED
    BY <1>4, <2>1 DEF ListedPast, Past, PastNext
<1>5. ASSUME NEW d \in Conns, opener[d] = "emit" PROVE PastNext(KeyOf[d], snap[d].rec)
  BY <1>1, <1>2, <1>5 DEF SnapsPast
<1>6. ASSUME \A d \in Conns : opener'[d] = "emit" => opener[d] = "emit" /\ snap'[d] = snap[d]
      PROVE  SnapsPast'
  BY <1>5, <1>6 DEF SnapsPast, Past, PastNext
<1>7. ASSUME UNCHANGED wire PROVE WirePast'
  BY <1>3, <1>7 DEF WirePast, Past, PastNext
<1>8. ASSUME NEW e \in Event, wire' = Append(wire, e),
             e.kind \in {"new_ip", "update_ip"} => PastNext(e.key, e.rec)
      PROVE  WirePast'
  <2>1. ASSUME NEW i \in 1..Len(wire')
        PROVE  (i \in 1..Len(wire) /\ wire'[i] = wire[i]) \/ wire'[i] = e
    BY <1>2, <1>8, <2>1
  <2>2. \A i \in 1..Len(wire') :
          wire'[i].kind \in {"new_ip", "update_ip"} => PastNext(wire'[i].key, wire'[i].rec)
    BY <1>3, <1>8, <2>1
  <2>3. QED
    BY <2>2 DEF WirePast, Past, PastNext
<1>9. CASE Frps(c) \/ OpenConnection(c) \/ CloseLock(c)
  <2>1. UNCHANGED <<listed, snap, wire>>
    BY <1>9 DEF Frps, NewUserConn, CloseUserConn, OpenConnection, CloseLock, records
  <2>2. \A d \in Conns : opener'[d] = "emit" => opener[d] = "emit"
    BY <1>2, <1>9 DEF Frps, NewUserConn, CloseUserConn, OpenConnection, CloseLock
  <2>3. QED
    BY <1>4, <1>6, <1>7, <2>1, <2>2
<1>10. CASE RecordLock(c)
  <2>1. KeyOf[c] \in Keys
    BY <1>2
  <2>2. PastNext(KeyOf[c], own'[KeyOf[c]])
    BY <1>10, NewRecordIsPast DEF Past, PastNext
  <2>3. \A k \in Keys : listed'[k] = listed[k] \/ (k = KeyOf[c] /\ listed'[k] = own'[k])
    BY <1>10, NewRecordIsPast
  <2>4. \A k \in Keys : listed'[k].count > 0 => PastNext(k, listed'[k])
    BY <1>1, <2>2, <2>3 DEF ListedPast
  <2>5. ListedPast'
    BY <2>4 DEF ListedPast, Past, PastNext
  <2>6. /\ snap' = [snap EXCEPT ![c] = [rec |-> own'[KeyOf[c]], new |-> ~Known(KeyOf[c]),
                                         active |-> c \in active]]
        /\ opener' = [opener EXCEPT ![c] = "emit"] /\ wire' = wire
    BY <1>10, NewRecordIsPast DEF RecordLock
  <2>7. /\ snap'[c].rec = own'[KeyOf[c]]
        /\ \A d \in Conns \ {c} : snap'[d] = snap[d] /\ opener'[d] = opener[d]
    BY <1>2, <2>6
  <2>8. \A d \in Conns : opener'[d] = "emit" => PastNext(KeyOf[d], snap'[d].rec)
    BY <1>5, <2>2, <2>7
  <2>9. SnapsPast'
    BY <2>8 DEF SnapsPast, Past, PastNext
  <2>10. QED
    BY <1>7, <2>5, <2>6, <2>9
<1>11. CASE EmitRecord(c)
  <2> DEFINE e == [kind |-> IF snap[c].new THEN "new_ip" ELSE "update_ip",
                   key |-> KeyOf[c], rec |-> snap[c].rec]
  <2>1. opener[c] = "emit" /\ wire' = Append(wire, e) /\ UNCHANGED listed
    BY <1>11 DEF EmitRecord, Emit, records
  <2>2. e \in Event
    BY <1>2 DEF Event, RecordEvents
  <2>3. PastNext(e.key, e.rec)
    BY <1>5, <2>1
  <2>4. \A d \in Conns : opener'[d] = "emit" => opener[d] = "emit" /\ snap'[d] = snap[d]
    BY <1>2, <1>11 DEF EmitRecord
  <2> HIDE DEF e
  <2>5. QED
    BY <1>4, <1>6, <1>8, <2>1, <2>2, <2>3, <2>4
<1>12. ASSUME NEW e \in ConnEvents, Emit(e), UNCHANGED <<listed, snap>>,
              \A d \in Conns : opener'[d] = "emit" => opener[d] = "emit"
       PROVE  ListedPast' /\ SnapsPast' /\ WirePast'
  BY <1>4, <1>6, <1>8, <1>12 DEF Emit, ConnEvents, Event
<1>13. CASE EmitOpened(c)
  <2>1. [kind |-> "connection_opened", conn |-> c] \in ConnEvents
    BY DEF ConnEvents
  <2>2. UNCHANGED <<listed, snap>> /\ \A d \in Conns : opener'[d] = "emit" => opener[d] = "emit"
    BY <1>2, <1>13 DEF EmitOpened, records
  <2>3. QED
    BY <1>12, <1>13, <2>1, <2>2 DEF EmitOpened
<1>14. CASE EmitClosed(c)
  <2>1. [kind |-> "connection_closed", conn |-> c] \in ConnEvents
    BY DEF ConnEvents
  <2>2. UNCHANGED <<listed, snap, opener>>
    BY <1>14 DEF EmitClosed, records
  <2>3. QED
    BY <1>12, <1>14, <2>1, <2>2 DEF EmitClosed
<1>15. QED
  BY <1>9, <1>10, <1>11, <1>13, <1>14 DEF Opener, Closer

LEMMA PastStep ==
    ASSUME ScreenTypeOK, PastInv, [ScreenNext]_allVars
    PROVE  PastInv'
<1>1. TypeOK /\ [Next]_vars
  BY TypesOfTracker, TrackerGoesOn
<1>2. ASSUME NEW k \in Keys, NEW rec, Past(k, rec) PROVE PastNext(k, rec)
  BY <1>1, <1>2, OwnGrows
<1>3. ASSUME UNCHANGED held PROVE HeldPast'
  <2>1. \A k \in Keys : held.records[k].count > 0 => PastNext(k, held.records[k])
    BY <1>2 DEF PastInv, HeldPast
  <2>2. QED
    BY <1>3, <2>1 DEF HeldPast, Past, PastNext
<1>4. ASSUME UNCHANGED view PROVE ShownPast'
  <2>1. \A k \in Keys : \A i \in DOMAIN view[k] : PastNext(k, view[k][i])
    BY <1>2 DEF PastInv, ShownPast
  <2>2. QED
    BY <1>4, <2>1 DEF ShownPast, Past, PastNext
<1>5. ASSUME held' = Nothing PROVE HeldPast'
  BY <1>5 DEF HeldPast, Nothing, Absent
<1>6. ASSUME UNCHANGED vars PROVE ListedPast' /\ SnapsPast' /\ WirePast'
  BY <1>6 DEF PastInv, ListedPast, SnapsPast, WirePast, Past, vars, records
<1>7. CASE Receive
  <2>1. UNCHANGED <<listed, own, snap, opener, held>>
    BY <1>7 DEF Receive, Dispatch, records
  <2>2. ListedPast' /\ SnapsPast'
    BY <2>1 DEF PastInv, ListedPast, SnapsPast, Past
  <2>3. QED
    BY <1>3, <1>7, <2>1, <2>2, PastReceive DEF PastInv
<1>8. CASE Register \/ UNCHANGED allVars
  BY <1>3, <1>4, <1>6, <1>8 DEF Register, allVars, screen, PastInv
<1>9. CASE ReadRecords \/ ReadActive
  <2>1. UNCHANGED vars /\ UNCHANGED view
    BY <1>9 DEF ReadRecords, ReadActive
  <2>2. held'.records \in {held.records, listed}
    BY <1>9 DEF ReadRecords, ReadActive, ScreenTypeOK
  <2>3. \A k \in Keys : held'.records[k].count > 0 => Past(k, held'.records[k])
    BY <2>2 DEF PastInv, HeldPast, ListedPast
  <2>4. own' = own
    BY <2>1 DEF vars, records
  <2>5. HeldPast'
    BY <2>3, <2>4 DEF HeldPast, Past
  <2>6. QED
    BY <1>4, <1>6, <2>1, <2>5 DEF PastInv
<1>10. CASE SendInit
  <2>1. UNCHANGED vars /\ held' = Nothing /\ own' = own
    BY <1>10 DEF SendInit, vars, records
  <2>2. ASSUME NEW k \in Keys, NEW i \in DOMAIN view'[k]
        PROVE  held.records[k].count > 0 /\ view'[k][i] = held.records[k]
    BY <1>10, <2>2 DEF SendInit
  <2>3. \A k \in Keys : \A i \in DOMAIN view'[k] : Past(k, view'[k][i])
    BY <2>2 DEF PastInv, HeldPast
  <2>4. ShownPast'
    BY <2>1, <2>3 DEF ShownPast, Past
  <2>5. QED
    BY <1>5, <1>6, <2>1, <2>4 DEF PastInv
<1>11. CASE SendActiveInit \/ Disconnect
  BY <1>4, <1>5, <1>6, <1>11 DEF SendActiveInit, Disconnect, PastInv
<1>12. ASSUME NEW c \in Conns, TrackerStep(c) PROVE PastInv'
  <2>1. (Frps(c) \/ Opener(c) \/ Closer(c)) /\ UNCHANGED <<held, view>>
    BY <1>12 DEF TrackerStep, Opener, screen
  <2>2. QED
    BY <1>1, <1>3, <1>4, <2>1, PastTracker DEF PastInv
<1>13. QED
  BY <1>7, <1>8, <1>9, <1>10, <1>11, <1>12 DEF ScreenNext

\* However often it connects and whatever it misses, a dashboard shows no count
\* that is ahead of the tracker's and no location that no lookup found.
THEOREM ShownHappened == ScreenSpec => []ShownConnectionsHappened
<1> DEFINE Inv == ScreenTypeOK /\ PastInv
<1>1. ScreenInit => Inv
  <2> SUFFICES ASSUME ScreenInit PROVE PastInv
    BY ScreenTypeInit
  <2>1. Init /\ held = Nothing /\ \A k \in Keys : view[k] = <<>>
    BY DEF ScreenInit
  <2>2. /\ \A k \in Keys : listed[k] = Absent
        /\ \A c \in Conns : opener[c] = "idle"
        /\ wire = <<>>
    BY <2>1 DEF Init
  <2>3. 1..Len(wire) = {}
    BY <2>2
  <2>4. QED
    BY <2>1, <2>2, <2>3 DEF PastInv, ListedPast, HeldPast, ShownPast, SnapsPast, WirePast,
       Nothing, Absent
<1>2. Inv /\ [ScreenNext]_allVars => Inv'
  BY ScreenTypeStep, PastStep
<1>3. Inv => ShownConnectionsHappened
  BY DEF PastInv, ShownPast, Past, ShownConnectionsHappened
<1>4. QED
  BY <1>1, <1>2, <1>3, PTL DEF ScreenSpec

-----------------------------------------------------------------------------
(* A key that is recorded while the dashboard watches                      *)

\* The announcement that a key is new, before the hub gives it to the browser:
\* in the hands of the connection that recorded it, or in the channel.
Carriers(k) == {c \in Conns : KeyOf[c] = k /\ opener[c] = "emit" /\ snap[c].new}
OnWire(k) == {i \in 1..Len(wire) : wire[i].kind = "new_ip" /\ wire[i].key = k}

\* Nobody has heard of a key that is not recorded.
UnheardOf(k) ==
    /\ view[k] = <<>> /\ held.records[k].count = 0
    /\ Carriers(k) = {} /\ OnWire(k) = {}

OnceUnderWay(k) ==
    /\ \A c, d \in Carriers(k) : c = d
    /\ \A i, j \in OnWire(k) : i = j
    /\ Carriers(k) = {} \/ OnWire(k) = {}

\* The entry of a newcomer appears when its announcement does what it is for.
ShownOrUnderWay(k) ==
    /\ dash = "live" /\ Known(k)
    /\ Len(view[k]) = IF Carriers(k) = {} /\ OnWire(k) = {} THEN 1 ELSE 0

NewcomerInv ==
    \A k \in Keys :
        /\ ~Known(k) => UnheardOf(k)
        /\ OnceUnderWay(k)
        /\ k \in newcomers => ShownOrUnderWay(k)

LEMMA WireGrows ==
    ASSUME TypeOK, NEW e \in Event, wire' = Append(wire, e), NEW k
    PROVE  OnWire(k)' = OnWire(k) \cup
             IF e.kind = "new_ip" /\ e.key = k THEN {Len(wire) + 1} ELSE {}
<1>1. wire \in Seq(Event) /\ Len(wire) \in Nat
  BY DEF TypeOK, Event
<1>2. /\ Len(wire') = Len(wire) + 1 /\ wire'[Len(wire) + 1] = e
      /\ \A i \in 1..Len(wire) : wire'[i] = wire[i]
  BY <1>1
<1>3. 1..Len(wire') = (1..Len(wire)) \cup {Len(wire) + 1}
  BY <1>1, <1>2
<1>4. QED
  BY <1>2, <1>3 DEF OnWire

LEMMA WireShrinks ==
    ASSUME TypeOK, wire # <<>>, wire' = Tail(wire), NEW k
    PROVE  /\ \A i : i \in OnWire(k)' <=> i \in Nat \ {0} /\ i + 1 \in OnWire(k)
           /\ 1 \in OnWire(k) <=> Head(wire).kind = "new_ip" /\ Head(wire).key = k
<1>1. wire \in Seq(Event) /\ Len(wire) \in Nat
  BY DEF TypeOK, Event
<1>2. Len(wire) >= 1 /\ Head(wire) = wire[1]
  BY <1>1
<1>3. Len(wire') = Len(wire) - 1 /\ \A i \in 1..Len(wire') : wire'[i] = wire[i + 1]
  BY <1>1
<1>4. ASSUME NEW i PROVE i \in 1..Len(wire') <=> i \in Nat \ {0} /\ i + 1 \in 1..Len(wire)
  <2>1. CASE i \in Nat
    BY <1>1, <1>2, <1>3, <2>1
  <2>2. CASE i \notin Nat
    BY <1>1, <1>2, <1>3, <2>2
  <2>3. QED
    BY <2>1, <2>2
<1>5. 1 \in OnWire(k) <=> Head(wire).kind = "new_ip" /\ Head(wire).key = k
  BY <1>1, <1>2 DEF OnWire
<1>6. ASSUME NEW i PROVE i \in OnWire(k)' <=> i \in Nat \ {0} /\ i + 1 \in OnWire(k)
  BY <1>3, <1>4 DEF OnWire
<1>7. QED
  BY <1>5, <1>6

\* What the browser does with the event at the head of the channel.
LEMMA HeadIsShown ==
    ASSUME ScreenTypeOK, Receive, NEW k \in Keys
    PROVE  /\ 1 \in OnWire(k) /\ dash # "away" => Len(view'[k]) = Len(view[k]) + 1
           /\ 1 \notin OnWire(k) => Len(view'[k]) = Len(view[k])
<1> DEFINE e == Head(wire)
<1>1. TypeOK /\ wire # <<>> /\ wire' = Tail(wire)
  BY TypesOfTracker DEF Receive, Dispatch
<1>2. 1 \in OnWire(k) <=> e.kind = "new_ip" /\ e.key = k
  BY <1>1, WireShrinks
<1>3. e.kind \in {"new_ip", "update_ip"} => e.key \in Keys /\ e.rec \in Record
  BY <1>1, HeadOfWire DEF RecordEvents
<1>4. view \in [Keys -> Seq(Record)]
  BY DEF ScreenTypeOK
<1>5. \/ dash = "away" /\ view' = view
      \/ dash # "away" /\ AddNewIp(e)
      \/ UpdateIp(e)
      \/ e.kind # "new_ip" /\ view' = view
  BY DEF Receive, OpenInStore, CloseInStore
<1>6. CASE dash = "away" /\ view' = view
  BY <1>6
<1>7. CASE dash # "away" /\ AddNewIp(e)
  <2>1. /\ e.kind = "new_ip" /\ e.key \in Keys /\ e.rec \in Record
        /\ view' = [view EXCEPT ![e.key] = Append(view[e.key], e.rec)]
    BY <1>3, <1>7 DEF AddNewIp
  <2> HIDE DEF e
  <2>2. view'[k] = IF e.key = k THEN Append(view[k], e.rec) ELSE view[k]
    BY <1>4, <2>1
  <2>3. view[k] \in Seq(Record)
    BY <1>4
  <2>4. Len(Append(view[k], e.rec)) = Len(view[k]) + 1
    BY <2>1, <2>3
  <2>5. QED
    BY <1>2, <1>7, <2>1, <2>2, <2>4
<1>8. CASE UpdateIp(e)
  <2> DEFINE t == [i \in DOMAIN view[e.key] |-> [view[e.key][i] EXCEPT !.count = e.rec.count]]
  <2>1. e.kind = "update_ip" /\ e.key \in Keys /\ e.rec.count \in Nat /\ view' = [view EXCEPT ![e.key] = t]
    BY <1>3, <1>8 DEF UpdateIp, Record
  <2>2. view[e.key] \in Seq(Record)
    BY <1>4, <2>1
  <2>3. Len(t) = Len(view[e.key])
    BY <2>1, <2>2, CountedEntries
  <2> HIDE DEF e, t
  <2>4. view'[k] = IF e.key = k THEN t ELSE view[k]
    BY <1>4, <2>1
  <2>5. QED
    BY <1>2, <2>1, <2>3, <2>4
<1>9. CASE e.kind # "new_ip" /\ view' = view
  BY <1>2, <1>9
<1>10. QED
  BY <1>5, <1>6, <1>7, <1>8, <1>9

LEMMA NewcomerReceive ==
    ASSUME ScreenTypeOK, NewcomerInv, Receive
    PROVE  NewcomerInv'
<1>1. TypeOK /\ wire # <<>> /\ wire' = Tail(wire)
  BY TypesOfTracker DEF Receive, Dispatch
<1>2. UNCHANGED <<own, opener, snap, dash, held, newcomers>>
  BY DEF Receive, Dispatch, records
<1>3. SUFFICES ASSUME NEW k \in Keys
               PROVE  /\ ~Known(k)' => UnheardOf(k)'
                      /\ OnceUnderWay(k)'
                      /\ k \in newcomers' => ShownOrUnderWay(k)'
  BY DEF NewcomerInv
<1>4. /\ ~Known(k) => UnheardOf(k)
      /\ OnceUnderWay(k)
      /\ k \in newcomers => ShownOrUnderWay(k)
  BY DEF NewcomerInv
<1>5. Known(k)' = Known(k) /\ Carriers(k)' = Carriers(k)
  BY <1>2 DEF Known, Carriers
<1>6. \A i : i \in OnWire(k)' <=> i \in Nat \ {0} /\ i + 1 \in OnWire(k)
  BY <1>1, WireShrinks
<1>7. OnWire(k) \subseteq Nat \ {0} /\ OnWire(k)' \subseteq Nat \ {0}
  BY <1>6 DEF OnWire
<1>8. /\ 1 \in OnWire(k) /\ dash # "away" => Len(view'[k]) = Len(view[k]) + 1
      /\ 1 \notin OnWire(k) => Len(view'[k]) = Len(view[k])
  BY HeadIsShown
<1>9. view[k] \in Seq(Record) /\ view'[k] \in Seq(Record)
  BY ReceiveTypes DEF ScreenTypeOK
<1>10. ~Known(k)' => UnheardOf(k)'
  <2> SUFFICES ASSUME ~Known(k) PROVE UnheardOf(k)'
    BY <1>5
  <2>1. UnheardOf(k)
    BY <1>4
  <2>2. OnWire(k)' = {} /\ Len(view'[k]) = 0
    BY <1>6, <1>8, <1>9, <2>1 DEF UnheardOf
  <2>3. view'[k] = <<>>
    BY <1>9, <2>2
  <2>4. QED
    BY <1>2, <1>5, <2>1, <2>2, <2>3 DEF UnheardOf
<1>11. OnceUnderWay(k)'
  <2>1. ASSUME NEW i \in OnWire(k)', NEW j \in OnWire(k)' PROVE i = j
    <3>1. i \in Nat /\ j \in Nat /\ i + 1 \in OnWire(k) /\ j + 1 \in OnWire(k)
      BY <1>6, <2>1
    <3>2. i + 1 = j + 1
      BY <1>4, <3>1 DEF OnceUnderWay
    <3>3. QED
      BY <3>1, <3>2
  <2>2. OnWire(k) = {} => OnWire(k)' = {}
    BY <1>6
  <2>3. QED
    BY <1>4, <1>5, <2>1, <2>2 DEF OnceUnderWay
<1>12. ASSUME k \in newcomers' PROVE ShownOrUnderWay(k)'
  <2>1. ShownOrUnderWay(k) /\ dash = "live"
    BY <1>2, <1>4, <1>12 DEF ShownOrUnderWay
  <2>2. CASE 1 \in OnWire(k)
    <3>1. Carriers(k) = {} /\ \A i \in OnWire(k) : i = 1
      BY <1>4, <2>2 DEF OnceUnderWay
    <3>2. ASSUME NEW i \in OnWire(k)' PROVE FALSE
      <4>1. i \in Nat \ {0} /\ i + 1 = 1
        BY <1>6, <3>1, <3>2
      <4>2. QED
        BY <4>1
    <3>3. Len(view'[k]) = 1
      <4>1. OnWire(k) # {}
        BY <2>2
      <4>2. Len(view[k]) = 0
        BY <2>1, <4>1 DEF ShownOrUnderWay
      <4>3. QED
        BY <1>8, <2>1, <2>2, <4>2
    <3>4. QED
      BY <1>2, <1>5, <2>1, <3>1, <3>2, <3>3 DEF ShownOrUnderWay
  <2>3. CASE 1 \notin OnWire(k)
    <3>1. ASSUME NEW i \in OnWire(k) PROVE i - 1 \in OnWire(k)'
      <4>1. i \in Nat \ {0} /\ i # 1
        BY <1>7, <2>3, <3>1
      <4>2. i - 1 \in Nat \ {0} /\ (i - 1) + 1 = i
        BY <4>1
      <4>3. QED
        BY <1>6, <3>1, <4>2
    <3>2. OnWire(k)' = {} <=> OnWire(k) = {}
      BY <1>6, <3>1
    <3>3. Len(view'[k]) = Len(view[k])
      BY <1>8, <2>3
    <3>4. QED
      BY <1>2, <1>5, <2>1, <3>2, <3>3 DEF ShownOrUnderWay
  <2>4. QED
    BY <2>2, <2>3
<1>13. QED
  BY <1>10, <1>11, <1>12

LEMMA NewcomerQuiet ==
    ASSUME ScreenTypeOK, LagInv, NewcomerInv, UNCHANGED vars,
           \/ Register \/ ReadRecords \/ SendInit \/ ReadActive \/ SendActiveInit \/ Disconnect
           \/ UNCHANGED allVars
    PROVE  NewcomerInv'
<1>1. UNCHANGED <<own, listed, opener, snap, wire>>
  BY DEF vars, records
<1>2. ASSUME NEW k \in Keys
      PROVE  /\ Known(k)' = Known(k) /\ Carriers(k)' = Carriers(k) /\ OnWire(k)' = OnWire(k)
             /\ OnceUnderWay(k) /\ OnceUnderWay(k)'
  <2>1. OnceUnderWay(k)
    BY DEF NewcomerInv
  <2>2. Known(k)' = Known(k) /\ Carriers(k)' = Carriers(k) /\ OnWire(k)' = OnWire(k)
    BY <1>1 DEF Known, Carriers, OnWire
  <2>3. QED
    BY <2>1, <2>2 DEF OnceUnderWay
<1>3. ASSUME NEW k \in Keys, ~Known(k) PROVE UnheardOf(k)'
  <2>1. UnheardOf(k)
    BY <1>3 DEF NewcomerInv
  <2>2. listed[k].count = 0
    <3>1. listed[k].count \in Nat
      BY DEF LagInv, TypeOK, Record
    <3>2. QED
      BY <1>3, <3>1 DEF LagInv, OnlyOldRecordsLag
  <2>3. view'[k] = <<>>
    BY <1>1, <2>1 DEF UnheardOf, Register, ReadRecords, SendInit, ReadActive, SendActiveInit,
       Disconnect, allVars, screen
  <2>4. held'.records[k].count = 0
    <3>1. \/ held' = held \/ held' = Nothing
          \/ held' = [held EXCEPT !.records = listed] \/ held' = [held EXCEPT !.active = active]
      BY DEF Register, ReadRecords, SendInit, ReadActive, SendActiveInit, Disconnect, allVars,
         screen
    <3>2. held'.records \in {held.records, listed, [j \in Keys |-> Absent]}
      BY <3>1 DEF Nothing, ScreenTypeOK
    <3>3. QED
      BY <2>1, <2>2, <3>2 DEF UnheardOf, Absent
  <2>5. QED
    BY <1>2, <2>1, <2>3, <2>4 DEF UnheardOf
<1>4. ASSUME NEW k \in Keys, k \in newcomers' PROVE ShownOrUnderWay(k)'
  <2>1. \/ UNCHANGED allVars
        \/ newcomers' = newcomers /\ dash # "live"
        \/ newcomers' = {}
    BY DEF Register, ReadRecords, SendInit, ReadActive, SendActiveInit, Disconnect
  <2>2. UNCHANGED allVars /\ ShownOrUnderWay(k)
    BY <1>4, <2>1 DEF NewcomerInv, ShownOrUnderWay, allVars
  <2>3. UNCHANGED <<dash, view>>
    BY <2>2 DEF allVars, screen
  <2>4. QED
    BY <1>2, <2>2, <2>3 DEF ShownOrUnderWay
<1>5. QED
  BY <1>2, <1>3, <1>4 DEF NewcomerInv

\* A step of the tracker that neither records a connection nor announces one as new.
LEMMA NewcomerAside ==
    ASSUME NewcomerInv, UNCHANGED screen, UNCHANGED newcomers, UNCHANGED own,
           \A k \in Keys : Carriers(k)' = Carriers(k) /\ OnWire(k)' = OnWire(k)
    PROVE  NewcomerInv'
<1>1. UNCHANGED <<dash, held, view>>
  BY DEF screen
<1>2. \A k \in Keys : Known(k)' = Known(k)
  BY DEF Known
<1>3. QED
  BY <1>1, <1>2 DEF NewcomerInv, UnheardOf, OnceUnderWay, ShownOrUnderWay

LEMMA NewcomerLock ==
    ASSUME ScreenTypeOK, NewcomerInv, NEW c \in Conns, RecordLock(c), UNCHANGED screen,
           newcomers' = newcomers \cup Watched(c)
    PROVE  NewcomerInv'
<1> DEFINE key == KeyOf[c]
<1>1. TypeOK /\ UNCHANGED <<dash, held, view, wire>>
  BY TypesOfTracker DEF RecordLock, screen
<1>2. key \in Keys /\ KeyOf \in [Conns -> Keys]
  BY TrackerAssumption
<1>3. /\ opener[c] = "lookup" /\ opener' = [opener EXCEPT ![c] = "emit"]
      /\ snap' = [snap EXCEPT ![c] = [rec |-> own'[key], new |-> ~Known(key),
                                      active |-> c \in active]]
  BY <1>1, NewRecordIsPast DEF RecordLock
<1>4. /\ opener'[c] = "emit" /\ (snap'[c].new <=> ~Known(key))
      /\ \A d \in Conns \ {c} : opener'[d] = opener[d] /\ snap'[d] = snap[d]
  BY <1>1, <1>3 DEF TypeOK
<1>5. Known(key)' /\ \A k \in Keys \ {key} : Known(k)' = Known(k)
  <2> DEFINE r == [count |-> own[key].count + 1, placed |-> own[key].placed \/ c \in Finds]
  <2>1. own' = [own EXCEPT ![key] = r] /\ own \in [Keys -> Record]
    BY <1>1 DEF RecordLock, TypeOK
  <2>2. r.count = own[key].count + 1 /\ own[key].count \in Nat
    BY <1>1, <1>2 DEF TypeOK, Record
  <2> HIDE DEF r, key
  <2>3. own'[key] = r /\ \A k \in Keys \ {key} : own'[k] = own[k]
    BY <1>2, <2>1
  <2>4. QED
    BY <2>2, <2>3 DEF Known
<1>6. \A k \in Keys : OnWire(k)' = OnWire(k)
  BY <1>1 DEF OnWire
<1>7. \A k \in Keys : c \notin Carriers(k)
  BY <1>3 DEF Carriers
<1>8. \A k \in Keys : Carriers(k)' = Carriers(k) \cup
                        IF k = key /\ ~Known(key) THEN {c} ELSE {}
  BY <1>4, <1>7 DEF Carriers
<1>9. \A k \in Keys : /\ k \in newcomers' <=> \/ k \in newcomers
                                              \/ k = key /\ dash = "live" /\ ~Known(key)
  BY DEF Watched
<1>10. ASSUME NEW k \in Keys
       PROVE  /\ ~Known(k)' => UnheardOf(k)'
              /\ OnceUnderWay(k)'
              /\ k \in newcomers' => ShownOrUnderWay(k)'
  <2>1. /\ ~Known(k) => UnheardOf(k)
        /\ OnceUnderWay(k)
        /\ k \in newcomers => ShownOrUnderWay(k)
    BY DEF NewcomerInv
  <2> HIDE DEF key
  <2>2. CASE k # key \/ Known(key)
    <3>1. Carriers(k)' = Carriers(k) /\ OnWire(k)' = OnWire(k)
      BY <1>6, <1>8, <2>2
    <3>2. Known(k)' <=> Known(k)
      BY <1>5, <2>2
    <3>3. k \in newcomers' <=> k \in newcomers
      BY <1>9, <2>2
    <3>4. QED
      BY <1>1, <2>1, <3>1, <3>2, <3>3 DEF UnheardOf, OnceUnderWay, ShownOrUnderWay
  <2>3. CASE k = key /\ ~Known(key)
    <3>1. UnheardOf(k)
      BY <2>1, <2>3
    <3>2. Carriers(k)' = {c} /\ OnWire(k)' = {} /\ view'[k] = <<>> /\ Known(k)'
      BY <1>1, <1>5, <1>6, <1>8, <2>3, <3>1 DEF UnheardOf
    <3>3. k \in newcomers' => dash' = "live"
      BY <1>1, <1>9, <2>1, <2>3 DEF ShownOrUnderWay
    <3>4. Carriers(k)' # {} /\ Len(view'[k]) = 0
      BY <3>2
    <3>5. QED
      BY <3>2, <3>3, <3>4 DEF OnceUnderWay, ShownOrUnderWay
  <2>4. QED
    BY <2>2, <2>3
<1>11. QED
  BY <1>10 DEF NewcomerInv

LEMMA NewcomerEmit ==
    ASSUME ScreenTypeOK, NewcomerInv, NEW c \in Conns, EmitRecord(c), UNCHANGED screen,
           UNCHANGED newcomers
    PROVE  NewcomerInv'
<1> DEFINE e == [kind |-> IF snap[c].new THEN "new_ip" ELSE "update_ip",
                 key |-> KeyOf[c], rec |-> snap[c].rec]
<1>1. TypeOK /\ UNCHANGED <<dash, held, view, own>>
  BY TypesOfTracker DEF EmitRecord, screen, records
<1>2. /\ opener[c] = "emit" /\ wire' = Append(wire, e)
      /\ opener'[c] # "emit"
      /\ \A d \in Conns \ {c} : opener'[d] = opener[d] /\ snap'[d] = snap[d]
  BY <1>1 DEF EmitRecord, Emit, TypeOK
<1>3. e \in Event
  BY <1>1, TrackerAssumption DEF TypeOK, Event, RecordEvents
<1>4. (e.kind = "new_ip" <=> snap[c].new) /\ e.key = KeyOf[c]
  OBVIOUS
<1> HIDE DEF e
<1>5. \A k \in Keys : OnWire(k)' = OnWire(k) \cup
                        IF e.kind = "new_ip" /\ e.key = k THEN {Len(wire) + 1} ELSE {}
  BY <1>1, <1>2, <1>3, WireGrows
<1>6. \A k \in Keys : /\ Carriers(k)' = Carriers(k) \ {c}
                      /\ c \in Carriers(k) <=> KeyOf[c] = k /\ snap[c].new
  BY <1>2 DEF Carriers
<1>7. ASSUME NEW k \in Keys
       PROVE  /\ ~Known(k)' => UnheardOf(k)'
              /\ OnceUnderWay(k)'
              /\ k \in newcomers' => ShownOrUnderWay(k)'
  <2>1. /\ ~Known(k) => UnheardOf(k)
        /\ OnceUnderWay(k)
        /\ k \in newcomers => ShownOrUnderWay(k)
    BY DEF NewcomerInv
  <2>2. Known(k)' = Known(k)
    BY <1>1 DEF Known
  <2>3. CASE c \notin Carriers(k)
    <3>1. Carriers(k)' = Carriers(k) /\ OnWire(k)' = OnWire(k)
      BY <1>4, <1>5, <1>6, <2>3, ZenonT(60)
    <3>2. QED
      BY <1>1, <2>1, <2>2, <3>1 DEF UnheardOf, OnceUnderWay, ShownOrUnderWay
  <2>4. CASE c \in Carriers(k)
    <3>1. Carriers(k) = {c} /\ OnWire(k) = {} /\ Known(k)
      BY <2>1, <2>4 DEF OnceUnderWay, UnheardOf
    <3>2. Carriers(k)' = {} /\ OnWire(k)' = {Len(wire) + 1}
      BY <1>4, <1>5, <1>6, <2>4, <3>1
    <3>3. Carriers(k) # {} /\ OnWire(k)' # {}
      BY <3>1, <3>2
    <3>4. QED
      BY <1>1, <2>1, <2>2, <3>1, <3>2, <3>3 DEF OnceUnderWay, ShownOrUnderWay
  <2>5. QED
    BY <2>3, <2>4
<1>8. QED
  BY <1>7 DEF NewcomerInv

LEMMA NewcomerTracker ==
    ASSUME ScreenTypeOK, ActiveInv, NewcomerInv, NEW c \in Conns, TrackerStep(c)
    PROVE  NewcomerInv'
<1>1. TypeOK /\ UNCHANGED screen
  BY TypesOfTracker DEF TrackerStep
<1>2. opener \in [Conns -> {"idle", "open", "lookup", "emit", "announce", "done"}]
  BY <1>1 DEF TypeOK
<1>3. CASE RecordLock(c) /\ newcomers' = newcomers \cup Watched(c)
  BY <1>1, <1>3, NewcomerLock
<1>4. CASE EmitRecord(c) /\ UNCHANGED newcomers
  BY <1>1, <1>4, NewcomerEmit
<1>5. ASSUME UNCHANGED <<newcomers, own, snap>>,
             \A d \in Conns : opener'[d] = "emit" <=> opener[d] = "emit",
             \/ UNCHANGED wire
             \/ \E e \in ConnEvents : wire' = Append(wire, e)
      PROVE  NewcomerInv'
  <2>1. \A k \in Keys : Carriers(k)' = Carriers(k)
    BY <1>5 DEF Carriers
  <2>2. ASSUME NEW k \in Keys PROVE OnWire(k)' = OnWire(k)
    <3>1. CASE UNCHANGED wire
      BY <3>1 DEF OnWire
    <3>2. ASSUME NEW e \in ConnEvents, wire' = Append(wire, e) PROVE OnWire(k)' = OnWire(k)
      <4>1. e \in Event /\ e.kind # "new_ip"
        BY DEF Event, ConnEvents
      <4>2. QED
        BY <1>1, <3>2, <4>1, WireGrows
    <3>3. QED
      BY <1>5, <3>1, <3>2
  <2>3. QED
    BY <1>1, <1>5, <2>1, <2>2, NewcomerAside
<1>6. CASE (Frps(c) \/ OpenConnection(c) \/ CloseLock(c)) /\ UNCHANGED newcomers
  <2>1. UNCHANGED <<newcomers, own, snap, wire>>
    BY <1>6 DEF Frps, NewUserConn, CloseUserConn, OpenConnection, CloseLock, records
  <2>2. opener' = opener \/ /\ opener[c] # "emit"
                            /\ \E x \in {"open", "lookup"} : opener' = [opener EXCEPT ![c] = x]
    BY <1>6 DEF Frps, NewUserConn, CloseUserConn, OpenConnection, CloseLock, ActiveInv,
       AnswersFollowTracking
  <2>3. \A d \in Conns : opener'[d] = "emit" <=> opener[d] = "emit"
    <3>1. ASSUME NEW x \in {"open", "lookup"}, opener[c] # "emit",
                 opener' = [opener EXCEPT ![c] = x]
          PROVE  \A d \in Conns : opener'[d] = "emit" <=> opener[d] = "emit"
      BY <1>2, <3>1
    <3>2. QED
      BY <2>2, <3>1
  <2>4. QED
    BY <1>5, <2>1, <2>3
<1>7. CASE EmitOpened(c) /\ UNCHANGED newcomers
  <2>1. [kind |-> "connection_opened", conn |-> c] \in ConnEvents
    BY DEF ConnEvents
  <2>2. UNCHANGED <<newcomers, own, snap>> /\ \E e \in ConnEvents : wire' = Append(wire, e)
    BY <1>7, <2>1 DEF EmitOpened, Emit, records
  <2>3. \A d \in Conns : opener'[d] = "emit" <=> opener[d] = "emit"
    BY <1>2, <1>7 DEF EmitOpened
  <2>4. QED
    BY <1>5, <2>2, <2>3
<1>8. CASE EmitClosed(c) /\ UNCHANGED newcomers
  <2>1. [kind |-> "connection_closed", conn |-> c] \in ConnEvents
    BY DEF ConnEvents
  <2>2. UNCHANGED <<newcomers, own, snap, opener>> /\ \E e \in ConnEvents : wire' = Append(wire, e)
    BY <1>8, <2>1 DEF EmitClosed, Emit, records
  <2>3. QED
    BY <1>5, <2>2
<1>9. QED
  BY <1>1, <1>3, <1>4, <1>6, <1>7, <1>8 DEF TrackerStep, Closer

LEMMA NewcomerStep ==
    ASSUME ScreenTypeOK, ActiveInv, LagInv, NewcomerInv, [ScreenNext]_allVars
    PROVE  NewcomerInv'
<1>1. CASE Receive
  BY <1>1, NewcomerReceive
<1>2. ASSUME NEW c \in Conns, TrackerStep(c) PROVE NewcomerInv'
  BY <1>2, NewcomerTracker
<1>3. CASE \/ Register \/ ReadRecords \/ SendInit \/ ReadActive \/ SendActiveInit \/ Disconnect
           \/ UNCHANGED allVars
  <2>1. UNCHANGED vars
    BY <1>3 DEF Register, ReadRecords, SendInit, ReadActive, SendActiveInit, Disconnect, allVars
  <2>2. QED
    BY <1>3, <2>1, NewcomerQuiet
<1>4. QED
  BY <1>1, <1>2, <1>3 DEF ScreenNext

\* A dashboard that is fully greeted when a key is first recorded, and stays,
\* shows the key exactly once when everything has settled.
THEOREM NewcomersAreShownOnce == ScreenSpec => []NewcomersShownOnce
<1> DEFINE Inv == ScreenTypeOK /\ ActiveInv /\ LagInv /\ NewcomerInv
<1>1. ScreenInit => Inv
  <2> SUFFICES ASSUME ScreenInit PROVE NewcomerInv
    BY ScreenTypeInit, ActiveInit, LagInit DEF ScreenInit
  <2>1. Init /\ held = Nothing /\ newcomers = {} /\ \A k \in Keys : view[k] = <<>>
    BY DEF ScreenInit
  <2>2. (\A c \in Conns : opener[c] = "idle") /\ wire = <<>>
    BY <2>1 DEF Init
  <2>3. \A k \in Keys : Carriers(k) = {} /\ OnWire(k) = {}
    BY <2>2 DEF Carriers, OnWire
  <2>4. \A k \in Keys : held.records[k].count = 0
    BY <2>1 DEF Nothing, Absent
  <2>5. QED
    BY <2>1, <2>3, <2>4 DEF NewcomerInv, UnheardOf, OnceUnderWay
<1>2. Inv /\ [ScreenNext]_allVars => Inv'
  BY ScreenTypeStep, TrackerGoesOn, ActiveStep, LagStep, NewcomerStep
<1>3. Inv => NewcomersShownOnce
  <2> SUFFICES ASSUME Inv, Settled, NEW k \in newcomers PROVE Len(view[k]) = 1
    BY DEF NewcomersShownOnce
  <2>1. k \in Keys
    BY DEF ScreenTypeOK
  <2>2. Carriers(k) = {} /\ OnWire(k) = {}
    BY DEF Settled, Carriers, OnWire
  <2>3. QED
    BY <2>1, <2>2 DEF NewcomerInv, ShownOrUnderWay
<1>4. QED
  BY <1>1, <1>2, <1>3, PTL DEF ScreenSpec

=============================================================================
