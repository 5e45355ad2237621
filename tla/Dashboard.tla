----------------------------- MODULE Dashboard ------------------------------
(***************************************************************************)
(* A browser at the other end of the hub: the greeting it gets             *)
(* (internal/handlers/ws.go), the store the events end up in               *)
(* (stores/connectionStore.ts) and the hook that connects again            *)
(* (hooks/useWebSocket.ts), composed with the tracker that announces the   *)
(* events.  Greeting and events meet in the order in which they are put    *)
(* into the client's channel; Hub shows that the browser gets them in that *)
(* order, so they reach the store here as soon as they are put there.      *)
(***************************************************************************)
EXTENDS Tracker

VARIABLES
    dash,      \* how far the greeting is
    held,      \* the snapshot the handler has read but not sent
    view,      \* allIpData: the entries of each key
    viewActive,\* activeConnections
    newcomers, \* history: the keys first recorded since the greeting ended
    calm       \* history: nothing happened since the dashboard registered

screen == <<dash, held, view, viewActive>>
allVars == <<vars, screen, newcomers, calm>>

Nothing == [records |-> [k \in Keys |-> Absent], active |-> {}]

\* A snapshot is held only between reading it and sending it.
ScreenTypeOK ==
    /\ TypeOK
    /\ dash \in {"away", "records", "init", "active", "active_init", "live"}
    /\ held \in [records : [Keys -> Record], active : SUBSET Conns]
    /\ view \in [Keys -> Seq(Record)]
    /\ viewActive \subseteq Conns
    /\ newcomers \subseteq Keys
    /\ calm \in BOOLEAN
    /\ held = Nothing \/ dash \in {"init", "active_init"}

ScreenInit ==
    /\ Init
    /\ dash = "away" /\ held = Nothing
    /\ view = [k \in Keys |-> <<>>] /\ viewActive = {}
    /\ newcomers = {}
    /\ calm = FALSE

Settled ==
    /\ wire = <<>>
    /\ \A c \in Conns : opener[c] \in {"idle", "done"} /\ closer[c] \in {"idle", "done"}

-----------------------------------------------------------------------------
(* WSHandler.Handle: it registers the client first.  After a reconnection  *)
(* the store still holds what it held.                                     *)

Register ==
    /\ dash = "away"
    /\ dash' = "records"
    /\ calm' = Settled
    /\ UNCHANGED <<vars, held, view, viewActive, newcomers>>

ReadRecords ==
    /\ dash = "records"
    /\ dash' = "init"
    /\ held' = [held EXCEPT !.records = listed]
    /\ UNCHANGED <<vars, view, viewActive, newcomers, calm>>

\* Bug: setInit adds the snapshot to what the store holds.
SendInitOnTop ==
    /\ dash = "init"
    /\ dash' = "active"
    /\ view' = [k \in Keys |-> view[k] \o
                 IF held.records[k].count > 0 THEN <<held.records[k]>> ELSE <<>>]
    /\ held' = Nothing
    /\ UNCHANGED <<vars, viewActive, newcomers, calm>>

\* setInit replaces the entries.
SendInit ==
    /\ dash = "init"
    /\ dash' = "active"
    /\ view' = [k \in Keys |-> IF held.records[k].count > 0 THEN <<held.records[k]>> ELSE <<>>]
    /\ held' = Nothing
    /\ UNCHANGED <<vars, viewActive, newcomers, calm>>

ReadActive ==
    /\ dash = "active"
    /\ dash' = "active_init"
    /\ held' = [held EXCEPT !.active = active]
    /\ UNCHANGED <<vars, view, viewActive, newcomers, calm>>

\* setActiveInit replaces the connections.
SendActiveInit ==
    /\ dash = "active_init"
    /\ dash' = "live"
    /\ viewActive' = held.active
    /\ held' = Nothing
    /\ UNCHANGED <<vars, view, newcomers, calm>>

\* The connection ends; the hook connects again after three seconds.
Disconnect ==
    /\ dash # "away"
    /\ dash' = "away"
    /\ held' = Nothing
    /\ newcomers' = {} /\ calm' = FALSE
    /\ UNCHANGED <<vars, view, viewActive>>

-----------------------------------------------------------------------------
(* The store                                                               *)

AddNewIp(e) ==
    /\ e.kind = "new_ip"
    /\ view' = [view EXCEPT ![e.key] = Append(@, e.rec)]
    /\ UNCHANGED viewActive

\* Bug: an update of a key the store does not have adds it.
UpdateOrAdd(e) ==
    /\ e.kind = "update_ip"
    /\ view' = [view EXCEPT ![e.key] =
                 IF @ = <<>> THEN <<e.rec>>
                 ELSE [i \in DOMAIN @ |-> [@[i] EXCEPT !.count = e.rec.count]]]
    /\ UNCHANGED viewActive

\* Bug: the store counts the connections itself.
UpdateByCounting(e) ==
    /\ e.kind = "update_ip"
    /\ view' = [view EXCEPT ![e.key] = [i \in DOMAIN @ |-> [@[i] EXCEPT !.count = @ + 1]]]
    /\ UNCHANGED viewActive

\* The count goes into every entry of the key; a location does not.
UpdateIp(e) ==
    /\ e.kind = "update_ip"
    /\ view' = [view EXCEPT ![e.key] = [i \in DOMAIN @ |-> [@[i] EXCEPT !.count = e.rec.count]]]
    /\ UNCHANGED viewActive

OpenInStore(e) ==
    /\ e.kind = "connection_opened"
    /\ viewActive' = viewActive \cup {e.conn}
    /\ UNCHANGED view

CloseInStore(e) ==
    /\ e.kind = "connection_closed"
    /\ viewActive' = viewActive \ {e.conn}
    /\ UNCHANGED view

\* Run hands the event to the browser, if one is registered.
Receive ==
    /\ Dispatch
    /\ LET e == Head(wire)
       IN \/ dash = "away" /\ UNCHANGED <<view, viewActive>>
          \/ dash # "away" /\ (AddNewIp(e) \/ UpdateIp(e) \/ OpenInStore(e) \/ CloseInStore(e))
    /\ UNCHANGED <<dash, held, newcomers, calm>>

-----------------------------------------------------------------------------
Watched(c) == IF dash = "live" /\ ~Known(KeyOf[c]) THEN {KeyOf[c]} ELSE {}

TrackerStep(c) ==
    /\ \/ RecordLock(c) /\ newcomers' = newcomers \cup Watched(c)
       \/ /\ OpenConnection(c) \/ EmitRecord(c) \/ EmitOpened(c) \/ Closer(c) \/ Frps(c)
          /\ UNCHANGED newcomers
    /\ calm' = FALSE
    /\ UNCHANGED screen

ScreenNext ==
    \/ Receive
    \/ Register \/ ReadRecords \/ SendInit \/ ReadActive \/ SendActiveInit \/ Disconnect
    \/ \E c \in Conns : TrackerStep(c)

ScreenSpec == ScreenInit /\ [][ScreenNext]_allVars

-----------------------------------------------------------------------------
(* What the dashboard shows                                                *)

\* A dashboard that is fully greeted when a key is first recorded, and stays,
\* shows the key exactly once when everything has settled.
NewcomersShownOnce == Settled => \A k \in newcomers : Len(view[k]) = 1

\* Whenever it connected and whatever it missed or was sent twice, a dashboard
\* never shows a connection that did not happen: no count ahead of the
\* tracker's, no location that no lookup found.
ShownConnectionsHappened ==
    \A k \in Keys : \A i \in DOMAIN view[k] :
        /\ view[k][i].count \in 1..own[k].count
        /\ view[k][i].placed => own[k].placed

\* Reconnecting in a quiet moment repairs the store: whatever it showed before,
\* it then shows what the tracker lists, once, and the active connections.
CalmGreetingHeals ==
    dash = "live" /\ calm =>
        /\ \A k \in Keys : view[k] = IF Known(k) THEN <<listed[k]>> ELSE <<>>
        /\ viewActive = active

-----------------------------------------------------------------------------
(* What the documentation says and the code does not do                    *)

\* README.md:10: changes of the active connections are pushed to the browser.
\* So one that was greeted before the first of them shows, once everything has
\* settled, what the tracker holds.
ActiveChangesArePushed == dash = "live" /\ Settled => viewActive = active

=============================================================================
