-------------------------------- MODULE Hub ---------------------------------
(***************************************************************************)
(* The WebSocket broadcast centre of FRP_PV (internal/ws/hub.go) with the  *)
(* handler that feeds it connections (internal/handlers/ws.go).  The event *)
(* loop Run, the callers of Emit, and for each connection the handler, the *)
(* write pump and the read pump are goroutines that meet in channels; the  *)
(* browser may stop reading or go away at any moment.                      *)
(*                                                                         *)
(* A broadcast is its number, counted from 1 in the order of the channel   *)
(* broadcast, so that channel is emitted - sent messages long.  The        *)
(* messages of the handler's greeting (init, blocked_init, ...) are all 0. *)
(***************************************************************************)
EXTENDS Integers, Sequences, FiniteSets

CONSTANTS
    Clients,      \* WebSocket connections; a browser reconnects as another one
    MaxMessages,  \* bound: how many messages are emitted
    QueueSize,    \* capacity of the channel broadcast (256 in the code)
    BufferSize,   \* capacity of a client's channel send (256 in the code)
    Greetings     \* messages the handler sends first (6 in the code)

ASSUME HubAssumption ==
    /\ MaxMessages \in Nat
    /\ {QueueSize, BufferSize, Greetings} \subseteq Nat \ {0}

VARIABLES
    emitted,  \* how many messages entered the channel broadcast
    sent,     \* how many of them Run has taken out
    todo,     \* the clients Run has yet to hand message number sent
    clients,  \* Hub.clients
    shut,     \* the clients whose channel send was closed
    send,     \* what their channels hold
    handler,  \* where WSHandler.Handle is
    greeted,  \* how many greetings it has tried
    conn,     \* "open", "broken" (the browser is gone) or "closed" (by us)
    writer,   \* where WritePump is
    reader,   \* where ReadPump is
    read      \* the last broadcast WritePump took; at first, what Register skips

vars == <<emitted, sent, todo, clients, shut, send, handler, greeted, conn, writer, reader, read>>

TypeOK ==
    /\ emitted \in Nat /\ sent \in 0..emitted
    /\ todo \subseteq Clients /\ clients \subseteq Clients /\ shut \subseteq Clients
    /\ send \in [Clients -> Seq(Nat)]
    /\ handler \in [Clients -> {"away", "register", "greet", "done", "panicked"}]
    /\ greeted \in [Clients -> 0..Greetings]
    /\ conn \in [Clients -> {"open", "broken", "closed"}]
    /\ writer \in [Clients -> {"off", "run", "write", "done"}]
    /\ reader \in [Clients -> {"off", "run", "leave", "done"}]
    /\ read \in [Clients -> Nat]

Init ==
    /\ emitted = 0 /\ sent = 0
    /\ todo = {} /\ clients = {} /\ shut = {}
    /\ send = [c \in Clients |-> <<>>]
    /\ handler = [c \in Clients |-> "away"]
    /\ greeted = [c \in Clients |-> 0]
    /\ conn = [c \in Clients |-> "open"]
    /\ writer = [c \in Clients |-> "off"]
    /\ reader = [c \in Clients |-> "off"]
    /\ read = [c \in Clients |-> 0]

HasRoom(c) == Len(send[c]) < BufferSize

\* Emit blocks while the channel is full.
Emit ==
    /\ emitted < MaxMessages
    /\ emitted - sent < QueueSize
    /\ emitted' = emitted + 1
    /\ UNCHANGED <<sent, todo, clients, shut, send, handler, greeted, conn, writer, reader, read>>

-----------------------------------------------------------------------------
(* Hub.Run: one case of its select at a time                               *)

\* Bug: the read pump already runs while the handler greets.
RegisterAndRead(c) ==
    /\ todo = {}
    /\ handler[c] = "register"
    /\ clients' = clients \cup {c}
    /\ handler' = [handler EXCEPT ![c] = "greet"]
    /\ read' = [read EXCEPT ![c] = sent]
    /\ reader' = [reader EXCEPT ![c] = "run"]
    /\ UNCHANGED <<emitted, sent, todo, shut, send, greeted, conn, writer>>

RunRegister(c) ==
    /\ todo = {}
    /\ handler[c] = "register"
    /\ clients' = clients \cup {c}
    /\ handler' = [handler EXCEPT ![c] = "greet"]
    /\ read' = [read EXCEPT ![c] = sent]
    /\ UNCHANGED <<emitted, sent, todo, shut, send, greeted, conn, writer, reader>>

\* Bug: unregister forgets the channel and the connection.
UnregisterOnly(c) ==
    /\ todo = {}
    /\ reader[c] = "leave"
    /\ clients' = clients \ {c}
    /\ reader' = [reader EXCEPT ![c] = "done"]
    /\ UNCHANGED <<emitted, sent, todo, shut, send, handler, greeted, conn, writer, read>>

\* The read pump closes the connection as soon as its unregister is received.
RunUnregister(c) ==
    /\ todo = {}
    /\ reader[c] = "leave"
    /\ clients' = clients \ {c}
    /\ shut' = IF c \in clients THEN shut \cup {c} ELSE shut
    /\ reader' = [reader EXCEPT ![c] = "done"]
    /\ conn' = [conn EXCEPT ![c] = "closed"]
    /\ UNCHANGED <<emitted, sent, todo, send, handler, greeted, writer, read>>

RunTake ==
    /\ todo = {}
    /\ sent < emitted
    /\ sent' = sent + 1
    /\ todo' = clients
    /\ UNCHANGED <<emitted, clients, shut, send, handler, greeted, conn, writer, reader, read>>

RunSend(c) ==
    /\ c \in todo
    /\ HasRoom(c)
    /\ send' = [send EXCEPT ![c] = Append(@, sent)]
    /\ todo' = todo \ {c}
    /\ UNCHANGED <<emitted, sent, clients, shut, handler, greeted, conn, writer, reader, read>>

\* Bug: the channel is closed but its client stays in the map.
DropAndKeep(c) ==
    /\ c \in todo
    /\ ~HasRoom(c)
    /\ shut' = shut \cup {c}
    /\ todo' = todo \ {c}
    /\ UNCHANGED <<emitted, sent, clients, send, handler, greeted, conn, writer, reader, read>>

\* Bug: like SendJSON, Run loses the message and keeps the client.
SkipMessage(c) ==
    /\ c \in todo
    /\ ~HasRoom(c)
    /\ todo' = todo \ {c}
    /\ UNCHANGED <<emitted, sent, clients, shut, send, handler, greeted, conn, writer, reader, read>>

\* Bug: Run waits until the client has room again.
WaitForRoom(c) == c \in todo /\ ~HasRoom(c) /\ UNCHANGED vars

\* A client that cannot keep up is dropped, the others are not held up.
RunDrop(c) ==
    /\ c \in todo
    /\ ~HasRoom(c)
    /\ shut' = shut \cup {c}
    /\ clients' = clients \ {c}
    /\ todo' = todo \ {c}
    /\ UNCHANGED <<emitted, sent, send, handler, greeted, conn, writer, reader, read>>

-----------------------------------------------------------------------------
(* WSHandler.Handle                                                        *)

Upgrade(c) ==
    /\ handler[c] = "away"
    /\ handler' = [handler EXCEPT ![c] = "register"]
    /\ UNCHANGED <<emitted, sent, todo, clients, shut, send, greeted, conn, writer, reader, read>>

\* SendJSON: a full channel loses the greeting, a closed one panics; gin
\* recovers, and nobody closes the connection.
Greet(c) ==
    /\ handler[c] = "greet"
    /\ greeted[c] < Greetings
    /\ IF c \in shut
       THEN handler' = [handler EXCEPT ![c] = "panicked"] /\ UNCHANGED <<send, greeted>>
       ELSE /\ send' = IF HasRoom(c) THEN [send EXCEPT ![c] = Append(@, 0)] ELSE send
            /\ greeted' = [greeted EXCEPT ![c] = @ + 1]
            /\ UNCHANGED handler
    /\ UNCHANGED <<emitted, sent, todo, clients, shut, conn, writer, reader, read>>

StartPumps(c) ==
    /\ handler[c] = "greet"
    /\ greeted[c] = Greetings
    /\ handler' = [handler EXCEPT ![c] = "done"]
    /\ writer' = [writer EXCEPT ![c] = "run"]
    /\ reader' = [reader EXCEPT ![c] = "run"]
    /\ UNCHANGED <<emitted, sent, todo, clients, shut, send, greeted, conn, read>>

-----------------------------------------------------------------------------
(* WritePump and ReadPump                                                  *)

Take(c) ==
    /\ writer[c] = "run"
    /\ send[c] # <<>>
    /\ send' = [send EXCEPT ![c] = Tail(@)]
    /\ read' = [read EXCEPT ![c] = IF Head(send[c]) > 0 THEN Head(send[c]) ELSE @]
    /\ writer' = [writer EXCEPT ![c] = "write"]
    /\ UNCHANGED <<emitted, sent, todo, clients, shut, handler, greeted, conn, reader>>

\* There is no write deadline: while a browser does not read, this waits.
Written(c) ==
    /\ writer[c] = "write"
    /\ conn[c] # "closed"
    /\ writer' = [writer EXCEPT ![c] = "run"]
    /\ UNCHANGED <<emitted, sent, todo, clients, shut, send, handler, greeted, conn, reader, read>>

\* The write fails, or the channel is closed and empty.
WriterEnd(c) ==
    /\ \/ writer[c] = "write" /\ conn[c] # "open"
       \/ writer[c] = "run" /\ c \in shut /\ send[c] = <<>>
    /\ writer' = [writer EXCEPT ![c] = "done"]
    /\ conn' = [conn EXCEPT ![c] = "closed"]
    /\ UNCHANGED <<emitted, sent, todo, clients, shut, send, handler, greeted, reader, read>>

\* Bug: the read pump ends without unregistering.
ReaderVanishes(c) ==
    /\ reader[c] = "run"
    /\ conn[c] # "open"
    /\ reader' = [reader EXCEPT ![c] = "done"]
    /\ UNCHANGED <<emitted, sent, todo, clients, shut, send, handler, greeted, conn, writer, read>>

ReaderEnd(c) ==
    /\ reader[c] = "run"
    /\ conn[c] # "open"
    /\ reader' = [reader EXCEPT ![c] = "leave"]
    /\ UNCHANGED <<emitted, sent, todo, clients, shut, send, handler, greeted, conn, writer, read>>

\* The browser closes the page or loses the network.
Break(c) ==
    /\ handler[c] # "away"
    /\ conn[c] = "open"
    /\ conn' = [conn EXCEPT ![c] = "broken"]
    /\ UNCHANGED <<emitted, sent, todo, clients, shut, send, handler, greeted, writer, reader, read>>

-----------------------------------------------------------------------------
Run == RunTake \/ \E c \in Clients : RunRegister(c) \/ RunUnregister(c) \/ RunSend(c) \/ RunDrop(c)
Handle(c) == Greet(c) \/ StartPumps(c)

Next ==
    \/ Emit
    \/ Run
    \/ \E c \in Clients : \/ Upgrade(c) \/ Handle(c) \/ Break(c)
                          \/ Take(c) \/ Written(c) \/ WriterEnd(c) \/ ReaderEnd(c)

Spec == Init /\ [][Next]_vars

\* Goroutines run on unless they wait in a channel or in a write that the
\* browser does not read; nothing is assumed of browsers.
Fairness ==
    /\ WF_vars(Run)
    /\ \A c \in Clients : WF_vars(Handle(c)) /\ WF_vars(Take(c))
                       /\ WF_vars(WriterEnd(c)) /\ WF_vars(ReaderEnd(c))

FairSpec == Spec /\ Fairness

-----------------------------------------------------------------------------
(* What the hub promises                                                   *)

\* Run never sends to a closed channel and never closes one twice, which would
\* end the process: a client in the map, or still to be served in this round,
\* has an open channel.
ServedChannelsAreOpen == (clients \cup todo) \cap shut = {}

\* The handler panics on a closed channel only if its client fell behind before
\* the pumps started; a browser that goes away in that time does no harm.
OnlyOverflowPanics == \A c \in Clients : handler[c] = "panicked" => ~HasRoom(c)

\* Broadcasts reach a connection gap-free and in order, see Feed.
Dashboards == INSTANCE Feed WITH joined <- {c \in Clients : handler[c] \notin {"away", "register"}}
FeedSpec == Dashboards!Spec

\* No browser, however slow, holds up Emit and with it the frp plugin's answer.
EmitIsNeverStuck == emitted - sent = QueueSize ~> emitted - sent < QueueSize

\* A browser that is gone leaves the hub for good, whatever else is under way.
GoneBrowsersLeave ==
    \A c \in Clients : conn[c] = "broken" ~> [](c \notin clients \cup todo)

\* And its connection is closed, unless its handler panicked.
GoneBrowsersAreClosed ==
    \A c \in Clients : conn[c] = "broken" ~> conn[c] = "closed" \/ handler[c] = "panicked"

=============================================================================
