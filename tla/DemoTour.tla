------------------------------ MODULE DemoTour ------------------------------
(***************************************************************************)
(* The demonstration mode of the globe: connections that open are queued   *)
(* by the store (stores/connectionStore.ts) and played one after another   *)
(* as a flight of the camera and a line that is drawn; after a silence the *)
(* camera goes to the overview and spins (components/Globe/                *)
(* CesiumGlobe.tsx).                                                       *)
(*                                                                         *)
(* React is between the two.  A change of the store is rendered at once    *)
(* (useSyncExternalStore renders in the synchronous lane), a state set by  *)
(* an effect, such as demoBusy, with that render or in a later one.  After *)
(* a render the effects whose dependencies changed run in their order;     *)
(* timers, frames and messages wait for them.                              *)
(***************************************************************************)
EXTENDS Integers, Sequences, SequencesExt

CONSTANTS
    Events,      \* identities of demo events
    IPs,
    IpOf,        \* the client of an event
    Far,         \* the events far enough from the server to lead the camera
    None,
    Overview,    \* the owner of the flight to the whole globe
    QueueSize,   \* events the store keeps
    SuppressFor, \* an IP is not shown again before this time has passed
    IdleAfter    \* silence before the camera goes to the overview

ASSUME EventAssumption ==
    /\ Far \subseteq Events
    /\ IpOf \in [Events -> IPs]
    /\ None \notin Events /\ Overview \notin Events /\ None # Overview
ASSUME TimeAssumption ==
    QueueSize \in Nat \ {0} /\ SuppressFor \in Nat \ {0} /\ IdleAfter \in Nat \ {0}

VARIABLES
    mode,       \* store: demoMode
    queue,      \* store: demoQueue
    recent,     \* store: age of the last demo of each IP, SuppressFor when older
    newSeq,     \* store: connectionOpenSequence moved since the last render
    newServer,  \* settings: the server moved since the last render
    busy,       \* demoBusy as last set
    shownMode, shownQueue, shownBusy, \* mode, queue and busy as last rendered
    todo,       \* the effects still to run after the last render
    current,    \* the tour of demoGenerationRef, None after a bare increment
    tour,       \* how far each event's tour is
    lines,      \* the events whose line is on the globe
    flight,     \* whose flight moves the camera
    locked,     \* lookAt holds the camera in a local frame
    idle,       \* the idle effect: its timer, its flight, its rotation
    left,       \* time to its timeout
    idleCam,    \* idleCameraActiveRef
    since,      \* age of lastDemoActivityRef, IdleAfter when older
    silence     \* history: time since a connection opened or the mode was set

store == <<mode, queue, recent, newSeq, newServer>>
shown == <<shownMode, shownQueue, shownBusy>>
react == <<busy, shown, todo>>
touring == <<current, tour, lines, flight, locked>>
idling == <<idle, left, idleCam, since>>
vars == <<store, react, touring, idling, silence>>

Effects == {"mode", "server", "activity", "consume", "idle"}
Stages == {"none", "flight", "wait", "draw", "shown"}

TypeOK ==
    /\ mode \in BOOLEAN /\ newSeq \in BOOLEAN /\ newServer \in BOOLEAN
    /\ queue \in Seq(Events)
    /\ recent \in [IPs -> 0 .. SuppressFor]
    /\ busy \in BOOLEAN
    /\ shownMode \in BOOLEAN /\ shownQueue \in Seq(Events) /\ shownBusy \in BOOLEAN
    /\ todo \subseteq Effects
    /\ current \in Events \cup {None}
    /\ tour \in [Events -> Stages]
    /\ lines \subseteq Events
    /\ flight \in Events \cup {None, Overview}
    /\ locked \in BOOLEAN /\ idleCam \in BOOLEAN
    /\ idle \in {"off", "armed", "flight", "spin"}
    /\ left \in 0 .. IdleAfter /\ since \in 0 .. IdleAfter /\ silence \in 0 .. IdleAfter

Init ==
    /\ mode = FALSE /\ queue = <<>> /\ recent = [i \in IPs |-> SuppressFor]
    /\ newSeq = FALSE /\ newServer = FALSE
    /\ busy = FALSE
    /\ shownMode = FALSE /\ shownQueue = <<>> /\ shownBusy = FALSE
    /\ todo = {}
    /\ current = None /\ tour = [e \in Events |-> "none"] /\ lines = {}
    /\ flight = None /\ locked = FALSE
    /\ idle = "off" /\ left = 0 /\ idleCam = FALSE /\ since = 0 /\ silence = 0

-----------------------------------------------------------------------------
(* Rendering                                                               *)

Changed(b) ==
    {d \in {"mode", "queue", "length", "busy", "seq", "server"} :
        \/ d = "mode" /\ mode # shownMode
        \/ d = "queue" /\ queue # shownQueue
        \/ d = "length" /\ Len(queue) # Len(shownQueue)
        \/ d = "busy" /\ b # shownBusy
        \/ d = "seq" /\ newSeq
        \/ d = "server" /\ newServer}

\* Bug: a new connection does not restart the idle effect.
DepsWithoutSequence(f) == IF f = "idle" THEN {"mode", "busy", "length", "server"} ELSE
    CASE f = "mode" -> {"mode"}
      [] f = "server" -> {"server"}
      [] f = "activity" -> {"mode", "seq"}
      [] f = "consume" -> {"mode", "busy", "queue", "server"}

\* The dependencies of the effects, in the order in which the effects run.
Deps(f) ==
    CASE f = "mode" -> {"mode"}
      [] f = "server" -> {"server"}
      [] f = "activity" -> {"mode", "seq"}
      [] f = "consume" -> {"mode", "busy", "queue", "server"}
      [] f = "idle" -> {"mode", "busy", "length", "seq", "server"}

Before(f) ==
    CASE f = "mode" -> {}
      [] f = "server" -> {"mode"}
      [] f = "activity" -> {"mode", "server"}
      [] f = "consume" -> {"mode", "server", "activity"}
      [] f = "idle" -> {"mode", "server", "activity", "consume"}

Turn(f) == f \in todo /\ todo \cap Before(f) = {} /\ todo' = todo \ {f}

Settled == todo = {} /\ Changed(shownBusy) = {}

\* The Viewer is bound to the position of the server: the cleanup of its
\* effect ends every tour and line, and the new Viewer starts empty.
RebuildViewer ==
    /\ current' = None
    /\ tour' = [e \in Events |-> "none"]
    /\ lines' = {}
    /\ flight' = None
    /\ locked' = FALSE

\* A render with the busy state b: the cleanups of the effects that will run
\* again come first.  What is left of the idle effect is cancelled; a flight
\* of it goes on.
Render(b) ==
    /\ todo = {} /\ Changed(b) # {}
    /\ shownMode' = mode /\ shownQueue' = queue /\ shownBusy' = b
    /\ todo' = {f \in Effects : Deps(f) \cap Changed(b) # {}}
    /\ newSeq' = FALSE /\ newServer' = FALSE
    /\ IF newServer THEN RebuildViewer ELSE UNCHANGED touring
    /\ idle' = IF Deps("idle") \cap Changed(b) # {} THEN "off" ELSE idle
    /\ UNCHANGED <<mode, queue, recent, busy, left, idleCam, since, silence>>

-----------------------------------------------------------------------------
(* The effects                                                             *)

\* Bug: turning the mode off leaves the camera in flight.
ModeEffectFlyingOn ==
    /\ Turn("mode")
    /\ IF shownMode THEN UNCHANGED <<idleCam, current, flight, busy>>
       ELSE idleCam' = FALSE /\ current' = None /\ busy' = FALSE /\ UNCHANGED flight
    /\ UNCHANGED <<store, shown, tour, lines, locked, idle, left, since, silence>>

\* Turning the mode off ends the tour and stops the camera; lines that are
\* complete keep their timers.
ModeEffect ==
    /\ Turn("mode")
    /\ IF shownMode THEN UNCHANGED <<idleCam, current, flight, busy>>
       ELSE idleCam' = FALSE /\ current' = None /\ flight' = None /\ busy' = FALSE
    /\ UNCHANGED <<store, shown, tour, lines, locked, idle, left, since, silence>>

\* Bug: a new Viewer leaves the queue taken.
ServerEffectStayingBusy ==
    /\ Turn("server")
    /\ current' = None
    /\ UNCHANGED <<store, busy, shown, tour, lines, flight, locked, idling, silence>>

ServerEffect ==
    /\ Turn("server")
    /\ current' = None /\ busy' = FALSE
    /\ UNCHANGED <<store, shown, tour, lines, flight, locked, idling, silence>>

\* Any new connection is an activity and stops the idle camera.
ActivityEffect ==
    /\ Turn("activity")
    /\ IF shownMode
       THEN /\ since' = 0 /\ idleCam' = FALSE
            /\ flight' = IF idleCam THEN None ELSE flight
       ELSE UNCHANGED <<since, idleCam, flight>>
    /\ UNCHANGED <<store, busy, shown, current, tour, lines, locked, idle, left, silence>>

\* playDemoTour up to its first await: a far tour takes the camera from
\* whoever flies it, a near one draws at once and leaves the camera alone.
StartTour(e) ==
    /\ current' = e
    /\ IF e \in Far THEN flight' = e /\ tour' = [tour EXCEPT ![e] = "flight"] /\ UNCHANGED lines
       ELSE tour' = [tour EXCEPT ![e] = "draw"] /\ lines' = lines \cup {e} /\ UNCHANGED flight
    /\ UNCHANGED locked

\* The consumer takes the oldest event it was rendered with, if it was
\* rendered free.  shiftDemoEvent takes the event with this id, and no two
\* have the same, out of the store; setDemoBusy changes the state.
ConsumeEffect ==
    /\ Turn("consume")
    /\ IF shownMode /\ ~shownBusy /\ Len(shownQueue) # 0
       THEN LET e == Head(shownQueue)
            IN /\ StartTour(e)
               /\ idleCam' = FALSE /\ since' = 0
               /\ queue' = RemoveFirst(queue, e)
               /\ busy' = TRUE
       ELSE UNCHANGED <<touring, idleCam, since, queue, busy>>
    /\ UNCHANGED <<mode, recent, newSeq, newServer, shown, idle, left, silence>>

\* Bug: the idle effect does not look at the tour under way.
IdleEffectWhileBusy ==
    /\ Turn("idle")
    /\ IF shownMode /\ Len(shownQueue) = 0
       THEN idle' = "armed" /\ left' = IdleAfter - since
       ELSE UNCHANGED <<idle, left>>
    /\ UNCHANGED <<store, busy, shown, touring, idleCam, since, silence>>

\* The idle effect sets its timer for what is left of the silence.
IdleEffect ==
    /\ Turn("idle")
    /\ IF shownMode /\ ~shownBusy /\ Len(shownQueue) = 0
       THEN idle' = "armed" /\ left' = IdleAfter - since
       ELSE UNCHANGED <<idle, left>>
    /\ UNCHANGED <<store, busy, shown, touring, idleCam, since, silence>>

-----------------------------------------------------------------------------
(* The tours: flights, pauses and lines, each a promise of playDemoTour    *)

Running(e) == tour[e] \in {"flight", "wait", "draw"}

\* flyCameraToPoint settles once: the flight is complete, cancelled by
\* another, or taken off by its watchdog.
Landed(e) ==
    /\ Settled /\ tour[e] = "flight"
    /\ flight' = IF flight = e THEN None ELSE flight
    /\ tour' = [tour EXCEPT ![e] = IF current = e THEN "wait" ELSE "none"]
    /\ UNCHANGED <<store, react, current, lines, locked, idling, silence>>

\* The pause after the flight; then drawDemoConnection adds the line.
WaitOver(e) ==
    /\ Settled /\ tour[e] = "wait"
    /\ IF current = e THEN tour' = [tour EXCEPT ![e] = "draw"] /\ lines' = lines \cup {e}
       ELSE tour' = [tour EXCEPT ![e] = "none"] /\ UNCHANGED lines
    /\ UNCHANGED <<store, react, current, flight, locked, idling, silence>>

\* A frame of a tour that leads the camera.
Leading(e) == e \in Far /\ current = e /\ tour[e] = "draw"

LookAt(e) ==
    /\ Settled /\ Leading(e)
    /\ locked' = TRUE
    /\ UNCHANGED <<store, react, current, tour, lines, flight, idling, silence>>

\* Bug: a tour that was overtaken leaves its line behind.
DrawEndsForgotten(e) ==
    /\ Settled /\ tour[e] = "draw"
    /\ locked' = IF e \in Far THEN FALSE ELSE locked
    /\ IF current = e
       THEN tour' = [tour EXCEPT ![e] = "shown"] /\ busy' = FALSE
       ELSE tour' = [tour EXCEPT ![e] = "none"] /\ UNCHANGED busy
    /\ UNCHANGED <<store, shown, todo, current, lines, flight, idling, silence>>

\* Bug: the camera stays in the local frame.
DrawEndsLocked(e) ==
    /\ Settled /\ tour[e] = "draw"
    /\ IF current = e
       THEN tour' = [tour EXCEPT ![e] = "shown"] /\ busy' = FALSE /\ UNCHANGED <<locked, lines>>
       ELSE /\ tour' = [tour EXCEPT ![e] = "none"] /\ lines' = lines \ {e}
            /\ locked' = (locked /\ e \notin Far) /\ UNCHANGED busy
    /\ UNCHANGED <<store, shown, todo, current, flight, idling, silence>>

\* The last frame, the watchdog, or the first frame that finds the tour
\* overtaken: the line of a tour that is still current stays for a while and
\* the queue is free again, another's line goes at once.
DrawEnds(e) ==
    /\ Settled /\ tour[e] = "draw"
    /\ locked' = IF e \in Far THEN FALSE ELSE locked
    /\ IF current = e
       THEN tour' = [tour EXCEPT ![e] = "shown"] /\ busy' = FALSE /\ UNCHANGED lines
       ELSE tour' = [tour EXCEPT ![e] = "none"] /\ lines' = lines \ {e} /\ UNCHANGED busy
    /\ UNCHANGED <<store, shown, todo, current, flight, idling, silence>>

\* The timer of a complete line.
RemoveLine(e) ==
    /\ Settled /\ tour[e] = "shown"
    /\ tour' = [tour EXCEPT ![e] = "none"]
    /\ lines' = lines \ {e}
    /\ UNCHANGED <<store, react, current, flight, locked, idling, silence>>

-----------------------------------------------------------------------------
(* The idle camera                                                         *)

Spinning == idle = "spin" /\ idleCam

\* Bug: the flight to the overview is not marked as the idle camera's.
IdleTimeoutUnmarked ==
    /\ Settled /\ idle = "armed" /\ left = 0
    /\ idle' = "flight"
    /\ flight' = Overview
    /\ UNCHANGED <<store, react, current, tour, lines, locked, left, idleCam, since, silence>>

\* The 30 seconds are over.
IdleTimeout ==
    /\ Settled /\ idle = "armed" /\ left = 0
    /\ idle' = "flight" /\ idleCam' = TRUE
    /\ flight' = Overview
    /\ UNCHANGED <<store, react, current, tour, lines, locked, left, since, silence>>

\* flyCameraToOverview settles, by its watchdog if need be: the globe spins
\* unless an activity came first.
OverviewSettles ==
    /\ Settled /\ idle = "flight"
    /\ flight' = IF flight = Overview THEN None ELSE flight
    /\ idle' = IF idleCam THEN "spin" ELSE "off"
    /\ UNCHANGED <<store, react, current, tour, lines, locked, left, idleCam, since, silence>>

-----------------------------------------------------------------------------
(* The surroundings                                                        *)

\* openConnection: a connection with a place is queued in demonstration mode,
\* each IP once in a while; only the newest QueueSize events are kept.
OpenConnection(e, placed) ==
    /\ Settled
    /\ tour[e] = "none" /\ e \notin Range(queue)
    /\ IF mode /\ placed /\ recent[IpOf[e]] = SuppressFor
       THEN /\ queue' = LET q == Append(queue, e)
                        IN IF Len(q) > QueueSize THEN Tail(q) ELSE q
            /\ recent' = [recent EXCEPT ![IpOf[e]] = 0]
       ELSE UNCHANGED <<queue, recent>>
    /\ newSeq' = TRUE
    /\ silence' = 0
    /\ UNCHANGED <<mode, newServer, react, touring, idling>>

\* setDemoMode, by the button of the side panel or by the hash.
SetDemoMode(m) ==
    /\ Settled
    /\ mode' = m /\ queue' = <<>>
    /\ silence' = IF m /\ ~mode THEN 0 ELSE silence
    /\ UNCHANGED <<recent, newSeq, newServer, react, touring, idling>>

\* The configuration gets another position of the server.
MoveServer ==
    /\ Settled
    /\ newServer' = TRUE
    /\ UNCHANGED <<mode, queue, recent, newSeq, react, touring, idling, silence>>

\* A unit of time is much longer than a render.
Tick ==
    /\ Settled /\ busy = shownBusy
    /\ recent' = [i \in IPs |-> IF recent[i] < SuppressFor THEN recent[i] + 1 ELSE SuppressFor]
    /\ since' = IF since < IdleAfter THEN since + 1 ELSE since
    /\ silence' = IF silence < IdleAfter THEN silence + 1 ELSE silence
    /\ left' = IF idle = "armed" /\ left > 0 THEN left - 1 ELSE left
    /\ UNCHANGED <<mode, queue, newSeq, newServer, react, touring, idle, idleCam>>

EffectRuns == ModeEffect \/ ServerEffect \/ ActivityEffect \/ ConsumeEffect \/ IdleEffect

Next ==
    \/ \E b \in {busy, shownBusy} : Render(b)
    \/ EffectRuns
    \/ \E e \in Events :
          \/ Landed(e) \/ WaitOver(e) \/ LookAt(e) \/ DrawEnds(e) \/ RemoveLine(e)
          \/ \E placed \in BOOLEAN : OpenConnection(e, placed)
    \/ IdleTimeout \/ OverviewSettles
    \/ \E m \in BOOLEAN : SetDemoMode(m)
    \/ MoveServer \/ Tick

Spec == Init /\ [][Next]_vars

\* What a tour waits for next; one at a time.
TourGoesOn(e) == Landed(e) \/ WaitOver(e) \/ DrawEnds(e) \/ RemoveLine(e)

\* React runs what it has to run, and renders a state that waits long enough
\* whatever else changes; promises, frames and timers come round even if other
\* events keep coming (the page is visible).
FairSpec ==
    /\ Spec
    /\ WF_vars(EffectRuns)
    /\ SF_vars(Render(busy))
    /\ \A e \in Events : SF_vars(TourGoesOn(e))
    /\ SF_vars(IdleTimeout \/ OverviewSettles)
    /\ SF_vars(Tick)

-----------------------------------------------------------------------------
(* What the demonstration promises                                         *)

\* CesiumGlobe.tsx:853: turning the mode off stops the control of the camera.
\* Once the effects have run, no flight, tour or rotation moves it.
OffMeansStill ==
    Settled /\ ~mode => flight = None /\ ~Spinning /\ \A e \in Events : ~Leading(e)

\* CesiumGlobe.tsx:883: never two controls of the camera at once.
OneHandOnTheCamera ==
    Settled => /\ \A e \in Events : Leading(e) => flight = None /\ ~Spinning
               /\ Spinning => flight = None

\* The camera is in a local frame only while a tour that took it still draws.
CameraGivenBack == locked => \E e \in Far : tour[e] = "draw"

\* README.md:416: the idle camera moves after a silence only, and any new
\* connection stops it at once, one without a place too.
IdleOnlyAfterSilence == Settled /\ idleCam => silence >= IdleAfter

\* Every line that is drawn is taken off the globe again.
EveryLineGoes == \A e \in Events : e \in lines ~> e \notin lines

\* The queue is not taken for ever, whatever overtakes a tour.
QueueIsFreed == shownBusy ~> ~shownBusy

\* README.md:416: without connections the overview comes and spins.
SilenceBringsOverview == mode ~> (Spinning \/ ~mode \/ newSeq \/ newServer)

-----------------------------------------------------------------------------
(* What a comment says and the code does not do                            *)

\* CesiumGlobe.tsx:883: events are consumed one after another.  So a tour
\* under way may be ended, but not for the sake of the next event.
TourPlaysOut ==
    [][\A e \in Events : current = e /\ Running(e) => current' \in {e, None}]_vars

=============================================================================
