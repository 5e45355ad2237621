--------------------------- MODULE DemoTourProofs ---------------------------
(***************************************************************************)
(* Proofs about DemoTour: a mode that is off leaves the camera alone, the  *)
(* idle camera moves after a silence only, and tours and idle camera never *)
(* move the camera together, nor does a tour keep it, for every number of  *)
(* events, clients, queue length and delay.                                *)
(***************************************************************************)
EXTENDS DemoTour, SequenceTheorems, TLAPS

\* What the steps need to know of the variables.
Types ==
    /\ mode \in BOOLEAN /\ newSeq \in BOOLEAN /\ idleCam \in BOOLEAN
    /\ busy \in BOOLEAN /\ shownMode \in BOOLEAN /\ shownBusy \in BOOLEAN
Numbers ==
    /\ todo \subseteq Effects
    /\ left \in Nat /\ since \in 0 .. IdleAfter /\ silence \in 0 .. IdleAfter

\* The store does not change under the effects of a render.
StoreWaits == todo # {} => mode = shownMode /\ ~newSeq

\* The effects that share a dependency wait together.
Together ==
    /\ "mode" \in todo => "activity" \in todo
    /\ "activity" \in todo => "idle" \in todo
    /\ "idle" \in todo => idle = "off"

\* The idle effect is under way only when it was rendered with nothing to do.
IdleIsFree == idle # "off" => shownMode /\ ~shownBusy /\ Len(shownQueue) = 0

\* Once the mode effect has run, nothing is left of a mode that is off.
OffIsOver == ~shownMode /\ "mode" \notin todo => ~idleCam /\ current = None /\ flight = None

\* What the effects know of the silence.
Seen == shownMode /\ mode /\ ~newSeq /\ "activity" \notin todo
SinceIsRecent == Seen => since <= silence
TimerIsLate == idle = "armed" => left + since >= IdleAfter
CameraAfterSilence == idleCam /\ Seen => silence >= IdleAfter

IInv ==
    /\ Types /\ Numbers
    /\ StoreWaits
    /\ Together
    /\ IdleIsFree
    /\ OffIsOver
    /\ SinceIsRecent
    /\ TimerIsLate
    /\ CameraAfterSilence

\* A render brings every effect with a changed dependency.
LEMMA DepsOfEffects ==
    /\ Deps("mode") = {"mode"}
    /\ Deps("activity") = {"mode", "seq"}
    /\ Deps("idle") = {"mode", "busy", "length", "seq", "server"}
  BY DEF Deps

LEMMA InitIInv == Init => IInv
<1> SUFFICES ASSUME Init PROVE IInv
  OBVIOUS
<1>1. Types
  BY Zenon DEF Init, Types
<1>5. Numbers
  BY TimeAssumption DEF Init, Numbers, Effects
<1>2. StoreWaits /\ Together /\ IdleIsFree /\ TimerIsLate
  BY DEF Init, StoreWaits, Together, IdleIsFree, TimerIsLate
<1>3. ~idleCam /\ ~shownMode /\ current = None /\ flight = None
  BY Zenon DEF Init
<1>4. OffIsOver /\ SinceIsRecent /\ CameraAfterSilence
  BY <1>3, Zenon DEF OffIsOver, Seen, SinceIsRecent, CameraAfterSilence
<1> QED
  BY <1>1, <1>2, <1>4, <1>5 DEF IInv

\* What is not changed, and what follows when nothing is.
LEMMA ChangedMembers ==
    ASSUME NEW b
    PROVE  /\ mode # shownMode <=> "mode" \in Changed(b)
           /\ newSeq <=> "seq" \in Changed(b)
           /\ b # shownBusy <=> "busy" \in Changed(b)
           /\ Len(queue) # Len(shownQueue) <=> "length" \in Changed(b)
<1>1. mode # shownMode <=> "mode" \in Changed(b)
  BY Zenon DEF Changed
<1>2. newSeq <=> "seq" \in Changed(b)
  BY Zenon DEF Changed
<1>3. b # shownBusy <=> "busy" \in Changed(b)
  BY Zenon DEF Changed
<1>4. Len(queue) # Len(shownQueue) <=> "length" \in Changed(b)
  BY Zenon DEF Changed
<1> QED
  BY <1>1, <1>2, <1>3, <1>4

LEMMA SettledFacts == Settled => todo = {} /\ mode = shownMode /\ ~newSeq
<1>1. ASSUME Settled PROVE todo = {} /\ Changed(shownBusy) = {}
  BY <1>1 DEF Settled
<1>2. ASSUME Changed(shownBusy) = {} PROVE mode = shownMode /\ ~newSeq
  BY <1>2, ChangedMembers
<1> QED
  BY <1>1, <1>2

\* Steps that neither render nor touch the idle camera and the silence.
Quiet ==
    /\ UNCHANGED <<mode, newSeq, shownMode, shownQueue, shownBusy, idle, left, idleCam, since, silence>>
    /\ busy' = busy \/ busy' = FALSE
    /\ current' = current \/ current' = None
    /\ flight' = flight \/ flight' = None
    /\ todo' = todo \/ todo' = todo \ {"server"}

LEMMA QuietIInv == ASSUME IInv, Quiet PROVE IInv'
<1>1. Types'
  BY Zenon DEF IInv, Quiet, Types
<1>2. Numbers'
  BY DEF IInv, Quiet, Numbers
<1>3. StoreWaits'
  BY DEF IInv, Quiet, StoreWaits
<1>4. Together'
  BY DEF IInv, Quiet, Together
<1>5. IdleIsFree'
  BY DEF IInv, Quiet, IdleIsFree
<1>6. OffIsOver'
  <2>1. "mode" \notin todo' => "mode" \notin todo
    BY DEF Quiet
  <2> QED
    BY <2>1, Zenon DEF IInv, Quiet, OffIsOver
<1>7. (SinceIsRecent /\ TimerIsLate /\ CameraAfterSilence)'
  <2>1. "activity" \notin todo' => "activity" \notin todo
    BY DEF Quiet
  <2> QED
    BY <2>1 DEF IInv, Quiet, SinceIsRecent, TimerIsLate, CameraAfterSilence, Seen
<1> QED
  BY <1>1, <1>2, <1>3, <1>4, <1>5, <1>6, <1>7 DEF IInv

LEMMA QuietSteps ==
    ASSUME NEW e \in Events,
           Landed(e) \/ WaitOver(e) \/ LookAt(e) \/ DrawEnds(e) \/ RemoveLine(e) \/ ServerEffect
    PROVE  Quiet
<1>1. CASE Landed(e)
  BY <1>1 DEF Landed, Quiet, store, react, shown, idling
<1>2. CASE WaitOver(e)
  BY <1>2 DEF WaitOver, Quiet, store, react, shown, idling
<1>3. CASE LookAt(e)
  BY <1>3 DEF LookAt, Quiet, store, react, shown, idling
<1>4. CASE DrawEnds(e)
  BY <1>4 DEF DrawEnds, Quiet, store, react, shown, idling
<1>5. CASE RemoveLine(e)
  BY <1>5 DEF RemoveLine, Quiet, store, react, shown, idling
<1>6. CASE ServerEffect
  BY <1>6 DEF ServerEffect, Turn, Quiet, store, react, shown, idling
<1> QED
  BY <1>1, <1>2, <1>3, <1>4, <1>5, <1>6

LEMMA RenderIInv == ASSUME IInv, NEW b \in {busy, shownBusy}, Render(b) PROVE IInv'
<1> DEFINE C == Changed(b)
<1>1. /\ todo = {}
      /\ shownMode' = mode /\ shownBusy' = b /\ shownQueue' = queue /\ newSeq' = FALSE
      /\ todo' = {f \in Effects : Deps(f) \cap C # {}}
      /\ idle' = IF Deps("idle") \cap C # {} THEN "off" ELSE idle
      /\ UNCHANGED <<mode, busy, left, idleCam, since, silence>>
      /\ (current' = None /\ flight' = None) \/ (current' = current /\ flight' = flight)
  BY DEF Render, RebuildViewer, touring
<1>2. /\ mode # shownMode <=> "mode" \in C
      /\ newSeq <=> "seq" \in C
      /\ b # shownBusy <=> "busy" \in C
      /\ Len(queue) # Len(shownQueue) <=> "length" \in C
  BY ChangedMembers
<1> HIDE DEF C
<1>3. /\ "mode" \in todo' <=> "mode" \in C
      /\ "activity" \in todo' <=> ("mode" \in C \/ "seq" \in C)
  BY <1>1, DepsOfEffects DEF Effects
<1>4. /\ "mode" \in C \/ "seq" \in C \/ "busy" \in C \/ "length" \in C => "idle" \in todo'
      /\ "idle" \in todo' => idle' = "off"
      /\ idle' # "off" => idle' = idle /\ "idle" \notin todo'
      /\ idle' = "off" \/ idle' = idle
  BY <1>1, DepsOfEffects DEF Effects
<1>5. Types'
  BY <1>1, Zenon DEF IInv, Types
<1>6. Numbers'
  BY <1>1 DEF IInv, Numbers
<1>7. StoreWaits'
  BY <1>1, Zenon DEF StoreWaits
<1>8. Together'
  BY <1>3, <1>4, Zenon DEF Together
<1>9. IdleIsFree'
  <2> SUFFICES ASSUME idle' # "off" PROVE (shownMode /\ ~shownBusy /\ Len(shownQueue) = 0)'
    BY Zenon DEF IdleIsFree
  <2>1. idle # "off" /\ mode = shownMode /\ b = shownBusy /\ Len(queue) = Len(shownQueue)
    BY <1>2, <1>4, Zenon
  <2> QED
    BY <1>1, <2>1, Zenon DEF IInv, IdleIsFree
<1>10. OffIsOver'
  <2> SUFFICES ASSUME ~shownMode', "mode" \notin todo' PROVE (~idleCam /\ current = None /\ flight = None)'
    BY Zenon DEF OffIsOver
  <2>1. ~shownMode /\ "mode" \notin todo
    <3>1. "mode" \notin todo
      BY <1>1
    <3>2. mode = shownMode
      BY <1>2, <1>3, Zenon
    <3>3. shownMode' = shownMode
      BY <1>1, <3>2
    <3> QED
      BY <3>1, <3>3, Zenon
  <2>2. ~idleCam /\ current = None /\ flight = None
    BY <2>1, Zenon DEF IInv, OffIsOver
  <2> QED
    BY <1>1, <2>2, Zenon
<1>11. Seen' => Seen
  BY <1>1, <1>2, <1>3, Zenon DEF Seen
<1>12. (SinceIsRecent /\ TimerIsLate /\ CameraAfterSilence)'
  BY <1>1, <1>4, <1>11 DEF IInv, SinceIsRecent, TimerIsLate, CameraAfterSilence
<1> QED
  BY <1>5, <1>6, <1>7, <1>8, <1>9, <1>10, <1>12 DEF IInv

LEMMA ModeIInv == ASSUME IInv, ModeEffect PROVE IInv'
<1>1. /\ "mode" \in todo /\ todo' = todo \ {"mode"}
      /\ UNCHANGED <<mode, newSeq, shownMode, shownQueue, shownBusy, idle, left, since, silence>>
  BY DEF ModeEffect, Turn, store, shown
<1>2. IF shownMode THEN UNCHANGED <<idleCam, current, flight, busy>>
      ELSE idleCam' = FALSE /\ current' = None /\ flight' = None /\ busy' = FALSE
  BY DEF ModeEffect
<1>3. "activity" \in todo /\ "activity" \in todo' /\ "idle" \in todo'
  BY <1>1 DEF IInv, Together
<1>4. Types'
  BY <1>1, <1>2, Zenon DEF IInv, Types
<1>5. (Numbers /\ StoreWaits)'
  BY <1>1 DEF IInv, Numbers, StoreWaits
<1>6. Together'
  BY <1>1, <1>3 DEF IInv, Together
<1>7. (IdleIsFree /\ TimerIsLate)'
  BY <1>1 DEF IInv, IdleIsFree, TimerIsLate
<1>8. OffIsOver'
  BY <1>1, <1>2, Zenon DEF OffIsOver
<1>9. (SinceIsRecent /\ CameraAfterSilence)'
  BY <1>3, Zenon DEF SinceIsRecent, CameraAfterSilence, Seen
<1> QED
  BY <1>4, <1>5, <1>6, <1>7, <1>8, <1>9 DEF IInv

LEMMA ActivityIInv == ASSUME IInv, ActivityEffect PROVE IInv'
<1>1. /\ "activity" \in todo /\ "mode" \notin todo /\ todo' = todo \ {"activity"}
      /\ UNCHANGED <<mode, newSeq, busy, shownMode, shownQueue, shownBusy, current, idle, left, silence>>
  BY DEF ActivityEffect, Turn, Before, store, shown
<1>2. IF shownMode THEN since' = 0 /\ idleCam' = FALSE /\ flight' = (IF idleCam THEN None ELSE flight)
      ELSE UNCHANGED <<since, idleCam, flight>>
  BY DEF ActivityEffect
<1>3. "idle" \in todo' /\ idle' = "off" /\ "mode" \notin todo'
  BY <1>1 DEF IInv, Together
<1>4. Types'
  BY <1>1, <1>2, Zenon DEF IInv, Types
<1>5. (Numbers /\ StoreWaits)'
  BY <1>1, <1>2, TimeAssumption DEF IInv, Numbers, StoreWaits
<1>6. (Together /\ IdleIsFree /\ TimerIsLate)'
  BY <1>1, <1>3 DEF IInv, Together, IdleIsFree, TimerIsLate
<1>7. OffIsOver'
  BY <1>1, <1>2, Zenon DEF IInv, OffIsOver
<1>8. SinceIsRecent'
  <2>1. CASE shownMode
    BY <1>1, <1>2, <2>1 DEF IInv, Numbers, SinceIsRecent
  <2>2. CASE ~shownMode
    BY <1>1, <2>2, Zenon DEF SinceIsRecent, Seen
  <2> QED
    BY <2>1, <2>2
<1>9. CameraAfterSilence'
  BY <1>1, <1>2, Zenon DEF CameraAfterSilence, Seen
<1> QED
  BY <1>4, <1>5, <1>6, <1>7, <1>8, <1>9 DEF IInv

LEMMA ConsumeIInv == ASSUME IInv, ConsumeEffect PROVE IInv'
<1>1. /\ "activity" \notin todo /\ "mode" \notin todo
      /\ "consume" \in todo /\ todo' = todo \ {"consume"}
      /\ UNCHANGED <<mode, newSeq, shownMode, shownQueue, shownBusy, idle, left, silence>>
  BY DEF ConsumeEffect, Turn, Before, shown
<1>2. \/ /\ shownMode /\ ~shownBusy /\ Len(shownQueue) # 0
         /\ idleCam' = FALSE /\ since' = 0 /\ busy' = TRUE
      \/ UNCHANGED <<current, flight, idleCam, since, busy>>
  BY DEF ConsumeEffect, touring
<1>3. Types'
  BY <1>1, <1>2, Zenon DEF IInv, Types
<1>4. (Numbers /\ StoreWaits)'
  BY <1>1, <1>2, TimeAssumption DEF IInv, Numbers, StoreWaits
<1>5. Together'
  BY <1>1 DEF IInv, Together
<1>6. IdleIsFree'
  BY <1>1, Zenon DEF IInv, IdleIsFree
<1>7. OffIsOver'
  BY <1>1, <1>2, Zenon DEF IInv, OffIsOver
<1>8. CASE idleCam' = FALSE /\ since' = 0 /\ Len(shownQueue) # 0
  <2>1. idle = "off"
    BY <1>8 DEF IInv, IdleIsFree
  <2> QED
    BY <1>1, <1>3, <1>4, <1>5, <1>6, <1>7, <1>8, <2>1
       DEF IInv, Numbers, SinceIsRecent, TimerIsLate, CameraAfterSilence
<1>9. CASE UNCHANGED <<idleCam, since>>
  <2>1. (SinceIsRecent /\ TimerIsLate /\ CameraAfterSilence)'
    BY <1>1, <1>9 DEF IInv, SinceIsRecent, TimerIsLate, CameraAfterSilence, Seen
  <2> QED
    BY <1>3, <1>4, <1>5, <1>6, <1>7, <2>1 DEF IInv
<1> QED
  BY <1>2, <1>8, <1>9

LEMMA IdleEffectIInv == ASSUME IInv, IdleEffect PROVE IInv'
<1>1. /\ "activity" \notin todo /\ "mode" \notin todo
      /\ "idle" \in todo /\ todo' = todo \ {"idle"}
      /\ UNCHANGED <<mode, newSeq, busy, shownMode, shownQueue, shownBusy, current, flight,
                    idleCam, since, silence>>
  BY DEF IdleEffect, Turn, Before, store, shown, touring
<1>2. \/ /\ shownMode /\ ~shownBusy /\ Len(shownQueue) = 0
         /\ idle' = "armed" /\ left' = IdleAfter - since
      \/ UNCHANGED <<idle, left>>
  BY DEF IdleEffect
<1>3. idle = "off"
  BY <1>1 DEF IInv, Together
<1>4. Types'
  BY <1>1, Zenon DEF IInv, Types
<1>5. (Numbers /\ StoreWaits)'
  BY <1>1, <1>2, TimeAssumption DEF IInv, Numbers, StoreWaits
<1>6. Together'
  BY <1>1 DEF IInv, Together
<1>7. IdleIsFree'
  BY <1>1, <1>2, <1>3, Zenon DEF IInv, IdleIsFree
<1>8. OffIsOver'
  BY <1>1, Zenon DEF IInv, OffIsOver
<1>9. (SinceIsRecent /\ CameraAfterSilence)'
  BY <1>1 DEF IInv, SinceIsRecent, CameraAfterSilence, Seen
<1>10. TimerIsLate'
  BY <1>1, <1>2, <1>3, TimeAssumption DEF IInv, Numbers, TimerIsLate
<1> QED
  BY <1>4, <1>5, <1>6, <1>7, <1>8, <1>9, <1>10 DEF IInv

LEMMA IdleCameraIInv ==
    ASSUME IInv, IdleTimeout \/ OverviewSettles
    PROVE  IInv'
<1>1. /\ todo = {} /\ mode = shownMode /\ ~newSeq
      /\ UNCHANGED <<mode, newSeq, busy, shownMode, shownQueue, shownBusy, todo, current,
                    left, since, silence>>
  BY SettledFacts DEF IdleTimeout, OverviewSettles, store, react, shown
<1>2. \/ idle = "armed" /\ left = 0 /\ idle' = "flight" /\ idleCam' = TRUE
      \/ /\ idle = "flight" /\ idle' \in {"spin", "off"} /\ idleCam' = idleCam
         /\ flight' = flight \/ flight' = None
  BY DEF IdleTimeout, OverviewSettles
<1>3. idle # "off" /\ idle' # "armed" /\ shownMode
  BY <1>2, Zenon DEF IInv, IdleIsFree
<1>4. Types'
  BY <1>1, <1>2, Zenon DEF IInv, Types
<1>5. (Numbers /\ StoreWaits)'
  BY <1>1 DEF IInv, Numbers, StoreWaits
<1>6. Together'
  BY <1>1 DEF Together
<1>7. IdleIsFree'
  BY <1>1, <1>3, Zenon DEF IInv, IdleIsFree
<1>8. OffIsOver'
  BY <1>1, <1>3, Zenon DEF OffIsOver
<1>9. (SinceIsRecent /\ TimerIsLate)'
  BY <1>1, <1>3 DEF IInv, SinceIsRecent, TimerIsLate, Seen
<1>10. CameraAfterSilence'
  <2>1. CASE idle = "armed" /\ left = 0
    <3>1. since >= IdleAfter
      BY <2>1, TimeAssumption DEF IInv, Numbers, TimerIsLate
    <3>2. Seen => since <= silence
      BY DEF IInv, SinceIsRecent
    <3>3. Seen' => silence >= IdleAfter
      BY <1>1, <3>1, <3>2, TimeAssumption DEF IInv, Numbers, Seen
    <3> QED
      BY <1>1, <3>3 DEF CameraAfterSilence
  <2>2. CASE idleCam' = idleCam
    BY <1>1, <2>2 DEF IInv, CameraAfterSilence, Seen
  <2> QED
    BY <1>2, <2>1, <2>2
<1> QED
  BY <1>4, <1>5, <1>6, <1>7, <1>8, <1>9, <1>10 DEF IInv

LEMMA OpenIInv ==
    ASSUME IInv, NEW e \in Events, NEW placed \in BOOLEAN, OpenConnection(e, placed)
    PROVE  IInv'
<1>1. /\ todo = {} /\ newSeq' = TRUE /\ silence' = 0
      /\ UNCHANGED <<mode, busy, shownMode, shownQueue, shownBusy, todo, current, flight,
                    idle, left, idleCam, since>>
  BY SettledFacts DEF OpenConnection, react, shown, touring, idling
<1>2. Types'
  BY <1>1, Zenon DEF IInv, Types
<1>3. (Numbers /\ StoreWaits /\ Together)'
  BY <1>1, TimeAssumption DEF IInv, Numbers, StoreWaits, Together
<1>4. (IdleIsFree /\ TimerIsLate)'
  BY <1>1 DEF IInv, IdleIsFree, TimerIsLate
<1>5. OffIsOver'
  BY <1>1, Zenon DEF IInv, OffIsOver
<1>6. (SinceIsRecent /\ CameraAfterSilence)'
  BY <1>1, Zenon DEF SinceIsRecent, CameraAfterSilence, Seen
<1> QED
  BY <1>2, <1>3, <1>4, <1>5, <1>6 DEF IInv

LEMMA SetModeIInv ==
    ASSUME IInv, NEW m \in BOOLEAN, SetDemoMode(m)
    PROVE  IInv'
<1>1. /\ todo = {} /\ mode = shownMode /\ ~newSeq /\ mode' = m
      /\ silence' = IF m /\ ~mode THEN 0 ELSE silence
      /\ UNCHANGED <<newSeq, busy, shownMode, shownQueue, shownBusy, todo, current, flight,
                    idle, left, idleCam, since>>
  BY SettledFacts DEF SetDemoMode, react, shown, touring, idling
<1>2. Types'
  BY <1>1, Zenon DEF IInv, Types
<1>3. (Numbers /\ StoreWaits /\ Together)'
  BY <1>1, TimeAssumption DEF IInv, Numbers, StoreWaits, Together
<1>4. (IdleIsFree /\ TimerIsLate)'
  BY <1>1 DEF IInv, IdleIsFree, TimerIsLate
<1>5. OffIsOver'
  BY <1>1, Zenon DEF IInv, OffIsOver
<1>6. Seen' => Seen /\ silence' = silence
  <2>1. CASE shownMode
    <3>1. mode /\ silence' = silence
      BY <1>1, <2>1, Zenon
    <3> QED
      BY <1>1, <2>1, <3>1, Zenon DEF Seen
  <2>2. CASE ~shownMode
    BY <1>1, <2>2, Zenon DEF Seen
  <2> QED
    BY <2>1, <2>2
<1>7. (SinceIsRecent /\ CameraAfterSilence)'
  BY <1>1, <1>6 DEF IInv, SinceIsRecent, CameraAfterSilence
<1> QED
  BY <1>2, <1>3, <1>4, <1>5, <1>7 DEF IInv

LEMMA MoveIInv == ASSUME IInv, MoveServer PROVE IInv'
<1>1. Quiet
  BY DEF MoveServer, Quiet, react, shown, touring, idling
<1> QED
  BY <1>1, QuietIInv

LEMMA TickIInv == ASSUME IInv, Tick PROVE IInv'
<1>1. /\ since' = IF since < IdleAfter THEN since + 1 ELSE since
      /\ silence' = IF silence < IdleAfter THEN silence + 1 ELSE silence
      /\ left' = IF idle = "armed" /\ left > 0 THEN left - 1 ELSE left
      /\ UNCHANGED <<mode, newSeq, busy, shownMode, shownQueue, shownBusy, todo, current, flight,
                    idle, idleCam>>
  BY DEF Tick, react, shown, touring
<1>2. since \in 0 .. IdleAfter /\ silence \in 0 .. IdleAfter /\ left \in Nat /\ IdleAfter \in Nat
  BY TimeAssumption DEF IInv, Numbers
<1>3. Types'
  BY <1>1, Zenon DEF IInv, Types
<1>4. Numbers'
  BY <1>1, <1>2 DEF IInv, Numbers
<1>5. (StoreWaits /\ Together /\ IdleIsFree)'
  BY <1>1 DEF IInv, StoreWaits, Together, IdleIsFree
<1>6. OffIsOver'
  BY <1>1, Zenon DEF IInv, OffIsOver
<1>7. Seen' <=> Seen
  BY <1>1 DEF Seen
<1>8. SinceIsRecent'
  BY <1>1, <1>2, <1>7 DEF IInv, SinceIsRecent
<1>9. TimerIsLate'
  BY <1>1, <1>2 DEF IInv, TimerIsLate
<1>10. CameraAfterSilence'
  BY <1>1, <1>2, <1>7 DEF IInv, CameraAfterSilence
<1> QED
  BY <1>3, <1>4, <1>5, <1>6, <1>8, <1>9, <1>10 DEF IInv

LEMMA StutterIInv == ASSUME IInv, UNCHANGED vars PROVE IInv'
<1>1. Quiet
  BY DEF vars, Quiet, store, react, shown, touring, idling
<1> QED
  BY <1>1, QuietIInv

THEOREM IInvHolds == Spec => []IInv
<1>1. IInv /\ [Next]_vars => IInv'
  <2> SUFFICES ASSUME IInv, [Next]_vars PROVE IInv'
    OBVIOUS
  <2>1. ASSUME NEW b \in {busy, shownBusy}, Render(b) PROVE IInv'
    BY <2>1, RenderIInv
  <2>2. CASE ModeEffect
    BY <2>2, ModeIInv
  <2>3. CASE ServerEffect
    <3>1. Quiet
      BY <2>3 DEF ServerEffect, Turn, Quiet, store, shown, idling
    <3> QED
      BY <3>1, QuietIInv
  <2>4. CASE ActivityEffect
    BY <2>4, ActivityIInv
  <2>5. CASE ConsumeEffect
    BY <2>5, ConsumeIInv
  <2>6. CASE IdleEffect
    BY <2>6, IdleEffectIInv
  <2>7. ASSUME NEW e \in Events,
               Landed(e) \/ WaitOver(e) \/ LookAt(e) \/ DrawEnds(e) \/ RemoveLine(e)
        PROVE  IInv'
    BY <2>7, QuietSteps, QuietIInv
  <2>8. ASSUME NEW e \in Events, NEW placed \in BOOLEAN, OpenConnection(e, placed)
        PROVE  IInv'
    BY <2>8, OpenIInv
  <2>9. CASE IdleTimeout \/ OverviewSettles
    BY <2>9, IdleCameraIInv
  <2>10. ASSUME NEW m \in BOOLEAN, SetDemoMode(m) PROVE IInv'
    BY <2>10, SetModeIInv
  <2>11. CASE MoveServer
    BY <2>11, MoveIInv
  <2>12. CASE Tick
    BY <2>12, TickIInv
  <2>13. CASE UNCHANGED vars
    BY <2>13, StutterIInv
  <2> QED
    BY <2>1, <2>2, <2>3, <2>4, <2>5, <2>6, <2>7, <2>8, <2>9, <2>10, <2>11, <2>12, <2>13
       DEF Next, EffectRuns
<1> QED
  BY InitIInv, <1>1, PTL DEF Spec

\* CesiumGlobe.tsx:853: once the effects have run, a mode that is off moves
\* the camera no more: no flight, no tour that leads, no rotation.
THEOREM OffStaysStill == Spec => []OffMeansStill
<1>1. IInv => OffMeansStill
  <2> SUFFICES ASSUME IInv, Settled, ~mode PROVE flight = None /\ ~Spinning /\ \A e \in Events : ~Leading(e)
    BY Zenon DEF OffMeansStill
  <2>1. "mode" \notin todo /\ mode = shownMode
    BY SettledFacts
  <2>2. ~shownMode
    BY <2>1, Zenon
  <2>3. ~idleCam /\ current = None /\ flight = None
    BY <2>1, <2>2, Zenon DEF IInv, OffIsOver
  <2> QED
    BY <2>3, EventAssumption, Zenon DEF Spinning, Leading
<1> QED
  BY <1>1, IInvHolds, PTL

\* README.md:416: the idle camera is on only after a silence of the full
\* length, whatever renders, tours and changes of the mode came between.
THEOREM IdleNeedsSilence == Spec => []IdleOnlyAfterSilence
<1>1. IInv => IdleOnlyAfterSilence
  <2> SUFFICES ASSUME IInv, Settled, idleCam PROVE silence >= IdleAfter
    BY Zenon DEF IdleOnlyAfterSilence
  <2>1. todo = {} /\ mode = shownMode /\ ~newSeq
    BY SettledFacts
  <2>2. shownMode
    BY <2>1, Zenon DEF IInv, OffIsOver
  <2>3. Seen
    <3>1. "activity" \notin todo
      BY <2>1
    <3>2. mode
      BY <2>1, <2>2, Zenon
    <3> QED
      BY <2>1, <2>2, <3>1, <3>2, Zenon DEF Seen
  <2> QED
    BY <2>3 DEF IInv, CameraAfterSilence
<1> QED
  BY <1>1, IInvHolds, PTL

-----------------------------------------------------------------------------
(* One hand on the camera                                                  *)

Tours == tour \in [Events -> Stages]

\* A tour under way has taken the queue and ended the idle camera, and until
\* the busy state is rendered no time has passed.
TourIsBusy ==
    \A e \in Events : current = e /\ Running(e) => busy /\ ~idleCam /\ (~shownBusy => since = 0)

\* The tour that leads has the camera, or nobody has.
TourHasCamera ==
    \A e \in Far : current = e =>
        /\ tour[e] = "flight" => flight \in {e, None}
        /\ tour[e] \in {"wait", "draw"} => flight = None

IdleHasCamera ==
    idleCam => /\ idle = "flight" => flight \in {Overview, None}
               /\ idle = "spin" => flight = None

CameraInv == Tours /\ TourIsBusy /\ TourHasCamera /\ IdleHasCamera

LEMMA InitCameraInv == Init => CameraInv
<1> SUFFICES ASSUME Init PROVE CameraInv
  OBVIOUS
<1>1. /\ current = None /\ flight = None /\ idleCam = FALSE
      /\ tour = [e \in Events |-> "none"]
  BY Zenon DEF Init
<1> QED
  BY <1>1, EventAssumption DEF CameraInv, Tours, Stages, TourIsBusy, TourHasCamera, IdleHasCamera

\* Steps in which no tour goes on and no flight begins: the tour under way
\* stays the one it was or is ended.
Passive ==
    /\ \/ /\ current' = current /\ tour' = tour /\ busy' = busy
          /\ since' \in {since, 0} /\ shownBusy' \in {shownBusy, busy}
       \/ current' = None /\ (tour' = tour \/ tour' = [e \in Events |-> "none"])
    /\ flight' \in {flight, None}
    /\ idleCam' \in {idleCam, FALSE}
    /\ idle' \in {idle, "off", "armed"}

LEMMA PassiveCameraInv == ASSUME CameraInv, Passive PROVE CameraInv'
<1>1. Tours'
  BY DEF CameraInv, Passive, Tours, Stages
<1>2. TourIsBusy'
  <2> SUFFICES ASSUME NEW e \in Events, current' = e, Running(e)'
               PROVE  busy' /\ ~idleCam' /\ (~shownBusy' => since' = 0)
    BY DEF TourIsBusy
  <2>1. /\ current = e /\ Running(e) /\ busy' = busy
        /\ since' \in {since, 0} /\ shownBusy' \in {shownBusy, busy}
    BY EventAssumption DEF Passive, Running
  <2>2. busy /\ ~idleCam /\ (~shownBusy => since = 0)
    BY <2>1 DEF CameraInv, TourIsBusy
  <2>3. ~idleCam'
    <3>1. idleCam' = idleCam \/ idleCam' = FALSE
      BY DEF Passive
    <3> QED
      BY <2>2, <3>1, Zenon
  <2>4. busy'
    BY <2>1, <2>2, Zenon
  <2>5. ~shownBusy' => since' = 0
    <3>1. CASE shownBusy' = shownBusy
      BY <2>1, <2>2, <3>1
    <3>2. CASE shownBusy' = busy
      BY <2>2, <3>2, Zenon
    <3> QED
      BY <2>1, <3>1, <3>2
  <2> QED
    BY <2>3, <2>4, <2>5, Zenon
<1>3. TourHasCamera'
  BY EventAssumption DEF CameraInv, Passive, TourHasCamera
<1>4. IdleHasCamera'
  <2>1. idleCam' => idleCam
    BY Zenon DEF Passive
  <2> QED
    BY <2>1 DEF CameraInv, Passive, IdleHasCamera
<1> QED
  BY <1>1, <1>2, <1>3, <1>4 DEF CameraInv

LEMMA PassiveSteps ==
    ASSUME \/ \E b \in {busy, shownBusy} : Render(b)
           \/ ModeEffect \/ ServerEffect \/ ActivityEffect \/ IdleEffect
           \/ \E e \in Events : LookAt(e)
           \/ \E e \in Events, placed \in BOOLEAN : OpenConnection(e, placed)
           \/ \E m \in BOOLEAN : SetDemoMode(m)
           \/ MoveServer
           \/ UNCHANGED vars
    PROVE  Passive
<1>1. ASSUME NEW b \in {busy, shownBusy}, Render(b) PROVE Passive
  BY <1>1 DEF Render, RebuildViewer, Passive, touring
<1>2. CASE ModeEffect
  BY <1>2 DEF ModeEffect, Passive, shown
<1>3. CASE ServerEffect
  BY <1>3 DEF ServerEffect, Passive, shown, idling
<1>4. CASE ActivityEffect
  BY <1>4 DEF ActivityEffect, Passive, shown
<1>5. CASE IdleEffect
  BY <1>5 DEF IdleEffect, Passive, shown, touring
<1>6. CASE \E e \in Events : LookAt(e)
  BY <1>6 DEF LookAt, Passive, react, shown, idling
<1>7. CASE \E e \in Events, placed \in BOOLEAN : OpenConnection(e, placed)
  BY <1>7 DEF OpenConnection, Passive, react, shown, touring, idling
<1>8. CASE \E m \in BOOLEAN : SetDemoMode(m)
  BY <1>8 DEF SetDemoMode, Passive, react, shown, touring, idling
<1>9. CASE MoveServer
  BY <1>9 DEF MoveServer, Passive, react, shown, touring, idling
<1>10. CASE UNCHANGED vars
  BY <1>10 DEF vars, Passive, react, shown, touring, idling
<1> QED
  BY <1>1, <1>2, <1>3, <1>4, <1>5, <1>6, <1>7, <1>8, <1>9, <1>10

\* A tour that goes on keeps the camera while it is current; one that was
\* overtaken only lets go of it.
LEMMA LandedCameraInv == ASSUME CameraInv, NEW e \in Events, Landed(e) PROVE CameraInv'
<1>1. /\ tour[e] = "flight"
      /\ tour' = [tour EXCEPT ![e] = IF current = e THEN "wait" ELSE "none"]
      /\ flight' = IF flight = e THEN None ELSE flight
      /\ UNCHANGED <<current, busy, shownBusy, idle, idleCam, since>>
  BY DEF Landed, react, shown, idling
<1>2. Tours /\ Tours'
  BY <1>1 DEF CameraInv, Tours, Stages
<1>3. TourIsBusy'
  <2> SUFFICES ASSUME NEW x \in Events, current = x, Running(x)'
               PROVE  busy /\ ~idleCam /\ (~shownBusy => since = 0)
    BY <1>1 DEF TourIsBusy
  <2>1. Running(x)
    BY <1>1, <1>2 DEF Running, Tours
  <2> QED
    BY <2>1 DEF CameraInv, TourIsBusy
<1>4. TourHasCamera'
  BY <1>1, <1>2, EventAssumption DEF CameraInv, Tours, TourHasCamera
<1>5. IdleHasCamera'
  BY <1>1 DEF CameraInv, IdleHasCamera
<1> QED
  BY <1>2, <1>3, <1>4, <1>5 DEF CameraInv

LEMMA StageCameraInv ==
    ASSUME CameraInv, NEW e \in Events, WaitOver(e) \/ DrawEnds(e) \/ RemoveLine(e)
    PROVE  CameraInv'
<1>1. UNCHANGED <<current, flight, shownBusy, idle, idleCam, since>>
  BY DEF WaitOver, DrawEnds, RemoveLine, react, shown, idling
<1>2. \/ tour[e] = "wait" /\ tour' = [tour EXCEPT ![e] = "draw"] /\ busy' = busy
      \/ tour' = [tour EXCEPT ![e] = "none"] /\ busy' = busy
      \/ current = e /\ tour' = [tour EXCEPT ![e] = "shown"]
  BY DEF WaitOver, DrawEnds, RemoveLine, react
<1>3. Tours /\ Tours'
  BY <1>2 DEF CameraInv, Tours, Stages
<1>4. TourIsBusy'
  <2> SUFFICES ASSUME NEW x \in Events, current = x, Running(x)'
               PROVE  busy' /\ ~idleCam /\ (~shownBusy => since = 0)
    BY <1>1 DEF TourIsBusy
  <2>1. Running(x) /\ busy' = busy
    BY <1>2, <1>3 DEF Running, Tours
  <2> QED
    BY <2>1 DEF CameraInv, TourIsBusy
<1>5. TourHasCamera'
  BY <1>1, <1>2, <1>3, EventAssumption DEF CameraInv, Tours, TourHasCamera
<1>6. IdleHasCamera'
  BY <1>1 DEF CameraInv, IdleHasCamera
<1> QED
  BY <1>3, <1>4, <1>5, <1>6 DEF CameraInv

\* A tour begins only when the idle effect was left with something to do, so
\* no flight to the overview is under way that could take the camera back.
LEMMA ConsumeCameraInv == ASSUME IInv, CameraInv, ConsumeEffect PROVE CameraInv'
<1> DEFINE h == Head(shownQueue)
<1>1. UNCHANGED <<shownBusy, idle>>
  BY DEF ConsumeEffect, shown
<1>2. CASE UNCHANGED <<current, tour, flight, idleCam, since, busy>>
  <2>1. Passive
    BY <1>1, <1>2 DEF Passive
  <2> QED
    BY <2>1, PassiveCameraInv
<1>3. CASE /\ current' = h /\ idleCam' = FALSE /\ since' = 0 /\ busy' = TRUE
           /\ \/ h \in Far /\ flight' = h /\ tour' = [tour EXCEPT ![h] = "flight"]
              \/ h \notin Far /\ flight' = flight /\ tour' = [tour EXCEPT ![h] = "draw"]
  <2>1. Tours'
    BY <1>3 DEF CameraInv, Tours, Stages
  <2>2. TourIsBusy' /\ IdleHasCamera'
    BY <1>3, Zenon DEF TourIsBusy, IdleHasCamera
  <2>3. TourHasCamera'
    BY <1>3, EventAssumption DEF CameraInv, Tours, TourHasCamera
  <2> QED
    BY <2>1, <2>2, <2>3 DEF CameraInv
<1> QED
  BY <1>2, <1>3 DEF ConsumeEffect, StartTour, touring

LEMMA IdleTimeoutCameraInv == ASSUME IInv, CameraInv, IdleTimeout PROVE CameraInv'
<1>1. /\ idle = "armed" /\ left = 0 /\ idle' = "flight" /\ flight' = Overview
      /\ UNCHANGED <<current, tour>>
  BY DEF IdleTimeout
<1>2. ASSUME NEW e \in Events, current = e PROVE ~Running(e)
  <2>1. ~shownBusy /\ since # 0
    BY <1>1, TimeAssumption DEF IInv, IdleIsFree, TimerIsLate, Numbers
  <2> QED
    BY <1>2, <2>1, Zenon DEF CameraInv, TourIsBusy
<1>3. Tours' /\ IdleHasCamera'
  BY <1>1 DEF CameraInv, Tours, IdleHasCamera
<1>4. TourIsBusy' /\ TourHasCamera'
  BY <1>1, <1>2, EventAssumption DEF TourIsBusy, TourHasCamera, Running
<1> QED
  BY <1>3, <1>4 DEF CameraInv

LEMMA OverviewCameraInv == ASSUME CameraInv, OverviewSettles PROVE CameraInv'
<1>1. /\ idle = "flight" /\ flight' = (IF flight = Overview THEN None ELSE flight)
      /\ UNCHANGED <<current, tour, busy, shownBusy, idleCam, since>>
  BY DEF OverviewSettles, react, shown
<1>2. Tours' /\ TourIsBusy'
  BY <1>1, Zenon DEF CameraInv, Tours, TourIsBusy, Running
<1>3. TourHasCamera'
  BY <1>1, EventAssumption DEF CameraInv, TourHasCamera
<1>4. IdleHasCamera'
  BY <1>1, EventAssumption DEF CameraInv, IdleHasCamera
<1> QED
  BY <1>2, <1>3, <1>4 DEF CameraInv

LEMMA TickCameraInv == ASSUME IInv, CameraInv, Tick PROVE CameraInv'
<1>1. /\ busy = shownBusy
      /\ UNCHANGED <<current, tour, flight, busy, shownBusy, idle, idleCam>>
  BY DEF Tick, react, shown, touring
<1>2. (Tours /\ TourHasCamera /\ IdleHasCamera)'
  BY <1>1 DEF CameraInv, Tours, TourHasCamera, IdleHasCamera
<1>3. TourIsBusy'
  BY <1>1, Zenon DEF CameraInv, TourIsBusy, Running
<1> QED
  BY <1>2, <1>3 DEF CameraInv

THEOREM CameraInvHolds == Spec => []CameraInv
<1>1. IInv /\ CameraInv /\ [Next]_vars => CameraInv'
  <2> SUFFICES ASSUME IInv, CameraInv, [Next]_vars PROVE CameraInv'
    OBVIOUS
  <2>1. CASE Passive
    BY <2>1, PassiveCameraInv
  <2>2. ASSUME NEW e \in Events, Landed(e) PROVE CameraInv'
    BY <2>2, LandedCameraInv
  <2>3. ASSUME NEW e \in Events, WaitOver(e) \/ DrawEnds(e) \/ RemoveLine(e) PROVE CameraInv'
    BY <2>3, StageCameraInv
  <2>4. CASE ConsumeEffect
    BY <2>4, ConsumeCameraInv
  <2>5. CASE IdleTimeout
    BY <2>5, IdleTimeoutCameraInv
  <2>6. CASE OverviewSettles
    BY <2>6, OverviewCameraInv
  <2>7. CASE Tick
    BY <2>7, TickCameraInv
  <2> QED
    BY <2>1, <2>2, <2>3, <2>4, <2>5, <2>6, <2>7, PassiveSteps DEF Next, EffectRuns
<1> QED
  BY InitCameraInv, <1>1, IInvHolds, PTL DEF Spec

\* CesiumGlobe.tsx:883: a tour that leads the camera flies alone, and so does
\* the idle rotation, whatever was overtaken, switched or moved before.
THEOREM OneHandOnly == Spec => []OneHandOnTheCamera
<1>1. CameraInv => OneHandOnTheCamera
  <2> SUFFICES ASSUME CameraInv
               PROVE  /\ \A e \in Events : Leading(e) => flight = None /\ ~Spinning
                      /\ Spinning => flight = None
    BY Zenon DEF OneHandOnTheCamera
  <2>1. ASSUME NEW e \in Events, Leading(e) PROVE flight = None /\ ~Spinning
    <3>1. e \in Far /\ current = e /\ tour[e] = "draw" /\ Running(e)
      BY <2>1 DEF Leading, Running
    <3>2. flight = None
      BY <3>1 DEF CameraInv, TourHasCamera
    <3>3. ~idleCam
      BY <3>1, Zenon DEF CameraInv, TourIsBusy
    <3> QED
      BY <3>2, <3>3, Zenon DEF Spinning
  <2>2. Spinning => flight = None
    BY Zenon DEF Spinning, CameraInv, IdleHasCamera
  <2> QED
    BY <2>1, <2>2
<1> QED
  BY <1>1, CameraInvHolds, PTL

-----------------------------------------------------------------------------
(* The camera is given back                                                *)

LEMMA RemoveAtFacts ==
    ASSUME NEW S, NEW s \in Seq(S), NEW i \in DOMAIN s
    PROVE  /\ RemoveAt(s, i) \in Seq(S)
           /\ Len(RemoveAt(s, i)) = Len(s) - 1
           /\ \A j \in DOMAIN RemoveAt(s, i) :
                 LET k == IF j < i THEN j ELSE j + 1
                 IN k \in DOMAIN s \ {i} /\ RemoveAt(s, i)[j] = s[k]
<1> DEFINE s1 == SubSeq(s, 1, i - 1)
           s2 == SubSeq(s, i + 1, Len(s))
<1>1. i \in 1 .. Len(s) /\ Len(s) \in Nat /\ DOMAIN s = 1 .. Len(s) /\ \A j \in 1 .. Len(s) : s[j] \in S
  BY LenProperties, ElementOfSeq
<1>2. /\ s1 \in Seq(S) /\ Len(s1) = i - 1
      /\ \A j \in 1 .. (i - 1) : s1[j] = s[j]
  BY <1>1, SubSeqProperties
<1>3. /\ s2 \in Seq(S) /\ Len(s2) = Len(s) - i
      /\ \A j \in 1 .. (Len(s) - i) : s2[j] = s[i + j]
  <2>1. \A j \in (i + 1) .. Len(s) : s[j] \in S
    BY <1>1
  <2>2. /\ s2 \in Seq(S) /\ Len(s2) = (IF i + 1 <= Len(s) THEN Len(s) - (i + 1) + 1 ELSE 0)
        /\ \A j \in 1 .. (Len(s) - (i + 1) + 1) : s2[j] = s[(i + 1) + j - 1]
    BY <1>1, <2>1, SubSeqProperties
  <2> HIDE DEF s2
  <2>3. Len(s2) = Len(s) - i /\ Len(s) - (i + 1) + 1 = Len(s) - i
    BY <1>1, <2>2
  <2>4. \A j \in 1 .. (Len(s) - i) : (i + 1) + j - 1 = i + j
    BY <1>1
  <2>5. QED
    BY <2>2, <2>3, <2>4
<1> HIDE DEF s1, s2
<1>4. RemoveAt(s, i) = s1 \o s2
  BY DEF RemoveAt, s1, s2
<1>5. /\ s1 \o s2 \in Seq(S) /\ Len(s1 \o s2) = Len(s) - 1
      /\ \A j \in 1 .. (Len(s) - 1) : (s1 \o s2)[j] = IF j < i THEN s1[j] ELSE s2[j - (i - 1)]
  <2>1. /\ s1 \o s2 \in Seq(S) /\ Len(s1 \o s2) = Len(s1) + Len(s2)
        /\ \A j \in 1 .. Len(s1) + Len(s2) : (s1 \o s2)[j] = IF j <= Len(s1) THEN s1[j] ELSE s2[j - Len(s1)]
    BY <1>2, <1>3, ConcatProperties
  <2>2. Len(s1) + Len(s2) = Len(s) - 1 /\ \A j \in Int : j <= Len(s1) <=> j < i
    BY <1>1, <1>2, <1>3
  <2>3. QED
    BY <1>2, <2>1, <2>2
<1>6. DOMAIN (s1 \o s2) = 1 .. (Len(s) - 1)
  BY <1>5, LenProperties
<1>7. ASSUME NEW j \in 1 .. (Len(s) - 1)
      PROVE  LET k == IF j < i THEN j ELSE j + 1
             IN k \in DOMAIN s \ {i} /\ (s1 \o s2)[j] = s[k]
  <2>1. CASE j < i
    BY <1>1, <1>2, <1>5, <2>1
  <2>2. CASE ~(j < i)
    <3>1. j - (i - 1) \in 1 .. (Len(s) - i) /\ i + (j - (i - 1)) = j + 1
      BY <1>1, <2>2
    <3>2. (s1 \o s2)[j] = s[j + 1]
      BY <1>3, <1>5, <2>2, <3>1
    <3>3. QED
      BY <1>1, <2>2, <3>2
  <2>3. QED
    BY <2>1, <2>2
<1>8. QED
  BY <1>4, <1>5, <1>6, <1>7

Once(s) == \A i, j \in DOMAIN s : s[i] = s[j] => i = j

LEMMA RemoveFirstFacts ==
    ASSUME NEW S, NEW s \in Seq(S), Once(s), NEW e
    PROVE  /\ RemoveFirst(s, e) \in Seq(S) /\ Once(RemoveFirst(s, e))
           /\ \A j \in DOMAIN RemoveFirst(s, e) :
                 RemoveFirst(s, e)[j] # e /\ \E k \in DOMAIN s : RemoveFirst(s, e)[j] = s[k]
<1> DEFINE r == RemoveFirst(s, e)
<1>1. DOMAIN s = 1 .. Len(s) /\ Len(s) \in Nat
  OBVIOUS
<1>2. CASE \E i \in 1 .. Len(s) : s[i] = e
  <2>1. PICK i \in 1 .. Len(s) : s[i] = e
    BY <1>2
  <2> DEFINE I == {j \in 1 .. Len(s) : s[j] = e}
  <2>2. I = {i}
    BY <1>1, <2>1 DEF Once
  <2>3. Min({i}) = i
    BY DEF Min
  <2>4. r = RemoveAt(s, i)
    BY <1>2, <2>1, <2>2, <2>3 DEF RemoveFirst, SelectInSeq
  <2> HIDE DEF r
  <2>5. /\ r \in Seq(S)
        /\ \A j \in DOMAIN r :
              LET k == IF j < i THEN j ELSE j + 1 IN k \in DOMAIN s \ {i} /\ r[j] = s[k]
    <3>1. i \in DOMAIN s
      BY <1>1, <2>1
    <3> HIDE DEF I
    <3>2. /\ RemoveAt(s, i) \in Seq(S)
          /\ \A j \in DOMAIN RemoveAt(s, i) :
                LET k == IF j < i THEN j ELSE j + 1
                IN k \in DOMAIN s \ {i} /\ RemoveAt(s, i)[j] = s[k]
      BY <3>1, RemoveAtFacts
    <3>3. QED
      BY <2>4, <3>2
  <2>6. \A j \in DOMAIN r : j \in Nat
    BY <2>5
  <2>7. \A j \in DOMAIN r : r[j] # e /\ \E k \in DOMAIN s : r[j] = s[k]
    BY <1>1, <2>1, <2>5 DEF Once
  <2>8. Once(r)
    <3>1. SUFFICES ASSUME NEW j \in DOMAIN r, NEW l \in DOMAIN r, r[j] = r[l] PROVE j = l
      BY DEF Once
    <3> DEFINE at(n) == IF n < i THEN n ELSE n + 1
    <3>2. /\ at(j) \in DOMAIN s /\ at(l) \in DOMAIN s
          /\ r[j] = s[at(j)] /\ r[l] = s[at(l)]
      BY <2>5
    <3>3. at(j) = at(l)
      <4> HIDE DEF at
      <4> QED BY <3>1, <3>2 DEF Once
    <3>4. QED
      BY <1>1, <2>1, <2>6, <3>3
  <2>9. QED
    BY <2>5, <2>7, <2>8 DEF r
<1>3. CASE ~\E i \in 1 .. Len(s) : s[i] = e
  <2>1. r = s
    BY <1>3 DEF RemoveFirst
  <2> HIDE DEF r
  <2>2. QED
    BY <1>1, <1>3, <2>1 DEF r
<1>4. QED
  BY <1>2, <1>3

\* The events that wait are different ones, none of them has a tour, and the
\* consumer was rendered with them.
QueueWaits ==
    /\ queue \in Seq(Events) /\ Once(queue)
    /\ \A i \in DOMAIN queue : tour[queue[i]] = "none"
    /\ "consume" \in todo => queue = shownQueue

GivenBackInv == Tours /\ QueueWaits /\ CameraGivenBack

LEMMA InitGivenBack == Init => GivenBackInv
<1>1. <<>> \in Seq(Events) /\ Once(<<>>) /\ DOMAIN <<>> = {}
  BY DEF Once
<1> QED BY <1>1, InitCameraInv DEF CameraInv, Init, GivenBackInv, QueueWaits, CameraGivenBack

\* Nobody starts or ends a line, and no event joins the queue.
LEMMA StillGivenBack ==
    ASSUME GivenBackInv,
           UNCHANGED <<queue, tour, locked>>, todo' \subseteq todo, shownQueue' = shownQueue
    PROVE  GivenBackInv'
  BY DEF GivenBackInv, Tours, QueueWaits, CameraGivenBack

LEMMA RenderGivenBack == ASSUME GivenBackInv, NEW b, Render(b) PROVE GivenBackInv'
<1>1. queue' = queue /\ shownQueue' = queue
  BY DEF Render
<1>2. CASE RebuildViewer
  <2>1. tour' = [e \in Events |-> "none"] /\ locked' = FALSE
    BY <1>2 DEF RebuildViewer
  <2>2. \A i \in DOMAIN queue : queue[i] \in Events
    BY DEF GivenBackInv, QueueWaits
  <2>3. QED
    BY <1>1, <2>1, <2>2 DEF GivenBackInv, Tours, Stages, QueueWaits, CameraGivenBack
<1>3. CASE UNCHANGED touring
  BY <1>1, <1>3 DEF GivenBackInv, Tours, QueueWaits, CameraGivenBack, touring
<1>4. QED
  BY <1>2, <1>3 DEF Render

\* A tour goes on that is not the one that has the camera, or gives it back.
LEMMA TourGivenBack ==
    ASSUME GivenBackInv, NEW e \in Events,
           Landed(e) \/ WaitOver(e) \/ LookAt(e) \/ DrawEnds(e) \/ RemoveLine(e)
    PROVE  GivenBackInv'
<1>1. UNCHANGED <<queue, todo, shownQueue>>
  BY DEF Landed, WaitOver, LookAt, DrawEnds, RemoveLine, store, react, shown
<1>2. /\ \/ tour' = tour
         \/ tour[e] # "none" /\ \E s \in Stages : tour' = [tour EXCEPT ![e] = s]
  BY DEF Landed, WaitOver, LookAt, DrawEnds, RemoveLine, Stages
<1>3. Tours /\ Tours'
  BY <1>2 DEF GivenBackInv, Tours
<1>4. QueueWaits'
  <2>1. ASSUME NEW i \in DOMAIN queue PROVE tour'[queue[i]] = "none"
    <3>1. tour[queue[i]] = "none" /\ queue[i] \in Events
      BY DEF GivenBackInv, QueueWaits
    <3>2. QED
      BY <1>2, <1>3, <3>1 DEF Tours
  <2>2. QED
    BY <1>1, <2>1 DEF GivenBackInv, QueueWaits
<1>5. CameraGivenBack'
  <2>1. CASE Landed(e) \/ WaitOver(e) \/ RemoveLine(e)
    <3>1. locked' = locked /\ tour[e] # "draw" /\ \E s \in Stages : tour' = [tour EXCEPT ![e] = s]
      BY <2>1 DEF Landed, WaitOver, RemoveLine, Stages
    <3>2. \A x \in Events : tour[x] = "draw" => tour'[x] = "draw"
      BY <1>3, <3>1 DEF Tours
    <3>3. QED
      BY <3>1, <3>2, EventAssumption DEF GivenBackInv, CameraGivenBack
  <2>2. CASE LookAt(e)
    BY <2>2 DEF LookAt, Leading, CameraGivenBack
  <2>3. CASE DrawEnds(e)
    <3>1. /\ locked' = IF e \in Far THEN FALSE ELSE locked
          /\ \E s \in Stages : tour' = [tour EXCEPT ![e] = s]
      BY <2>3 DEF DrawEnds, Stages
    <3>2. \A x \in Events : x # e => tour'[x] = tour[x]
      BY <1>3, <3>1 DEF Tours
    <3>3. QED
      BY <3>1, <3>2, EventAssumption DEF GivenBackInv, CameraGivenBack
  <2>4. QED
    BY <2>1, <2>2, <2>3
<1>6. QED
  BY <1>3, <1>4, <1>5 DEF GivenBackInv

\* The event that is taken had no tour, so the tour that has the camera is
\* another one and goes on.
LEMMA ConsumeGivenBack == ASSUME GivenBackInv, ConsumeEffect PROVE GivenBackInv'
<1> DEFINE e == Head(shownQueue)
<1>1. "consume" \in todo /\ todo' = todo \ {"consume"} /\ shownQueue' = shownQueue
  BY DEF ConsumeEffect, Turn, shown
<1>2. queue = shownQueue
  BY <1>1 DEF GivenBackInv, QueueWaits
<1>3. CASE UNCHANGED <<touring, queue>>
  BY <1>1, <1>3, StillGivenBack DEF touring
<1>4. CASE /\ Len(shownQueue) # 0 /\ queue' = RemoveFirst(queue, e)
           /\ locked' = locked
           /\ \E s \in Stages : tour' = [tour EXCEPT ![e] = s]
  <2>1. queue \in Seq(Events) /\ Once(queue) /\ 1 \in DOMAIN queue /\ e = queue[1]
    BY <1>2, <1>4 DEF GivenBackInv, QueueWaits
  <2>2. e \in Events /\ tour[e] = "none"
    BY <2>1 DEF GivenBackInv, QueueWaits
  <2> HIDE DEF e
  <2>3. Tours /\ Tours'
    BY <1>4 DEF GivenBackInv, Tours
  <2>4. \A x \in Events \ {e} : tour'[x] = tour[x]
    BY <1>4, <2>3 DEF Tours
  <2>5. /\ queue' \in Seq(Events) /\ Once(queue')
        /\ \A j \in DOMAIN queue' : queue'[j] # e /\ \E k \in DOMAIN queue : queue'[j] = queue[k]
    BY <1>4, <2>1, RemoveFirstFacts
  <2>6. ASSUME NEW j \in DOMAIN queue' PROVE tour'[queue'[j]] = "none"
    <3>1. PICK k \in DOMAIN queue : queue'[j] = queue[k] /\ queue[k] # e
      BY <2>5
    <3>2. queue[k] \in Events /\ tour[queue[k]] = "none"
      BY <2>1 DEF GivenBackInv, QueueWaits
    <3>3. QED
      BY <2>4, <3>1, <3>2
  <2>7. QueueWaits'
    BY <1>1, <2>5, <2>6 DEF QueueWaits, Once
  <2>8. CameraGivenBack'
    BY <1>4, <2>2, <2>4, EventAssumption DEF GivenBackInv, CameraGivenBack
  <2>9. QED
    BY <2>3, <2>7, <2>8 DEF GivenBackInv
<1>5. QED
  BY <1>3, <1>4 DEF ConsumeEffect, StartTour, Stages

LEMMA OpenGivenBack ==
    ASSUME GivenBackInv, NEW e \in Events, NEW placed, OpenConnection(e, placed)
    PROVE  GivenBackInv'
<1> DEFINE q == Append(queue, e)
<1>1. /\ tour[e] = "none" /\ e \notin Range(queue)
      /\ queue' = queue \/ queue' = q \/ (queue' = Tail(q) /\ Len(q) > QueueSize)
      /\ UNCHANGED <<todo, shownQueue, tour, locked>> /\ todo = {}
  BY SettledFacts DEF OpenConnection, react, shown, touring
<1>2. queue \in Seq(Events) /\ Once(queue) /\ \A i \in DOMAIN queue : tour[queue[i]] = "none"
  BY DEF GivenBackInv, QueueWaits
<1>3. /\ q \in Seq(Events) /\ Len(q) = Len(queue) + 1 /\ Len(queue) \in Nat
      /\ \A i \in 1 .. Len(queue) : q[i] = queue[i]
      /\ q[Len(queue) + 1] = e
  BY <1>2
<1>4. \A i \in 1 .. Len(queue) : queue[i] # e
  BY <1>1, <1>2 DEF Range
<1> HIDE DEF q
<1>5. \A i \in DOMAIN q : i \in 1 .. Len(queue) \/ i = Len(queue) + 1
  BY <1>3
<1>6. Once(q) /\ \A i \in DOMAIN q : tour[q[i]] = "none"
  BY <1>1, <1>2, <1>3, <1>4, <1>5 DEF Once
<1>7. /\ Tail(q) \in Seq(Events) /\ Once(Tail(q))
      /\ \A i \in DOMAIN Tail(q) : tour[Tail(q)[i]] = "none"
  <2> DEFINE t == Tail(q)
  <2>1. q # <<>>
    BY <1>3
  <2>2. t \in Seq(Events) /\ Len(t) = Len(q) - 1 /\ \A i \in 1 .. (Len(q) - 1) : t[i] = q[i + 1]
    BY <1>3, <2>1, HeadTailProperties
  <2> HIDE DEF t
  <2>3. \A i \in DOMAIN t : i + 1 \in DOMAIN q /\ t[i] = q[i + 1] /\ i \in Nat
    BY <1>3, <2>2
  <2>4. Once(t) /\ \A i \in DOMAIN t : tour[t[i]] = "none"
    BY <1>6, <2>3 DEF Once
  <2>5. QED
    BY <2>2, <2>4 DEF t
<1>8. queue' \in Seq(Events) /\ Once(queue') /\ \A i \in DOMAIN queue' : tour[queue'[i]] = "none"
  BY <1>1, <1>2, <1>3, <1>6, <1>7
<1>9. QED
  BY <1>1, <1>8 DEF GivenBackInv, Tours, QueueWaits, CameraGivenBack, Once

LEMMA SetModeGivenBack ==
    ASSUME GivenBackInv, NEW m, SetDemoMode(m)
    PROVE  GivenBackInv'
<1>1. queue' = <<>> /\ todo' = {} /\ UNCHANGED <<tour, locked>>
  BY SettledFacts DEF SetDemoMode, react, touring
<1>2. <<>> \in Seq(Events) /\ Once(<<>>) /\ DOMAIN <<>> = {}
  BY DEF Once
<1>3. QueueWaits'
  BY <1>1, <1>2 DEF QueueWaits
<1>4. QED
  BY <1>1, <1>3 DEF GivenBackInv, Tours, CameraGivenBack

LEMMA OtherGivenBack ==
    ASSUME GivenBackInv,
           \/ ModeEffect \/ ServerEffect \/ ActivityEffect \/ IdleEffect
           \/ IdleTimeout \/ OverviewSettles \/ MoveServer \/ Tick \/ UNCHANGED vars
    PROVE  GivenBackInv'
<1>1. CASE ModeEffect \/ ServerEffect \/ ActivityEffect \/ IdleEffect
  BY <1>1, StillGivenBack
     DEF ModeEffect, ServerEffect, ActivityEffect, IdleEffect, Turn, store, shown, touring
<1>2. CASE IdleTimeout \/ OverviewSettles \/ MoveServer \/ Tick
  BY <1>2, StillGivenBack
     DEF IdleTimeout, OverviewSettles, MoveServer, Tick, store, react, shown, touring
<1>3. CASE UNCHANGED vars
  BY <1>3, StillGivenBack DEF vars, store, react, shown, touring
<1>4. QED
  BY <1>1, <1>2, <1>3

LEMMA GivenBackHolds == Spec => []GivenBackInv
<1>1. GivenBackInv /\ [Next]_vars => GivenBackInv'
  <2> SUFFICES ASSUME GivenBackInv, [Next]_vars PROVE GivenBackInv'
    OBVIOUS
  <2>1. ASSUME NEW b \in {busy, shownBusy}, Render(b) PROVE GivenBackInv'
    BY <2>1, RenderGivenBack
  <2>2. ASSUME NEW e \in Events,
               Landed(e) \/ WaitOver(e) \/ LookAt(e) \/ DrawEnds(e) \/ RemoveLine(e)
        PROVE  GivenBackInv'
    BY <2>2, TourGivenBack
  <2>3. ASSUME NEW e \in Events, NEW placed \in BOOLEAN, OpenConnection(e, placed)
        PROVE  GivenBackInv'
    BY <2>3, OpenGivenBack
  <2>4. ASSUME NEW m \in BOOLEAN, SetDemoMode(m) PROVE GivenBackInv'
    BY <2>4, SetModeGivenBack
  <2>5. CASE ConsumeEffect
    BY <2>5, ConsumeGivenBack
  <2>6. CASE \/ ModeEffect \/ ServerEffect \/ ActivityEffect \/ IdleEffect
             \/ IdleTimeout \/ OverviewSettles \/ MoveServer \/ Tick \/ UNCHANGED vars
    BY <2>6, OtherGivenBack
  <2> QED
    BY <2>1, <2>2, <2>3, <2>4, <2>5, <2>6 DEF Next, EffectRuns
<1> QED BY InitGivenBack, <1>1, PTL DEF Spec

\* CesiumGlobe.tsx:1116: the camera is in a local frame only while a tour that
\* took it still draws, whatever overtakes the tour.
THEOREM CameraIsGivenBack == Spec => []CameraGivenBack
<1>1. GivenBackInv => CameraGivenBack
  BY DEF GivenBackInv
<1> QED BY GivenBackHolds, <1>1, PTL

-----------------------------------------------------------------------------
(* The types                                                               *)

\* What is neither among Types nor in a theorem above.
Flags == newServer \in BOOLEAN /\ locked \in BOOLEAN
Queues == queue \in Seq(Events) /\ shownQueue \in Seq(Events)
Camera ==
    /\ current \in Events \cup {None} /\ flight \in Events \cup {None, Overview}
    /\ tour \in [Events -> Stages] /\ lines \subseteq Events
Times ==
    /\ recent \in [IPs -> 0 .. SuppressFor]
    /\ left \in 0 .. IdleAfter /\ since \in 0 .. IdleAfter /\ silence \in 0 .. IdleAfter
Idling == idle \in {"off", "armed", "flight", "spin"} /\ todo \subseteq Effects

LEMMA TypeParts == Types /\ Flags /\ Queues /\ Camera /\ Times /\ Idling => TypeOK
<1> SUFFICES ASSUME Types, Flags, Queues, Camera, Times, Idling PROVE TypeOK
  OBVIOUS
<1>1. /\ mode \in BOOLEAN /\ newSeq \in BOOLEAN /\ newServer \in BOOLEAN
      /\ busy \in BOOLEAN /\ shownMode \in BOOLEAN /\ shownBusy \in BOOLEAN
      /\ locked \in BOOLEAN /\ idleCam \in BOOLEAN
  BY Zenon DEF Types, Flags
<1>2. /\ queue \in Seq(Events) /\ shownQueue \in Seq(Events)
      /\ recent \in [IPs -> 0 .. SuppressFor] /\ todo \subseteq Effects
      /\ current \in Events \cup {None} /\ flight \in Events \cup {None, Overview}
      /\ tour \in [Events -> Stages] /\ lines \subseteq Events
      /\ idle \in {"off", "armed", "flight", "spin"}
      /\ left \in 0 .. IdleAfter /\ since \in 0 .. IdleAfter /\ silence \in 0 .. IdleAfter
  BY DEF Queues, Camera, Times, Idling
<1> QED BY <1>1, <1>2, Zenon DEF TypeOK

LEMMA FlagsStep == Flags /\ [Next]_vars => Flags'
<1> SUFFICES ASSUME Flags, [Next]_vars PROVE Flags'
  OBVIOUS
<1> USE DEF Flags, store, shown, react, touring, idling
<1>1. ASSUME NEW b, Render(b) PROVE Flags'
  BY <1>1, Zenon DEF Render, RebuildViewer
<1>2. CASE EffectRuns
  BY <1>2, Zenon DEF EffectRuns, ModeEffect, ServerEffect, ActivityEffect, ConsumeEffect, IdleEffect, StartTour
<1>3. ASSUME NEW e \in Events,
             \/ Landed(e) \/ WaitOver(e) \/ LookAt(e) \/ DrawEnds(e) \/ RemoveLine(e)
             \/ \E placed \in BOOLEAN : OpenConnection(e, placed)
      PROVE  Flags'
  BY <1>3, Zenon DEF Landed, WaitOver, LookAt, DrawEnds, RemoveLine, OpenConnection
<1>4. CASE IdleTimeout \/ OverviewSettles \/ (\E m \in BOOLEAN : SetDemoMode(m)) \/ MoveServer \/ Tick
  BY <1>4, Zenon DEF IdleTimeout, OverviewSettles, SetDemoMode, MoveServer, Tick
<1>5. CASE UNCHANGED vars
  BY <1>5, Zenon DEF vars
<1> QED BY <1>1, <1>2, <1>3, <1>4, <1>5 DEF Next

LEMMA RestStep ==
    Numbers /\ Queues /\ QueueWaits' /\ Camera /\ Times /\ Idling /\ [Next]_vars
        => Queues' /\ Camera' /\ Times' /\ Idling'
<1> SUFFICES ASSUME Numbers, Queues, QueueWaits', Camera, Times, Idling, [Next]_vars
             PROVE  Queues' /\ Camera' /\ Times' /\ Idling'
  OBVIOUS
<1> USE EventAssumption, TimeAssumption
<1> USE DEF store, shown, react, touring, idling
<1>0. queue' \in Seq(Events)
  BY DEF QueueWaits
<1>1. ASSUME NEW b \in {busy, shownBusy}, Render(b) PROVE Queues' /\ Camera' /\ Times' /\ Idling'
  <2>1. Queues'
    BY <1>0, <1>1 DEF Render, Queues
  <2>2. Camera'
    BY <1>1 DEF Render, RebuildViewer, Camera, Stages
  <2>3. Times' /\ Idling'
    BY <1>1 DEF Render, Times, Idling
  <2> QED BY <2>1, <2>2, <2>3
<1>2. CASE ConsumeEffect
  <2>1. Queues' /\ Times' /\ Idling'
    BY <1>0, <1>2 DEF ConsumeEffect, Turn, Queues, Times, Idling
  <2>2. CASE Len(shownQueue) # 0 /\ StartTour(Head(shownQueue))
    <3>1. Head(shownQueue) \in Events
      BY <2>2 DEF Queues
    <3> QED BY <2>1, <2>2, <3>1 DEF StartTour, Camera, Stages
  <2>3. CASE UNCHANGED touring
    BY <2>1, <2>3 DEF Camera
  <2> QED BY <1>2, <2>2, <2>3 DEF ConsumeEffect
<1>3. CASE ModeEffect \/ ServerEffect \/ ActivityEffect \/ IdleEffect
  <2>1. Queues'
    BY <1>0, <1>3 DEF ModeEffect, ServerEffect, ActivityEffect, IdleEffect, Queues
  <2>2. Camera'
    BY <1>3 DEF ModeEffect, ServerEffect, ActivityEffect, IdleEffect, Camera
  <2>3. Times' /\ Idling'
    BY <1>3 DEF ModeEffect, ServerEffect, ActivityEffect, IdleEffect, Turn, Times, Idling
  <2> QED BY <2>1, <2>2, <2>3
<1>4. ASSUME NEW e \in Events,
             Landed(e) \/ WaitOver(e) \/ LookAt(e) \/ DrawEnds(e) \/ RemoveLine(e)
      PROVE  Queues' /\ Camera' /\ Times' /\ Idling'
  <2>1. Queues' /\ Times' /\ Idling'
    BY <1>0, <1>4 DEF Landed, WaitOver, LookAt, DrawEnds, RemoveLine, Queues, Times, Idling
  <2>2. Camera'
    BY <1>4 DEF Landed, WaitOver, LookAt, DrawEnds, RemoveLine, Camera, Stages
  <2> QED BY <2>1, <2>2
<1>5. ASSUME NEW e \in Events, NEW placed \in BOOLEAN, OpenConnection(e, placed)
      PROVE  Queues' /\ Camera' /\ Times' /\ Idling'
  <2>1. Queues' /\ Camera' /\ Idling'
    BY <1>0, <1>5 DEF OpenConnection, Queues, Camera, Idling
  <2>2. recent' \in [IPs -> 0 .. SuppressFor]
    <3>1. 0 \in 0 .. SuppressFor /\ recent \in [IPs -> 0 .. SuppressFor]
      BY DEF Times
    <3>2. recent' = recent \/ recent' = [recent EXCEPT ![IpOf[e]] = 0]
      BY <1>5 DEF OpenConnection
    <3> QED BY <3>1, <3>2
  <2>3. Times'
    BY <1>5, <2>2 DEF OpenConnection, Times
  <2> QED BY <2>1, <2>3
<1>6. CASE IdleTimeout \/ OverviewSettles \/ MoveServer
  BY <1>0, <1>6 DEF IdleTimeout, OverviewSettles, MoveServer, Queues, Camera, Times, Idling
<1>7. CASE Tick
  <2>1. Queues' /\ Camera' /\ Idling'
    BY <1>0, <1>7 DEF Tick, Queues, Camera, Idling
  <2>2. Times'
    BY <1>7 DEF Tick, Times
  <2> QED BY <2>1, <2>2
<1>8. ASSUME NEW m \in BOOLEAN, SetDemoMode(m) PROVE Queues' /\ Camera' /\ Times' /\ Idling'
  BY <1>0, <1>8 DEF SetDemoMode, Queues, Camera, Times, Idling
<1>9. CASE UNCHANGED vars
  BY <1>9 DEF vars, Queues, Camera, Times, Idling
<1> QED BY <1>1, <1>2, <1>3, <1>4, <1>5, <1>6, <1>7, <1>8, <1>9 DEF Next, EffectRuns

\* Every reachable state of the demonstration mode is well-typed: timers and
\* ages stay within what they count to, whatever is rendered late.
THEOREM TypeCorrect == Spec => []TypeOK
<1>1. Init => Flags /\ Queues /\ Camera /\ Times /\ Idling
  <2> SUFFICES ASSUME Init PROVE Flags /\ Queues /\ Camera /\ Times /\ Idling
    OBVIOUS
  <2>1. Flags
    BY Zenon DEF Init, Flags
  <2>2. Queues /\ Camera /\ Times /\ Idling
    BY TimeAssumption DEF Init, Queues, Camera, Times, Idling, Stages
  <2> QED BY <2>1, <2>2
<1>2. Spec => []QueueWaits
  <2>1. GivenBackInv => QueueWaits
    BY DEF GivenBackInv
  <2> QED BY <2>1, GivenBackHolds, PTL
<1>3. IInv => Types /\ Numbers
  BY DEF IInv
<1>4. Types /\ Flags /\ Queues /\ Camera /\ Times /\ Idling => TypeOK
  BY TypeParts
<1> QED BY <1>1, <1>2, <1>3, <1>4, FlagsStep, RestStep, IInvHolds, PTL DEF Spec

=============================================================================
