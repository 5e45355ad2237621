----------------------------- MODULE BaseLayer ------------------------------
(***************************************************************************)
(* The base layer of the globe: the type chosen in the picker              *)
(* (components/Globe/ImageryPicker.tsx), kept in the browser's storage and *)
(* handed on by an event, or the one the hash of the address asks for      *)
(* (utils/presentationParams.ts, pages/Dashboard.tsx), and the layers that *)
(* components/Globe/CesiumGlobe.tsx puts on the Viewer, some of them only  *)
(* when a service has answered.                                            *)
(***************************************************************************)
EXTENDS Integers, Sequences, SequencesExt

CONSTANTS
    Types,       \* base layers
    Dark,        \* the one without a layer
    Remote,      \* those whose provider is loaded first: Esri and Ion
    NoType,      \* no or an unknown type in the hash
    MaxLoads     \* bound: loads under way of one type

ASSUME TypesAssumption ==
    /\ Dark \in Types /\ Remote \subseteq Types \ {Dark} /\ NoType \notin Types
    /\ MaxLoads \in Nat \ {0}

VARIABLES
    stored,    \* localStorage frp_pv_imagery_type
    picked,    \* current of the picker, NoType while it is not mounted
    selected,  \* selectedImageryType of the globe
    override,  \* the type of the hash
    applied,   \* imageryType the effect last ran with
    due,       \* another token since then
    layers,    \* imageryLayers, the last on top
    loads,     \* answers to come of each type
    gone       \* history: the layer that was applied failed to load, or went
               \* with its Viewer

choice == <<stored, picked, selected, override>>
baseVars == <<choice, applied, due, layers, loads, gone>>

imageryType == IF override # NoType THEN override ELSE selected

BaseTypeOK ==
    /\ stored \in Types /\ selected \in Types
    /\ picked \in Types \cup {NoType} /\ override \in Types \cup {NoType}
    /\ applied \in Types \cup {NoType} /\ due \in BOOLEAN /\ gone \in BOOLEAN
    /\ layers \in Seq(Types)
    /\ loads \in [Types -> 0..MaxLoads]

BaseInit ==
    /\ stored \in Types /\ selected = stored
    /\ picked \in {stored, NoType}
    /\ override \in Types \cup {NoType}
    /\ applied = NoType   \* the effect has yet to run
    /\ due = TRUE /\ gone = FALSE
    /\ layers = <<>> /\ loads = [t \in Types |-> 0]

-----------------------------------------------------------------------------
(* Choosing                                                                *)

\* Bug: the globe is not told.
SelectSilently(t) ==
    /\ picked # NoType /\ t # picked
    /\ stored' = t /\ picked' = t
    /\ UNCHANGED <<selected, override, applied, due, layers, loads, gone>>

\* A click in the picker: the storage, the picker's own state and, by the
\* event, the globe's.
Select(t) ==
    /\ picked # NoType /\ t # picked
    /\ stored' = t /\ picked' = t /\ selected' = t
    /\ UNCHANGED <<override, applied, due, layers, loads, gone>>

\* hashchange: the type of the hash, if it is one; without the user interface
\* there is no picker, and with it again a new one that reads the storage.
ApplyHash(t, hideUi) ==
    /\ override' = t
    /\ picked' = IF hideUi THEN NoType ELSE IF picked = NoType THEN stored ELSE picked
    /\ UNCHANGED <<stored, selected, applied, due, layers, loads, gone>>

\* The settings dialog patches the Ion token into the configuration.
NewToken ==
    /\ due' = TRUE
    /\ UNCHANGED <<choice, applied, layers, loads, gone>>

-----------------------------------------------------------------------------
(* The globe                                                               *)

Put(onto) ==
    /\ due \/ imageryType # applied
    /\ applied' = imageryType /\ due' = FALSE /\ gone' = FALSE
    /\ IF imageryType \in Remote
       THEN /\ loads[imageryType] < MaxLoads
            /\ loads' = [loads EXCEPT ![imageryType] = @ + 1]
            /\ layers' = onto
       ELSE /\ layers' = IF imageryType = Dark THEN onto ELSE Append(onto, imageryType)
            /\ UNCHANGED loads
    /\ UNCHANGED choice

\* Bug: the layers of before stay under the new one.
PutOnTop == Put(SelectSeq(layers, LAMBDA t : t \notin Remote))

\* The imagery effect: all layers go, then the new one is added, or asked for.
SwitchLayer == Put(<<>>)

\* Bug: only the first answer is taken.
LoadedFirst(t) ==
    /\ loads[t] > 0
    /\ loads' = [u \in Types |-> 0]
    /\ layers' = Append(layers, t)
    /\ UNCHANGED <<choice, applied, due, gone>>

\* The provider is there and goes on top, whatever was chosen meanwhile and
\* whichever Viewer asked for it.
Loaded(t) ==
    /\ loads[t] > 0
    /\ loads' = [loads EXCEPT ![t] = @ - 1]
    /\ layers' = Append(layers, t)
    /\ UNCHANGED <<choice, applied, due, gone>>

LoadFails(t) ==
    /\ loads[t] > 0
    /\ loads' = [loads EXCEPT ![t] = @ - 1]
    /\ gone' = (gone \/ t = applied)
    /\ UNCHANGED <<choice, applied, due, layers>>

\* Another position of the server: a new Viewer, without a layer.  The
\* imagery effect does not depend on the position.
RebuildViewer ==
    /\ applied # NoType
    /\ layers' = <<>> /\ gone' = TRUE
    /\ UNCHANGED <<choice, applied, due, loads>>

BaseNext ==
    \/ \E t \in Types : Select(t)
    \/ \E t \in Types \cup {NoType}, hideUi \in BOOLEAN : ApplyHash(t, hideUi)
    \/ NewToken
    \/ SwitchLayer
    \/ \E t \in Remote : Loaded(t) \/ LoadFails(t)
    \/ RebuildViewer

BaseSpec == BaseInit /\ [][BaseNext]_baseVars

-----------------------------------------------------------------------------
(* What the base layer promises                                            *)

\* ImageryPicker.tsx:175, CesiumGlobe.tsx:128-137: picker, globe and storage
\* each keep the choice for themselves, and agree through every hash that
\* takes the picker away and brings it back.
PickerAgrees == selected = stored /\ picked \in {selected, NoType}

\* CesiumGlobe.tsx:288-440: with every answer of its own there, the layer that
\* was applied is on the globe, unless it failed or the Viewer is another, and
\* no local layer of an earlier choice is.
LayersFollowTheChoice ==
    /\ applied # NoType /\ ~gone /\ applied # Dark /\ loads[applied] = 0
           => \E i \in DOMAIN layers : layers[i] = applied
    /\ \A i \in DOMAIN layers : layers[i] \notin Remote => layers[i] = applied

-----------------------------------------------------------------------------
(* What the documentation says and the code does not do                    *)

\* README.md:414: a changed hash takes effect at once.  A late answer of an
\* earlier type must not cover the layer of the present one.
ChoiceIsOnTop ==
    layers # <<>> /\ ~gone /\ loads[applied] = 0 => layers[Len(layers)] = applied
=============================================================================
