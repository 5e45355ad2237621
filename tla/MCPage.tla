------------------------------- MODULE MCPage -------------------------------
(***************************************************************************)
(* The dialogs and the base layer of pages/Dashboard.tsx for TLC.  The     *)
(* hash and a saved token reach both, but neither asks what the other      *)
(* holds.  So a visit that opens a dialog leaves the base layer as it      *)
(* began, and only one that opens none is about the layers; a dialog that  *)
(* is not opened keeps its part of the server as it is.                    *)
(***************************************************************************)
EXTENDS BaseLayer, Dialogs

CONSTANTS dark, osm, esri, ion, none, plugin, iptables, here, there, china, cleared,
          f1, f2, t1, t2, blank

\* A write that fails leaves nothing or, when it is only the close that fails,
\* everything.
Leftovers == [t \in Texts |-> {blank, t}]

\* Each file is created with a text of its own.
Templates == [f \in Files |-> IF f = f1 THEN t1 ELSE t2]

PageInit ==
    /\ BaseInit /\ DialogsInit
    /\ visit # {} => stored = dark /\ picked = none /\ override = none
    /\ "settings" \notin visit => config = [mode |-> plugin, place |-> here, country |-> china]
    /\ "lua" \notin visit => disk = [f \in Files |-> Nothing]

PageNext ==
    \/ visit = {} /\ BaseNext /\ UNCHANGED dialogVars
    \/ visit # {} /\ DialogsNext /\ UNCHANGED baseVars

PageSpec == PageInit /\ [][PageNext]_<<baseVars, dialogVars>>
=============================================================================
