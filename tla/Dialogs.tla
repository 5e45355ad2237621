------------------------------ MODULE Dialogs -------------------------------
(***************************************************************************)
(* The settings dialog and the script editor as pages/Dashboard.tsx shows  *)
(* them: one dialog at a time, none without the user interface.  Calls     *)
(* outlive the dialog that made them.                                      *)
(***************************************************************************)
EXTENDS SettingsDialog, LuaEditor

CONSTANT Visits   \* bound: the dialogs that one visit opens, any of these sets

VARIABLES
    visit,     \* those of this one
    modal,     \* the dialog that is open
    hidden     \* hideUi

dialogVars == <<settingsVars, luaVars, visit, modal, hidden>>

DialogsInit ==
    /\ SettingsInit /\ LuaInit
    /\ visit \in Visits
    /\ modal = "none" /\ hidden = FALSE

OpenDialog ==
    /\ ~hidden /\ modal = "none"
    /\ modal' \in visit
    /\ \/ modal' = "settings" /\ FetchSettings
       \/ modal' = "lua" /\ UNCHANGED settingsVars
    /\ UNCHANGED <<luaVars, visit, hidden>>

\* setModal(null): the editor forgets what it holds when it is closed.
Close ==
    /\ modal' = "none"
    /\ IF modal = "lua" THEN Clear ELSE UNCHANGED luaVars

CloseDialog ==
    /\ modal # "none"
    /\ Close
    /\ UNCHANGED <<settingsVars, visit, hidden>>

\* hashchange without and with the user interface; an editor that is mounted
\* closed forgets what it holds.
Hide ==
    /\ ~hidden
    /\ hidden' = TRUE /\ modal' = "none"
    /\ Unmount
    /\ UNCHANGED <<luaVars, visit>>

Show ==
    /\ hidden
    /\ hidden' = FALSE
    /\ Clear
    /\ UNCHANGED <<settingsVars, visit, modal>>

InSettings ==
    /\ modal = "settings"
    /\ UpdateField \/ DetectLocation \/ \E close \in BOOLEAN : HandleSave(close)
    /\ UNCHANGED <<luaVars, visit, modal, hidden>>

\* Save and close: the answer closes whatever dialog is open by then.
SaveAndClose(i) ==
    /\ calls[i].close /\ calls[i].ok
    /\ SaveAnswered(i)
    /\ Close
    /\ UNCHANGED <<visit, hidden>>

SettingsAnswer(i) ==
    /\ \/ Served(i) \/ FetchAnswered(i) \/ DetectAnswered(i) \/ CallFails(i)
       \/ ~(calls[i].close /\ calls[i].ok) /\ SaveAnswered(i)
    /\ UNCHANGED <<luaVars, visit, modal, hidden>>

InLua ==
    /\ modal = "lua"
    /\ \/ \E f \in Files : HandleOpen(f) \/ HandleCreate(f) \/ HandleDelete(f)
       \/ \E t \in Texts : SetContent(t)
       \/ SaveFile
    /\ UNCHANGED <<settingsVars, visit, modal, hidden>>

LuaAnswer(i) ==
    /\ \/ ServeScript(i) \/ OpenAnswered(i) \/ CreateAnswered(i)
       \/ SaveFileAnswered(i) \/ DeleteAnswered(i) \/ ScriptCallFails(i)
    /\ UNCHANGED <<settingsVars, visit, modal, hidden>>

DialogsNext ==
    \/ OpenDialog \/ CloseDialog \/ Hide \/ Show
    \/ InSettings \/ InLua
    \/ \E i \in DOMAIN calls : SaveAndClose(i) \/ SettingsAnswer(i)
    \/ \E i \in DOMAIN scriptCalls : LuaAnswer(i)

DialogsSpec == DialogsInit /\ [][DialogsNext]_dialogVars

-----------------------------------------------------------------------------
(* What the comments say and the code does not do                          *)

\* LuaModal.tsx:47: unsaved text is given up only after a question: what
\* closes the dialog is its own button.
UnsavedTextIsAskedFor ==
    [][modal = "lua" /\ isDirty /\ modal' # "lua" => CloseDialog]_dialogVars
=============================================================================
