----------------------------- MODULE LuaEditor ------------------------------
(***************************************************************************)
(* The editor of the Lua scripts: stores/luaStore.ts,                      *)
(* components/Modal/LuaModal.tsx and the routes of cmd/server/main.go that *)
(* read and write the files.  The list of the files is left out: a file    *)
(* that is gone may still be in it, so any file may be opened.  So is the  *)
(* flag that disables the save buttons, which Ctrl+S does not ask.         *)
(***************************************************************************)
EXTENDS Integers, Sequences, SequencesExt

CONSTANTS
    Files,
    Texts,
    Blank,           \* the text of an empty file
    CutTo,           \* what a write of each text may leave when it fails
    TemplateOf,      \* the text each file is created with
    Nothing,         \* no file, no text
    MaxScriptCalls   \* bound: calls under way

ASSUME EditorAssumption ==
    /\ TemplateOf \in [Files -> Texts] /\ Nothing \notin Files \cup Texts
    /\ Blank \in Texts /\ CutTo \in [Texts -> SUBSET Texts]
    /\ MaxScriptCalls \in Nat

VARIABLES
    disk,            \* text of each file, Nothing if there is none
    current, content, original,
    scriptCalls,     \* calls under way, each with its answer once it is served
    crossed          \* history: a call met another, or failed half-way

luaVars == <<disk, current, content, original, scriptCalls, crossed>>

LuaInit ==
    /\ disk \in [Files -> Texts \cup {Nothing}]
    /\ current = Nothing /\ content = Nothing /\ original = Nothing
    /\ scriptCalls = <<>>
    /\ crossed = FALSE

isDirty == content # original

Ask(kind, file, text) ==
    /\ Len(scriptCalls) < MaxScriptCalls
    /\ scriptCalls' = Append(scriptCalls, [kind |-> kind, file |-> file, text |-> text,
                                           served |-> FALSE, ok |-> FALSE, fd |-> "none"])
    /\ crossed' = (crossed \/ scriptCalls # <<>>)
    /\ UNCHANGED <<disk, current, content, original>>

-----------------------------------------------------------------------------
(* The dialog                                                              *)

\* With unsaved text the dialog asks first, and is told to go on.
HandleOpen(f) == Ask("open", f, Nothing)

\* handleCreate opens the file, without asking, and puts the template into
\* the editor when openFile is through, found or not.
HandleCreate(f) == Ask("create", f, Nothing)

HandleDelete(f) == Ask("delete", f, Nothing)

SetContent(t) ==
    /\ current # Nothing /\ t # content
    /\ content' = t
    /\ UNCHANGED <<disk, current, original, scriptCalls, crossed>>

SaveFile == current # Nothing /\ Ask("save", current, content)

Clear ==
    /\ current' = Nothing /\ content' = Nothing /\ original' = Nothing
    /\ UNCHANGED <<disk, scriptCalls, crossed>>

-----------------------------------------------------------------------------
(* The server                                                              *)

Waiting(i, kinds) ==
    /\ scriptCalls[i].kind \in kinds /\ ~scriptCalls[i].served
    /\ UNCHANGED <<current, content, original>>

Reply(i, ok) == scriptCalls' = [scriptCalls EXCEPT ![i].served = TRUE, ![i].ok = ok]

Found(i) == disk[scriptCalls[i].file] # Nothing

\* A bad name, no such file, a file that cannot be opened, read or removed.
RefuseScript(i) ==
    /\ Waiting(i, {"open", "create", "delete", "save"})
    /\ scriptCalls[i].fd = "none"
    /\ Reply(i, FALSE)
    /\ UNCHANGED <<disk, crossed>>

GetScript(i) ==
    /\ Waiting(i, {"open", "create"}) /\ Found(i)
    /\ scriptCalls' = [scriptCalls EXCEPT ![i].served = TRUE, ![i].ok = TRUE,
                                         ![i].text = disk[scriptCalls[i].file]]
    /\ UNCHANGED <<disk, crossed>>

\* os.WriteFile empties the file, or creates it, before it writes.
TruncateScript(i) ==
    /\ Waiting(i, {"save"}) /\ scriptCalls[i].fd = "none"
    /\ scriptCalls' = [scriptCalls EXCEPT ![i].fd = "file"]
    /\ disk' = [disk EXCEPT ![scriptCalls[i].file] = Blank]
    /\ UNCHANGED crossed

\* A text that another call wrote in between is written over.
Leaves(call, ok) ==
    IF disk[call.file] # Blank THEN Texts ELSE IF ok THEN {call.text} ELSE CutTo[call.text]

WriteScript(i) ==
    LET call == scriptCalls[i] IN
    /\ Waiting(i, {"save"}) /\ call.fd # "none"
    /\ \E ok \in BOOLEAN :
          /\ Reply(i, ok)
          /\ crossed' = (crossed \/ ~ok)
          /\ IF call.fd = "gone" THEN UNCHANGED disk
             ELSE \E text \in Leaves(call, ok) : disk' = [disk EXCEPT ![call.file] = text]

\* Who has the file open writes to one that has no name any more.
DeleteScript(i) ==
    LET file == scriptCalls[i].file IN
    /\ Waiting(i, {"delete"}) /\ Found(i)
    /\ scriptCalls' = [j \in DOMAIN scriptCalls |->
           IF j = i THEN [scriptCalls[j] EXCEPT !.served = TRUE, !.ok = TRUE]
           ELSE IF scriptCalls[j].file = file /\ scriptCalls[j].fd = "file"
           THEN [scriptCalls[j] EXCEPT !.fd = "gone"] ELSE scriptCalls[j]]
    /\ disk' = [disk EXCEPT ![file] = Nothing]
    /\ UNCHANGED crossed

ServeScript(i) ==
    RefuseScript(i) \/ GetScript(i) \/ TruncateScript(i) \/ WriteScript(i) \/ DeleteScript(i)

-----------------------------------------------------------------------------
(* Its answers                                                             *)

Told(i, kind) ==
    /\ scriptCalls[i].kind = kind /\ scriptCalls[i].served
    /\ scriptCalls' = RemoveAt(scriptCalls, i)
    /\ UNCHANGED <<disk, crossed>>

OpenAnswered(i) ==
    /\ Told(i, "open")
    /\ IF scriptCalls[i].ok
       THEN /\ current' = scriptCalls[i].file
            /\ content' = scriptCalls[i].text /\ original' = scriptCalls[i].text
       ELSE UNCHANGED <<current, content, original>>

CreateAnswered(i) ==
    /\ Told(i, "create")
    /\ content' = TemplateOf[scriptCalls[i].file]
    /\ IF scriptCalls[i].ok
       THEN current' = scriptCalls[i].file /\ original' = scriptCalls[i].text
       ELSE UNCHANGED <<current, original>>

\* Bug: what is in the editor by now is taken for what was saved.
SaveAnsweredLate(i) ==
    /\ Told(i, "save")
    /\ original' = IF scriptCalls[i].ok THEN content ELSE original
    /\ UNCHANGED <<current, content>>

\* The text of the call is the original now, whichever file is open.
SaveFileAnswered(i) ==
    /\ Told(i, "save")
    /\ original' = IF scriptCalls[i].ok THEN scriptCalls[i].text ELSE original
    /\ UNCHANGED <<current, content>>

DeleteAnswered(i) ==
    /\ Told(i, "delete")
    /\ IF scriptCalls[i].ok /\ current = scriptCalls[i].file
       THEN current' = Nothing /\ content' = Nothing /\ original' = Nothing
       ELSE UNCHANGED <<current, content, original>>

\* The answer is lost, or the server ends before it answers; a creation goes
\* on with its template.
ScriptCallFails(i) ==
    /\ scriptCalls' = RemoveAt(scriptCalls, i)
    /\ content' = IF scriptCalls[i].kind = "create" THEN TemplateOf[scriptCalls[i].file] ELSE content
    /\ crossed' = TRUE
    /\ UNCHANGED <<disk, current, original>>

-----------------------------------------------------------------------------
(* What the editor promises                                                *)

\* luaStore.ts:21: without the mark of unsaved changes the text of the editor
\* is the text of the file, whatever is typed while a call is under way and
\* whatever the server refuses, unless two calls crossed or one failed
\* half-way: a write that fails leaves the file empty or cut, and the mark is
\* where it was.
CleanMeansSaved ==
    ~crossed /\ scriptCalls = <<>> /\ current # Nothing /\ ~isDirty => disk[current] = content

-----------------------------------------------------------------------------
(* What a comment says and the code does not do                            *)

\* LuaModal.tsx:62: a file that does not exist is created with its template, so
\* the editor shows it when openFile is through.
NewFileIsShown ==
    [][\A i \in DOMAIN scriptCalls : CreateAnswered(i) => current' = scriptCalls[i].file]_luaVars
=============================================================================
