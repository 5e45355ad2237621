--------------------------- MODULE SettingsDialog ---------------------------
(***************************************************************************)
(* The settings dialog (components/Modal/SettingsModal.tsx), the           *)
(* configuration the console works with (stores/settingsStore.ts) and what *)
(* the server keeps (internal/handlers/api.go).  Of the settings the       *)
(* firewall mode stands for those a save sends and may take back, the      *)
(* place of the server for the one that a detection saves as well, the     *)
(* home country for those that config.go gives a default.                  *)
(***************************************************************************)
EXTENDS Integers, Sequences, SequencesExt

CONSTANTS
    Modes,       \* firewall modes
    Kernel,      \* the one that needs iptables
    Places,      \* positions of the server
    Countries,   \* what may be in the field of the home country
    Cleared,     \* nothing in it
    Home,        \* its default
    NoForm,      \* nothing loaded yet
    MaxCalls     \* bound: calls under way


VARIABLES
    saved,     \* settings the server keeps
    config,    \* settings in the store
    form,      \* settings of the dialog
    loading, detecting,
    calls,     \* calls under way, each with its answer once it is served
    apart      \* history: a save or detection failed, or met another

settingsVars == <<saved, config, form, loading, detecting, calls, apart>>

Settings == [mode : Modes, place : Places, country : Countries]

ASSUME DialogAssumption ==
    /\ Kernel \in Modes /\ NoForm \notin Settings /\ MaxCalls \in Nat
    /\ Home \in Countries /\ Home # Cleared

\* Every update of the configuration ends with it.
applyDefaults(s) == IF s.country = Cleared THEN [s EXCEPT !.country = Home] ELSE s

SettingsInit ==
    /\ saved \in {applyDefaults(s) : s \in Settings} /\ config = saved
    /\ form = NoForm
    /\ loading = FALSE /\ detecting = FALSE
    /\ calls = <<>>
    /\ apart = FALSE

\* Whether the dialog that made the call is still mounted is kept with it.
Changes(kind) == kind # "fetch"
Pending == \E i \in DOMAIN calls : Changes(calls[i].kind)

Send(kind, body, close) ==
    /\ Len(calls) < MaxCalls
    /\ calls' = Append(calls, [kind |-> kind, body |-> body, close |-> close,
                               served |-> FALSE, ok |-> FALSE, answer |-> body, mine |-> TRUE])
    /\ apart' = (apart \/ (Changes(kind) /\ Pending))

-----------------------------------------------------------------------------
(* The dialog                                                              *)

\* The effect of opening.
FetchSettings ==
    /\ Send("fetch", NoForm, FALSE)
    /\ UNCHANGED <<saved, config, form, loading, detecting>>

UpdateField ==
    /\ form # NoForm
    /\ form' \in Settings \ {form}
    /\ UNCHANGED <<saved, config, loading, detecting, calls, apart>>

\* Both buttons are disabled while a save or a detection is under way.
HandleSave(close) ==
    /\ form # NoForm /\ ~loading /\ ~detecting
    /\ loading' = TRUE
    /\ Send("save", form, close)
    /\ UNCHANGED <<saved, config, form, detecting>>

\* Its button knows nothing of saves.
DetectLocation ==
    /\ form # NoForm /\ ~detecting
    /\ detecting' = TRUE
    /\ Send("detect", NoForm, FALSE)
    /\ UNCHANGED <<saved, config, form, loading>>

\* Without the user interface there is no dialog; the next one is new, and
\* the calls of this one find it gone.
Unmount ==
    /\ form' = NoForm /\ loading' = FALSE /\ detecting' = FALSE
    /\ calls' = [i \in DOMAIN calls |-> [calls[i] EXCEPT !.mine = FALSE]]
    /\ UNCHANGED <<saved, config, apart>>

-----------------------------------------------------------------------------
(* The server                                                              *)

Serve(i, ok, answer) ==
    /\ ~calls[i].served
    /\ calls' = [calls EXCEPT ![i].served = TRUE, ![i].ok = ok, ![i].answer = answer]
    /\ UNCHANGED <<config, form, loading, detecting>>

GetSettings(i) ==
    /\ calls[i].kind = "fetch"
    /\ Serve(i, TRUE, saved)
    /\ UNCHANGED <<saved, apart>>

\* Refused before anything is saved, saved, or saved with the mode of before
\* when iptables does not follow.
UpdateSettings(i) ==
    /\ calls[i].kind = "save"
    /\ \/ /\ Serve(i, FALSE, NoForm) /\ UNCHANGED <<saved, apart>>
       \/ /\ Serve(i, TRUE, NoForm) /\ saved' = applyDefaults(calls[i].body) /\ UNCHANGED apart
       \/ /\ Kernel \in {saved.mode, calls[i].body.mode}
          /\ Serve(i, FALSE, NoForm)
          /\ saved' = [applyDefaults(calls[i].body) EXCEPT !.mode = saved.mode]
          /\ apart' = TRUE

DetectServerLocation(i) ==
    /\ calls[i].kind = "detect"
    /\ \/ /\ Serve(i, FALSE, NoForm) /\ UNCHANGED saved
       \/ \E p \in Places : /\ saved' = applyDefaults([saved EXCEPT !.place = p])
                            /\ Serve(i, TRUE, saved')
    /\ UNCHANGED apart

-----------------------------------------------------------------------------
(* Its answers                                                             *)

Answered(i) == calls[i].served /\ calls' = RemoveAt(calls, i)

FetchAnswered(i) ==
    /\ calls[i].kind = "fetch" /\ Answered(i)
    /\ form' = IF calls[i].mine THEN calls[i].answer ELSE form
    /\ UNCHANGED <<saved, config, loading, detecting, apart>>

\* Bug: what is in the dialog by now is taken for what was saved.
SaveAnsweredFromForm(i) ==
    /\ calls[i].kind = "save" /\ Answered(i)
    /\ config' = IF calls[i].ok /\ form # NoForm THEN form ELSE config
    /\ loading' = (loading /\ ~calls[i].mine)
    /\ UNCHANGED <<saved, form, detecting, apart>>

\* The settings of the click, not those of now, are patched.
SaveAnswered(i) ==
    /\ calls[i].kind = "save" /\ Answered(i)
    /\ config' = IF calls[i].ok THEN calls[i].body ELSE config
    /\ loading' = (loading /\ ~calls[i].mine)
    /\ UNCHANGED <<saved, form, detecting, apart>>

DetectAnswered(i) ==
    /\ calls[i].kind = "detect" /\ Answered(i)
    /\ LET place == calls[i].answer.place IN
       /\ config' = IF calls[i].ok THEN [config EXCEPT !.place = place] ELSE config
       /\ form' = IF calls[i].ok /\ calls[i].mine /\ form # NoForm
                  THEN [form EXCEPT !.place = place] ELSE form
    /\ detecting' = (detecting /\ ~calls[i].mine)
    /\ UNCHANGED <<saved, loading, apart>>

\* A network error, before or after the server has done its part.  A session
\* that has ended leaves an answer without data.
CallFails(i) ==
    /\ calls' = RemoveAt(calls, i)
    /\ form' \in {form} \cup IF calls[i].kind = "fetch" /\ calls[i].mine THEN {NoForm} ELSE {}
    /\ loading' = (loading /\ ~(calls[i].kind = "save" /\ calls[i].mine))
    /\ detecting' = (detecting /\ ~(calls[i].kind = "detect" /\ calls[i].mine))
    /\ apart' = (apart \/ Changes(calls[i].kind))
    /\ UNCHANGED <<saved, config>>

Served(i) == GetSettings(i) \/ UpdateSettings(i) \/ DetectServerLocation(i)

-----------------------------------------------------------------------------
(* What the dialog promises                                                *)

\* SettingsModal.tsx:88: the configuration the console works with is the one
\* the server keeps, whatever is typed while a save or a detection is under
\* way and whichever dialog began it, unless one of them failed or met
\* another.  They differ by the country that a user cleared: the console goes
\* on with none, the server with its default.
ConsoleShowsWhatIsSaved == ~apart /\ ~Pending => saved = applyDefaults(config)

-----------------------------------------------------------------------------
(* What the README says and the code does not do                           *)

\* README.md:174: the home country is China by default, so the console judges
\* by that country, as the server does, when its field was cleared and saved.
DefaultIsShown == ~apart /\ ~Pending => config.country = saved.country
=============================================================================
