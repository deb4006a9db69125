----------------------------- MODULE LocalFiles -----------------------------
(***************************************************************************)
(* The two files of a workstation that tools of this repository rewrite    *)
(* while others use them: settings.json of Claude Code (claude-mode pro    *)
(* and zai) and an env file that holds a copy of a key                     *)
(* (apply-system-bearer, sync-env-key). A tool reads the whole file,       *)
(* changes its own entries and puts the result in place by a rename, so    *)
(* the file is never torn; nothing is locked. Everybody else (Claude Code, *)
(* an editor, a publishing script) truncates the file and writes it.       *)
(*                                                                         *)
(* The entries that are not the tools' are one version number: 0 when they *)
(* are lost. A key is numbered in the order it was rotated; 0 is no key.   *)
(***************************************************************************)
EXTENDS Naturals

CONSTANTS
    Process,     \* runs of the tools
    MaxEdit,     \* bound on the edits of each file by others
    MaxKey  \* bound on the rotations of the key

ASSUME LocalAssumption ==
    MaxEdit \in Nat \ {0} /\ MaxKey \in Nat /\ "nobody" \notin Process

VARIABLES
    settings,   \* settings.json
    env,        \* the env file with the copy
    source,     \* the key in the source of truth
    rewrite,    \* the tools under way
    edits       \* how often others have edited each file

localVars == <<settings, env, source, rewrite, edits>>

Backend == {"none", "zai", "other"}
Mode == {"pro", "zai"}

\* whole is FALSE while somebody is writing in place; auth is the key used
\* as ANTHROPIC_AUTH_TOKEN, api whether there is an ANTHROPIC_API_KEY, base
\* what ANTHROPIC_BASE_URL points to.
Settings == [whole : BOOLEAN, auth : Nat, api : BOOLEAN, base : Backend, rest : Nat]
Env == [whole : BOOLEAN, key : Nat, rest : Nat]

\* Types of the variables above.
LocalTypeOK ==
    /\ settings \in Settings /\ env \in Env /\ source \in Nat
    /\ edits \in [{"settings", "env"} -> Nat]
    /\ rewrite \in [Process -> [step : {"idle", "settings", "env"}, mode : Mode, key : Nat,
                                was : Settings, rest : Nat, torn : BOOLEAN, crossed : BOOLEAN]]

NoSettings == [whole |-> TRUE, auth |-> 0, api |-> FALSE, base |-> "none", rest |-> 0]
NoRewrite == [step |-> "idle", mode |-> "pro", key |-> 0, was |-> NoSettings, rest |-> 0,
              torn |-> FALSE, crossed |-> FALSE]

LocalInit ==
    /\ settings = NoSettings /\ env = [whole |-> TRUE, key |-> 0, rest |-> 0] /\ source = 0
    /\ rewrite = [p \in Process |-> NoRewrite]
    /\ edits = [f \in {"settings", "env"} |-> 0]

\* Whoever is about to rewrite the file has read an older one, unless it is p.
Crossed(file, p) ==
    [q \in Process |-> IF q = p THEN NoRewrite
                       ELSE [rewrite[q] EXCEPT !.crossed = @ \/ rewrite[q].step = file]]

---------------------------------------------------------------------------
(* claude-mode.                                                            *)

\* What status reports. The marker of the last switch is only trusted where
\* it says what is found without it.
DetectMode(s) ==
    IF s.base = "zai" \/ (s.base = "none" /\ s.auth # 0) THEN "zai"
    ELSE IF s.base = "other" THEN "custom"
    ELSE IF s.api THEN "api" ELSE "pro"

\* A missing or broken file counts as {}.
ReadJsonSafe == IF settings.whole THEN settings ELSE NoSettings

\* A switch reads its key, zai does nothing without one, then the settings.
ReadSettings(p) ==
    /\ rewrite[p].step = "idle"
    /\ \E m \in Mode :
          /\ m = "zai" => source # 0
          /\ rewrite' = [rewrite EXCEPT ![p] =
                [NoRewrite EXCEPT !.step = "settings", !.mode = m, !.key = source,
                                  !.was = ReadJsonSafe, !.torn = ~settings.whole]]
    /\ UNCHANGED <<settings, env, source, edits>>

\* pro removes both tokens and the base.
ApplyPro(was) == [was EXCEPT !.auth = 0, !.api = FALSE, !.base = "none"]

\* Mutant of ApplyZai: it starts from nothing.
ZaiAfresh(was, key) == [NoSettings EXCEPT !.auth = key, !.base = "zai"]

\* zai sets one token and the base; a console key stays.
ApplyZai(was, key) == [was EXCEPT !.auth = key, !.base = "zai"]

\* The new text is renamed into place.
WriteJson(p) ==
    /\ rewrite[p].step = "settings"
    /\ settings' = IF rewrite[p].mode = "pro" THEN ApplyPro(rewrite[p].was)
                   ELSE ApplyZai(rewrite[p].was, rewrite[p].key)
    /\ rewrite' = Crossed("settings", p)
    /\ UNCHANGED <<env, source, edits>>

---------------------------------------------------------------------------
(* runSystemBearerProcedure with apply, sync-env-key.                      *)

\* The key of the source of truth, and then, if the copy differs, the text
\* of the env file; without a key, or if it is there, nothing is done.
ReadEnv(p) ==
    /\ rewrite[p].step = "idle" /\ source # 0 /\ (env.whole => env.key # source)
    /\ rewrite' = [rewrite EXCEPT ![p] =
          [NoRewrite EXCEPT !.step = "env", !.key = source, !.torn = ~env.whole,
                            !.rest = IF env.whole THEN env.rest ELSE 0]]
    /\ UNCHANGED <<settings, env, source, edits>>

\* syncKeyToFile: one line replaced or added, all others as they were read.
SyncKeyToFile(p) ==
    /\ rewrite[p].step = "env"
    /\ env' = [whole |-> TRUE, key |-> rewrite[p].key, rest |-> rewrite[p].rest]
    /\ rewrite' = Crossed("env", p)
    /\ UNCHANGED <<settings, source, edits>>

\* The tool dies; what it had written aside is not in place.
ToolDies(p) ==
    /\ rewrite[p].step # "idle" /\ rewrite' = [rewrite EXCEPT ![p] = NoRewrite]
    /\ UNCHANGED <<settings, env, source, edits>>

---------------------------------------------------------------------------
(* The others, external. One whose file is replaced before it has saved    *)
(* goes on writing the old one.                                            *)

RotateKey ==
    /\ source < MaxKey /\ source' = source + 1
    /\ UNCHANGED <<settings, env, rewrite, edits>>

SettingsOpened ==
    /\ settings.whole /\ edits["settings"] < MaxEdit
    /\ settings' = [settings EXCEPT !.whole = FALSE]
    /\ edits' = [edits EXCEPT !["settings"] = @ + 1]
    /\ rewrite' = Crossed("settings", "nobody") /\ UNCHANGED <<env, source>>

\* Also the backend may have been chosen by hand.
SettingsSaved ==
    /\ ~settings.whole
    /\ \E api \in BOOLEAN, base \in Backend \ {"zai"} :
          settings' = [whole |-> TRUE, auth |-> 0, api |-> api, base |-> base,
                       rest |-> edits["settings"]]
    /\ rewrite' = Crossed("settings", "nobody") /\ UNCHANGED <<env, source, edits>>

EnvOpened ==
    /\ env.whole /\ edits["env"] < MaxEdit
    /\ env' = [env EXCEPT !.whole = FALSE]
    /\ edits' = [edits EXCEPT !["env"] = @ + 1]
    /\ rewrite' = Crossed("env", "nobody") /\ UNCHANGED <<settings, source>>

EnvSaved ==
    /\ ~env.whole /\ env' = [env EXCEPT !.whole = TRUE, !.rest = edits["env"]]
    /\ rewrite' = Crossed("env", "nobody") /\ UNCHANGED <<settings, source, edits>>

LocalNext ==
    \/ RotateKey \/ SettingsOpened \/ SettingsSaved \/ EnvOpened \/ EnvSaved
    \/ \E p \in Process :
        \/ ReadSettings(p) \/ WriteJson(p) \/ ReadEnv(p) \/ SyncKeyToFile(p) \/ ToolDies(p)

LocalSpec == LocalInit /\ [][LocalNext]_localVars

---------------------------------------------------------------------------
(* Properties.                                                             *)

\* A tool that ends has read a file somebody was writing, or somebody has
\* written it since.
Disturbed(p) == rewrite'[p] = NoRewrite /\ (rewrite[p].torn \/ rewrite[p].crossed)

\* Entries of others are only lost by a tool that was disturbed, and a switch
\* leaves the settings in a mode the status reports as the one asked for.
RestKeptUnlessDisturbed ==
    /\ settings'.rest < settings.rest \/ env'.rest < env.rest => \E p \in Process : Disturbed(p)
    /\ \A p \in Process :
          (rewrite[p].step = "settings" /\ settings' # settings /\ rewrite'[p] = NoRewrite) =>
              DetectMode(settings') = rewrite[p].mode

\* A rewrite keeps what it does not own and takes effect.
RewriteKeepsTheRest == [][RestKeptUnlessDisturbed]_localVars

=============================================================================
