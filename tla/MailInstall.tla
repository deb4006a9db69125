----------------------------- MODULE MailInstall -----------------------------
(***************************************************************************)
(* Installing the private mail server on the host in three scripts that an *)
(* operator runs in order, again after one has failed, and possibly twice  *)
(* at once: phase1 generates the secrets and runs the official installer,  *)
(* bootstrap configures the server with the recovery administrator and     *)
(* finalize does so in recovery mode; both then reject the server's public *)
(* ports and put Caddy in front of it. Each runs under set -e: a command   *)
(* that fails ends it where it is.                                         *)
(***************************************************************************)
EXTENDS Naturals

CONSTANTS
    Setup,     \* processes that run the scripts
    MaxSetup,  \* bound on the scripts started
    MaxTypo    \* bound on the edits of the Caddyfile by others

ASSUME MailInstallAssumption == MaxSetup \in Nat /\ MaxTypo \in Nat

VARIABLES
    present,    \* the binary or /etc/stalwart is there
    secrets,    \* the file of secrets is there
    config,     \* config.json is there
    serverEnv,  \* stalwart.env
    server,     \* how the service runs, by what it loaded last
    accounts,   \* domain and accounts exist
    rejects,    \* ports the firewall rejects from outside
    caddyfile, caddy,  \* the file, and what Caddy has loaded of it
    setup,      \* the scripts under way
    setups, typos,     \* how many were started, how many edits were made
    opened      \* a script that opened recovery mode ended before it closed it

hostVars == <<present, secrets, config, serverEnv, server, accounts, rejects>>
facadeVars == <<caddyfile, caddy, typos>>
installVars == <<hostVars, facadeVars, setup, setups, opened>>

\* admin: the recovery administrator may log in to the server.
EnvKind == {"none", "admin", "recovery", "plain"}
\* mail: the virtual host is in the file.
Caddyfile == [mail : BOOLEAN, valid : BOOLEAN]
Script == {"none", "phase1", "bootstrap", "finalize"}
\* reload, configure and minimal are those of bootstrap alone.
InstallStep == {"idle", "secrets", "preseed", "installer", "lock", "restart", "open", "reload",
                "configure", "minimal", "reload2", "apply", "firewall", "facade", "validate",
                "close", "reload3"}

\* Types of the variables above.
InstallTypeOK ==
    /\ {present, secrets, config, accounts, opened} \subseteq BOOLEAN
    /\ serverEnv \in EnvKind /\ server \in {"absent", "down"} \cup EnvKind
    /\ rejects \subseteq {25, 8080}
    /\ caddyfile \in Caddyfile /\ caddy \in BOOLEAN
    /\ setup \in [Setup -> [script : Script, step : InstallStep, bak : Caddyfile, alone : BOOLEAN]]
    /\ setups \in 0..MaxSetup /\ typos \in 0..MaxTypo

NoSetup == [script |-> "none", step |-> "idle", bak |-> [mail |-> FALSE, valid |-> TRUE], alone |-> TRUE]

InstallInit ==
    /\ present = FALSE /\ secrets = FALSE /\ config = FALSE /\ accounts = FALSE
    /\ serverEnv = "none" /\ server = "absent" /\ rejects = {}
    /\ caddyfile = NoSetup.bak /\ caddy = FALSE
    /\ setup = [x \in Setup |-> NoSetup] /\ setups = 0 /\ typos = 0 /\ opened = FALSE

Runs(x, script, step) == setup[x].script = script /\ setup[x].step = step
Follow(x, step) == setup' = [setup EXCEPT ![x].step = step]
SetupEnds(x) == setup' = [setup EXCEPT ![x] = NoSetup]
Finalizes(x) == setup[x].script = "finalize"
Serves == server \notin {"absent", "down"}

BeginSetup(x, script, step) ==
    /\ setup[x].step = "idle" /\ setups < MaxSetup /\ setups' = setups + 1
    /\ LET busy == {y \in Setup : setup[y].step # "idle"}
       IN setup' = [y \in Setup |->
             IF y = x THEN [NoSetup EXCEPT !.script = script, !.step = step, !.alone = (busy = {})]
             ELSE [setup[y] EXCEPT !.alone = @ /\ y \notin busy]]

\* A script that has opened recovery mode and not closed it.
Opening(x) ==
    setup[x].step \in {"reload2", "apply", "close"} \cup
                      IF Finalizes(x) THEN {"firewall", "facade", "validate"} ELSE {}

\* systemctl restart; the service may not come up.
RestartServer == server # "absent" /\ server' \in {serverEnv, "down"}

\* So it is, and then, unless it did not come up, the next step.
Reload(x, step) ==
    /\ RestartServer
    /\ IF server' = "down" \/ step = "idle" THEN SetupEnds(x) ELSE Follow(x, step)
    /\ opened' = (opened \/ (server' = "down" /\ Opening(x)))

---------------------------------------------------------------------------
(* fracta-stalwart-phase1.                                                 *)

\* Not onto a server that runs, nor over its files.
StartPhase1(x) ==
    /\ ~Serves /\ ~present /\ BeginSetup(x, "phase1", "secrets")
    /\ UNCHANGED <<hostVars, facadeVars, opened>>

\* After a restore point. Secrets that are there end it: a phase1 that got
\* so far is not run again as it is.
GenerateSecrets(x) ==
    /\ Runs(x, "phase1", "secrets") /\ ~secrets /\ secrets' = TRUE /\ Follow(x, "preseed")
    /\ UNCHANGED <<present, config, serverEnv, server, accounts, rejects, facadeVars, setups, opened>>

\* With the installer downloaded.
Preseed(x) ==
    /\ Runs(x, "phase1", "preseed") /\ Follow(x, "installer")
    /\ present' = TRUE /\ serverEnv' = "admin"
    /\ UNCHANGED <<secrets, config, server, accounts, rejects, facadeVars, setups, opened>>

\* It may fail, which is only logged; the environment is seen to again.
Installer(x) ==
    /\ Runs(x, "phase1", "installer") /\ Follow(x, "lock")
    /\ serverEnv' = "admin" /\ server' \in {server, "down", "admin"}
    /\ UNCHANGED <<present, secrets, config, accounts, rejects, facadeVars, setups, opened>>

LockPublicPorts(x) ==
    /\ Runs(x, "phase1", "lock") /\ Follow(x, "restart")
    /\ rejects' = IF Serves THEN rejects \cup {8080} ELSE rejects
    /\ UNCHANGED <<present, secrets, config, serverEnv, server, accounts, facadeVars, setups, opened>>

FirstRestart(x) ==
    /\ Runs(x, "phase1", "restart") /\ SetupEnds(x)
    /\ RestartServer \/ (server = "absent" /\ UNCHANGED server)
    /\ UNCHANGED <<present, secrets, config, serverEnv, accounts, rejects, facadeVars, setups, opened>>

---------------------------------------------------------------------------
(* fracta-stalwart-phase1-bootstrap, fracta-stalwart-phase1-finalize.      *)

\* Both want the secrets, finalize the configuration too.
StartBootstrap(x) ==
    /\ secrets /\ BeginSetup(x, "bootstrap", "open")
    /\ UNCHANGED <<hostVars, facadeVars, opened>>

StartFinalize(x) ==
    /\ secrets /\ config /\ BeginSetup(x, "finalize", "open")
    /\ UNCHANGED <<hostVars, facadeVars, opened>>

\* The group that owns the file comes with the server.
OpenAdmin(x) ==
    /\ setup[x].step = "open" /\ server # "absent"
    /\ serverEnv' = IF Finalizes(x) THEN "recovery" ELSE "admin"
    /\ Follow(x, IF Finalizes(x) THEN "reload2" ELSE "reload")
    /\ UNCHANGED <<present, secrets, config, server, accounts, rejects, facadeVars, setups, opened>>

ReloadAdmin(x) ==
    /\ setup[x].step = "reload" /\ Reload(x, "configure")
    /\ UNCHANGED <<present, secrets, config, serverEnv, accounts, rejects, facadeVars, setups>>

\* The update of Bootstrap, whether or not it writes config.json.
UpdateBootstrap(x) ==
    /\ setup[x].step = "configure" /\ Serves
    /\ config' \in {config, TRUE} /\ Follow(x, IF config' THEN "reload2" ELSE "minimal")
    /\ UNCHANGED <<present, secrets, serverEnv, server, accounts, rejects, facadeVars, setups, opened>>

\* If not, a minimal one, for recovery mode.
MinimalConfig(x) ==
    /\ setup[x].step = "minimal" /\ config' = TRUE /\ serverEnv' = "recovery" /\ Follow(x, "reload2")
    /\ UNCHANGED <<present, secrets, server, accounts, rejects, facadeVars, setups, opened>>

ReloadConfigured(x) ==
    /\ setup[x].step = "reload2" /\ Reload(x, "apply")
    /\ UNCHANGED <<present, secrets, config, serverEnv, accounts, rejects, facadeVars, setups>>

\* bootstrap, which needs the recovery administrator, goes on without the
\* accounts; finalize ends, as its plan's exit code is the script's.
ApplyPlan(x) ==
    /\ setup[x].step = "apply"
    /\ IF Finalizes(x) THEN Serves /\ accounts' = TRUE /\ Follow(x, "firewall")
       ELSE server \in {"admin", "recovery"} /\ accounts' \in {accounts, TRUE} /\ Follow(x, "close")
    /\ UNCHANGED <<present, secrets, config, serverEnv, server, rejects, facadeVars, setups, opened>>

RejectPublicPorts(x) ==
    /\ setup[x].step = "firewall" /\ rejects' = {25, 8080} /\ Follow(x, "facade")
    /\ UNCHANGED <<present, secrets, config, serverEnv, server, accounts, facadeVars, setups, opened>>

\* The virtual host is appended, if it is not there, after a backup;
\* bootstrap is done if it is.
AppendVhost(x) ==
    /\ setup[x].step = "facade" /\ caddyfile' = [caddyfile EXCEPT !.mail = TRUE]
    /\ IF caddyfile.mail /\ ~Finalizes(x) THEN SetupEnds(x)
       ELSE setup' = [setup EXCEPT ![x].step = "validate", ![x].bak = caddyfile]
    /\ UNCHANGED <<hostVars, caddy, typos, setups, opened>>

ReloadCaddy(x) ==
    /\ setup[x].step = "validate" /\ caddyfile.valid /\ caddy' = caddyfile.mail
    /\ IF Finalizes(x) THEN Follow(x, "close") ELSE SetupEnds(x)
    /\ UNCHANGED <<hostVars, caddyfile, typos, setups, opened>>

\* What bootstrap restores is the newest of all backups, its own or one that
\* was made after it.
Backups(x) ==
    {setup[x].bak} \cup (IF Finalizes(x) THEN {}
        ELSE {setup[y].bak : y \in {z \in Setup : setup[z].step = "validate" /\ setup[z].bak.mail}})

\* The backup is restored, for bootstrap reloaded if it can be, and the
\* script ends: finalize in recovery mode.
RestoreCaddyfile(x) ==
    /\ setup[x].step = "validate" /\ ~caddyfile.valid /\ SetupEnds(x)
    /\ \E bak \in Backups(x) :
          /\ caddyfile' = bak
          /\ caddy' = IF bak.valid /\ ~Finalizes(x) THEN bak.mail ELSE caddy
    /\ opened' = (opened \/ Finalizes(x))
    /\ UNCHANGED <<hostVars, typos, setups>>

\* Neither recovery mode nor the recovery administrator is kept.
CloseAdmin(x) ==
    /\ setup[x].step = "close" /\ serverEnv' = "plain" /\ Follow(x, "reload3") /\ opened' = FALSE
    /\ UNCHANGED <<present, secrets, config, server, accounts, rejects, facadeVars, setups>>

ReloadServed(x) ==
    /\ setup[x].step = "reload3" /\ Reload(x, IF Finalizes(x) THEN "idle" ELSE "firewall")
    /\ UNCHANGED <<present, secrets, config, serverEnv, accounts, rejects, facadeVars, setups>>

---------------------------------------------------------------------------
(* Others, and faults.                                                     *)

\* Somebody breaks the Caddyfile, or repairs it.
EditCaddyfile ==
    /\ typos < MaxTypo /\ typos' = typos + 1
    /\ caddyfile' = [caddyfile EXCEPT !.valid = ~@]
    /\ UNCHANGED <<hostVars, caddy, setup, setups, opened>>

\* A command fails, a check does, or the script is killed.
SetupDies(x) ==
    /\ setup[x].step # "idle" /\ SetupEnds(x) /\ opened' = (opened \/ Opening(x))
    /\ UNCHANGED <<hostVars, facadeVars, setups>>

InstallNext ==
    \/ EditCaddyfile
    \/ \E x \in Setup :
        \/ StartPhase1(x) \/ GenerateSecrets(x) \/ Preseed(x) \/ Installer(x)
        \/ LockPublicPorts(x) \/ FirstRestart(x)
        \/ StartBootstrap(x) \/ StartFinalize(x) \/ OpenAdmin(x) \/ ReloadAdmin(x)
        \/ UpdateBootstrap(x) \/ MinimalConfig(x) \/ ReloadConfigured(x) \/ ApplyPlan(x)
        \/ RejectPublicPorts(x) \/ AppendVhost(x) \/ ReloadCaddy(x) \/ RestoreCaddyfile(x)
        \/ CloseAdmin(x) \/ ReloadServed(x) \/ SetupDies(x)

InstallSpec == InstallInit /\ [][InstallNext]_installVars

---------------------------------------------------------------------------
(* Properties.                                                             *)

\* "disable recovery mode": it is left on in the file only if a script that
\* turned it on ended before that.
RecoveryClosed == serverEnv = "recovery" => opened \/ \E x \in Setup : Opening(x)

\* Caddy serves the host only behind the rejects.
FacadeBehindRejects == caddy => rejects = {25, 8080}

\* A finalize that ends well leaves the accounts and the rejects, whatever
\* was run before and beside it, and, if it had the host for itself, the
\* facade and a server out of recovery mode.
Finalized ==
    \A x \in Setup :
        Finalizes(x) /\ ReloadServed(x) /\ server' # "down" =>
            /\ accounts /\ rejects = {25, 8080}
            /\ setup[x].alone => caddy /\ server' = "plain"

InstallKept == [](RecoveryClosed /\ FacadeBehindRejects) /\ [][Finalized]_installVars

=============================================================================
