----------------------------- MODULE CycleDeploy -----------------------------
(***************************************************************************)
(* Deploying the two periodic services of Cogentia on its host, the weekly *)
(* consolidation and the Sleep Cycle's interactions: a release is built    *)
(* aside, the units are installed file by file, the service is run once    *)
(* and only then its timer enabled. The scripts run under set -e with a    *)
(* trap on errors that rolls the installation back; the rollback is such a *)
(* script itself. Several may run at once, for both services.              *)
(***************************************************************************)
EXTENDS Naturals, Sequences

CONSTANTS
    Deployer,     \* processes that run the scripts
    MaxDeploy     \* bound on the deployments started

ASSUME CycleAssumption == MaxDeploy \in Nat

VARIABLES
    files,      \* the files of each service that are installed
    loaded,     \* those the service manager has read
    enabled,    \* services whose timer is enabled
    release,    \* how far the release of each is
    deploy,     \* the deployments under way
    deploys,    \* how many were started
    abandoned   \* services with a deployment that ended midway, or crossed another

cycleVars == <<files, loaded, enabled, release, deploy, deploys, abandoned>>

Periodic == {"weekly", "interactions"}

\* What a deployment installs, in this order; the probe is there for the
\* first run only.
Units(k) ==
    IF k = "weekly" THEN <<"service", "timer", "override">>
    ELSE <<"service", "timer", "config", "override", "probe">>
UnitFile == {"service", "timer", "config", "override", "probe"}
Whole(k) == {Units(k)[i] : i \in DOMAIN Units(k)} \ {"probe"}

DeployStep == {"idle", "build", "install", "reload", "run", "check", "unprobe", "reload2",
               "enable", "verify", "disable", "stop", "remove", "reload3"}

\* Types of the variables above.
CycleTypeOK ==
    /\ files \in [Periodic -> SUBSET UnitFile] /\ loaded \in [Periodic -> SUBSET UnitFile]
    /\ enabled \subseteq Periodic /\ abandoned \subseteq Periodic
    /\ release \in [Periodic -> {"none", "partial", "complete"}]
    /\ deploy \in [Deployer -> [of : Periodic, step : DeployStep, done : 0..5, weekly : BOOLEAN]]
    /\ deploys \in 0..MaxDeploy

NoDeploy == [of |-> "weekly", step |-> "idle", done |-> 0, weekly |-> FALSE]

CycleInit ==
    /\ files = [k \in Periodic |-> {}] /\ loaded = files /\ enabled = {}
    /\ release = [k \in Periodic |-> "none"]
    /\ deploy = [d \in Deployer |-> NoDeploy] /\ deploys = 0 /\ abandoned = {}

Of(d) == deploy[d].of
Doing(d, step) == deploy[d].step = step
Move(d, step) == deploy' = [deploy EXCEPT ![d].step = step]
DeployEnds(d) == deploy' = [deploy EXCEPT ![d] = NoDeploy]
Installed(d, f) == f \in files[Of(d)]

\* systemctl daemon-reload, which enable and disable imply, reads the files
\* of both.
DaemonReload == loaded' = files

---------------------------------------------------------------------------
(* deploy-cogentia-weekly, deploy-cogentia-interactions.                   *)

\* What is there already is not upgraded. interactions notes what the weekly
\* service is like.
Preflight(d, k) ==
    /\ Doing(d, "idle") /\ deploys < MaxDeploy
    /\ files[k] = {} /\ loaded[k] \cap {"service", "timer"} = {}
    /\ deploys' = deploys + 1
    /\ \E w \in BOOLEAN : /\ w <=> "weekly" \in enabled
                         /\ deploy' = [deploy EXCEPT ![d] =
                                [of |-> k, step |-> "build", done |-> 0, weekly |-> w]]
    /\ abandoned' = abandoned \cup {Of(e) : e \in {c \in Deployer : ~Doing(c, "idle") /\ Of(c) = k}}
    /\ UNCHANGED <<files, loaded, enabled, release>>

\* Only a release without its mark is built; the mark comes last. What a
\* build that failed has left is built over.
BuildRelease(d) ==
    /\ Doing(d, "build")
    /\ \/ release' = [release EXCEPT ![Of(d)] = "complete"] /\ Move(d, "install")
       \/ /\ release[Of(d)] # "complete"
          /\ release' = [release EXCEPT ![Of(d)] = "partial"] /\ DeployEnds(d)
    /\ UNCHANGED <<files, loaded, enabled, deploys, abandoned>>

InstallUnit(d) ==
    /\ Doing(d, "install")
    /\ LET n == deploy[d].done + 1
       IN /\ files' = [files EXCEPT ![Of(d)] = @ \cup {Units(Of(d))[n]}]
          /\ deploy' = [deploy EXCEPT ![d].done = n,
                           ![d].step = IF n = Len(Units(Of(d))) THEN "reload" ELSE "install"]
    /\ UNCHANGED <<loaded, enabled, release, deploys, abandoned>>

ReloadUnits(d) ==
    /\ Doing(d, "reload") /\ DaemonReload /\ Move(d, "run")
    /\ UNCHANGED <<files, enabled, release, deploys, abandoned>>

\* The service runs once.
RunOnce(d) ==
    /\ Doing(d, "run") /\ "service" \in loaded[Of(d)] /\ Move(d, "check")
    /\ UNCHANGED <<files, loaded, enabled, release, deploys, abandoned>>

\* Its result and its receipt are good.
CheckResult(d) ==
    /\ Doing(d, "check")
    /\ Move(d, IF Of(d) = "weekly" THEN "enable" ELSE "unprobe")
    /\ UNCHANGED <<files, loaded, enabled, release, deploys, abandoned>>

RemoveProbe(d) ==
    /\ Doing(d, "unprobe") /\ files' = [files EXCEPT ![Of(d)] = @ \ {"probe"}]
    /\ Move(d, "reload2")
    /\ UNCHANGED <<loaded, enabled, release, deploys, abandoned>>

ReloadWithoutProbe(d) ==
    /\ Doing(d, "reload2") /\ DaemonReload /\ Move(d, "enable")
    /\ UNCHANGED <<files, enabled, release, deploys, abandoned>>

EnableTimer(d) ==
    /\ Doing(d, "enable") /\ Installed(d, "timer")
    /\ enabled' = enabled \cup {Of(d)} /\ DaemonReload /\ Move(d, "verify")
    /\ UNCHANGED <<files, release, deploys, abandoned>>

\* interactions also wants the weekly service and the checkout as they were.
Verified(d) ==
    /\ Doing(d, "verify") /\ Of(d) \in enabled
    /\ (Of(d) = "interactions" => deploy[d].weekly = ("weekly" \in enabled))
    /\ DeployEnds(d)
    /\ UNCHANGED <<files, loaded, enabled, release, deploys, abandoned>>

---------------------------------------------------------------------------
(* The trap and rollback.sh, and faults.                                   *)

\* A step of the installation, whose failure is trapped.
Trapped(d) == deploy[d].step \in {"install", "reload", "run", "check", "unprobe", "reload2", "enable", "verify"}

\* A command fails; a rollback of what never had a timer fails at once.
Fails(d) ==
    /\ Trapped(d)
    /\ IF Installed(d, "timer")
       THEN Move(d, "disable") /\ UNCHANGED abandoned
       ELSE DeployEnds(d) /\ abandoned' = abandoned \cup {k \in {Of(d)} : files[k] # {}}
    /\ UNCHANGED <<files, loaded, enabled, release, deploys>>

DisableTimer(d) ==
    /\ Doing(d, "disable") /\ Installed(d, "timer")
    /\ enabled' = enabled \ {Of(d)} /\ DaemonReload /\ Move(d, "stop")
    /\ UNCHANGED <<files, release, deploys, abandoned>>

StopRun(d) ==
    /\ Doing(d, "stop") /\ Move(d, "remove")
    /\ UNCHANGED <<files, loaded, enabled, release, deploys, abandoned>>

\* Mutant of RemoveAll: the configuration is forgotten.
KeepConfig(d) == files' = [files EXCEPT ![Of(d)] = @ \cap {"config"}]

RemoveAll(d) == files' = [files EXCEPT ![Of(d)] = {}]

RemoveUnits(d) ==
    /\ Doing(d, "remove") /\ RemoveAll(d) /\ Move(d, "reload3")
    /\ UNCHANGED <<loaded, enabled, release, deploys, abandoned>>

ReloadRolledBack(d) ==
    /\ Doing(d, "reload3") /\ DaemonReload /\ DeployEnds(d)
    /\ UNCHANGED <<files, enabled, release, deploys, abandoned>>

\* The script is killed, or a command of its rollback fails.
DeployDies(d) ==
    /\ ~Doing(d, "idle") /\ DeployEnds(d)
    /\ abandoned' = IF Doing(d, "build") THEN abandoned ELSE abandoned \cup {Of(d)}
    /\ release' = IF Doing(d, "build") /\ release[Of(d)] = "none"
                  THEN [release EXCEPT ![Of(d)] = "partial"] ELSE release
    /\ UNCHANGED <<files, loaded, enabled, deploys>>

CycleNext ==
    \E d \in Deployer :
        \/ \E k \in Periodic : Preflight(d, k)
        \/ BuildRelease(d) \/ InstallUnit(d) \/ ReloadUnits(d) \/ RunOnce(d) \/ CheckResult(d)
        \/ RemoveProbe(d) \/ ReloadWithoutProbe(d) \/ EnableTimer(d) \/ Verified(d)
        \/ Fails(d) \/ DisableTimer(d) \/ StopRun(d) \/ RemoveUnits(d)
        \/ ReloadRolledBack(d) \/ DeployDies(d)

CycleSpec == CycleInit /\ [][CycleNext]_cycleVars

---------------------------------------------------------------------------
(* Properties.                                                             *)

\* Of a service everything is installed, loaded and enabled, or nothing is,
\* unless a deployment of it ended midway, before its timer was installed or
\* in its rollback, or two of them crossed.
AllOrNothing ==
    \A k \in Periodic \ abandoned :
        (\A d \in Deployer : Doing(d, "idle") \/ Of(d) # k) =>
            \/ files[k] = {} /\ k \notin enabled
            \/ files[k] = Whole(k) /\ Whole(k) \subseteq loaded[k] /\ k \in enabled

\* "This override is removed before the timer is enabled": the timer never
\* starts the probe in place of the service, unless two deployments crossed
\* or one ended midway.
ProbeNotTimed ==
    "interactions" \in enabled \ abandoned => "probe" \notin loaded["interactions"]

DeploymentsKept == AllOrNothing /\ ProbeNotTimed

=============================================================================
