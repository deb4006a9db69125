----------------------------- MODULE MailServer -----------------------------
(***************************************************************************)
(* Keeping the private mail server: its encrypted backup, started by a     *)
(* daily timer and by hand, the restore of a backup, the hourly sync of    *)
(* Caddy's certificate, and the procedure that configures its forwarding   *)
(* in recovery mode. Each is a shell script of its own; they stop, start   *)
(* and restart one service and write the files it loads when it starts,    *)
(* and nothing keeps two of them apart.                                    *)
(*                                                                         *)
(* A script's step is what it does between two commands that take long. A  *)
(* certificate is numbered in the order Caddy obtained it.                 *)
(***************************************************************************)
EXTENDS Naturals

CONSTANTS
    Job,         \* processes that run the scripts
    MaxRenew,    \* bound on the certificates Caddy obtains
    MaxJob,      \* bound on the scripts started
    NoArchive

ASSUME MailServerAssumption == MaxRenew \in Nat /\ MaxJob \in Nat

VARIABLES
    daemon,     \* stalwart.service: its state, what it has loaded
    envFile,    \* /etc/stalwart/stalwart.env
    tls,        \* the certificate and the key in /etc/stalwart/tls
    source,     \* the certificate Caddy has
    password,   \* the file of the app password
    archive,    \* the newest encrypted backup
    mixed,      \* the data is of a server in motion, or mixed with it
    job,        \* the scripts under way
    started,    \* how many have been started
    forgotten   \* what a script that ended early, or could not, has left

mailVars == <<daemon, envFile, tls, source, password, archive, mixed, job, started, forgotten>>

Mode == {"plain", "recovery"}
Pair == [cert : Nat, key : Nat]
\* crossed: the server was about to start, or another script was under way.
\* running: it was told not to stop the server, or could not.
Archive == [torn : BOOLEAN, crossed : BOOLEAN, running : BOOLEAN, env : Mode, tls : Pair]
Left == {"unloaded", "down", "recovery"}

\* open, reload, apply, close and reload2 are those of the forwarding.
Step == {"idle", "stop", "pack", "tar", "clean", "halt", "data", "config", "start",
         "cert", "key", "restart", "open", "reload", "apply", "close", "reload2", "check"}

\* Types of the variables above.
MailTypeOK ==
    /\ daemon \in [state : {"down", "starting", "up"}, env : Mode, tls : Pair]
    /\ envFile \in Mode /\ tls \in Pair /\ source \in Nat
    /\ password \in {"none", "placeholder", "real"}
    /\ archive \in Archive \cup {NoArchive} /\ mixed \in BOOLEAN
    /\ job \in [Job -> [step : Step, flag : BOOLEAN, torn : BOOLEAN, crossed : BOOLEAN,
                        running : BOOLEAN, taken : Archive \cup {NoArchive}]]
    /\ started \in 0..MaxJob /\ forgotten \subseteq Left

First == [cert |-> 0, key |-> 0]
NoJob == [step |-> "idle", flag |-> FALSE, torn |-> FALSE, crossed |-> FALSE, running |-> FALSE,
          taken |-> NoArchive]

MailInit ==
    /\ daemon = [state |-> "up", env |-> "plain", tls |-> First]
    /\ envFile = "plain" /\ tls = First /\ source = 0 /\ password \in {"none", "real"}
    /\ archive = NoArchive /\ mixed = FALSE /\ job = [j \in Job |-> NoJob] /\ started = 0 /\ forgotten = {}

At(j, step) == job[j].step = step
GoTo(j, step) == job' = [job EXCEPT ![j].step = step]
\* How the data was copied is of no more use to the script.
CopyDone(j, step) ==
    job' = [job EXCEPT ![j].step = step, ![j].torn = FALSE, ![j].crossed = FALSE, ![j].running = FALSE]
JobEnds(j) == job' = [job EXCEPT ![j] = NoJob]
Up == daemon.state = "up"
Others(j) == {k \in Job \ {j} : job[k].step # "idle"}

\* The data is not copied yet.
ForData == {"stop", "pack", "tar", "halt", "data"}

\* A script that starts crosses those that copy data, and they it.
Begin(j, call) ==
    /\ At(j, "idle") /\ started < MaxJob /\ started' = started + 1
    /\ job' = [k \in Job |->
          IF k = j
          THEN [call EXCEPT !.crossed =
                  call.step \in ForData /\ (Others(j) # {} \/ daemon.state = "starting")]
          ELSE [job[k] EXCEPT !.crossed = @ \/ job[k].step \in ForData]]

\* systemctl restart, stop and start; starting takes effect with Started,
\* and till then nothing is loaded.
Unloaded(state) == [state |-> state, env |-> "plain", tls |-> First]
Restart == daemon' = Unloaded("starting")
Stop == daemon' = Unloaded("down")
Start == daemon' = IF daemon.state = "down" THEN Unloaded("starting") ELSE daemon

---------------------------------------------------------------------------
(* stalwart-backup.                                                        *)

\* Mutant of BackupAsks: the service is left running.
BackupAlongside == "pack"

\* is-active: a service that is starting is not stopped.
BackupAsks == IF Up THEN "stop" ELSE "pack"

\* Past the disk guard. STALWART_BACKUP_STOP_SERVICE is 1, or the server is
\* to be left running.
BackupStarts(j) ==
    /\ \/ Begin(j, [NoJob EXCEPT !.step = BackupAsks])
       \/ Begin(j, [NoJob EXCEPT !.step = "pack", !.running = TRUE])
    /\ UNCHANGED <<daemon, envFile, tls, source, password, archive, mixed, forgotten>>

BackupStops(j) ==
    /\ At(j, "stop") /\ Stop
    /\ job' = [job EXCEPT ![j].step = "pack", ![j].flag = TRUE]
    /\ UNCHANGED <<envFile, tls, source, password, archive, mixed, started, forgotten>>

\* tar reads the data, from here on to BackupWritten.
BackupPacks(j) ==
    /\ At(j, "pack") /\ job' = [job EXCEPT ![j].step = "tar", ![j].torn = Up]
    /\ UNCHANGED <<daemon, envFile, tls, source, password, archive, mixed, started, forgotten>>

\* The configuration is packed too and all of it encrypted. tar ends the
\* script only if a file changed while tar was reading that file.
BackupWritten(j) ==
    /\ At(j, "tar") /\ CopyDone(j, "clean")
    /\ archive' = [torn |-> job[j].torn, crossed |-> job[j].crossed, running |-> job[j].running,
                   env |-> envFile, tls |-> tls]
    /\ UNCHANGED <<daemon, envFile, tls, source, password, mixed, started, forgotten>>

\* A command fails, the one that stops the server included.
BackupFails(j) ==
    /\ job[j].step \in {"stop", "pack", "tar"} /\ CopyDone(j, "clean")
    /\ UNCHANGED <<daemon, envFile, tls, source, password, archive, mixed, started, forgotten>>

\* The exit trap starts what the script stopped.
Cleanup(j) ==
    /\ At(j, "clean") /\ JobEnds(j)
    /\ IF job[j].flag THEN Start ELSE UNCHANGED daemon
    /\ UNCHANGED <<envFile, tls, source, password, archive, mixed, started, forgotten>>

---------------------------------------------------------------------------
(* stalwart-restore.                                                       *)

\* The archive is verified and unpacked aside.
RestoreStarts(j) ==
    /\ archive # NoArchive /\ Begin(j, [NoJob EXCEPT !.step = "halt", !.taken = archive])
    /\ UNCHANGED <<daemon, envFile, tls, source, password, archive, mixed, forgotten>>

RestoreStops(j) ==
    /\ At(j, "halt") /\ Stop /\ GoTo(j, "data")
    /\ UNCHANGED <<envFile, tls, source, password, archive, mixed, started, forgotten>>

\* "|| true": a server that cannot be stopped does not end the script.
RestoreCannotStop(j) ==
    /\ At(j, "halt") /\ job' = [job EXCEPT ![j].step = "data", ![j].running = TRUE]
    /\ UNCHANGED <<daemon, envFile, tls, source, password, archive, mixed, started, forgotten>>

\* A copy of the present data is kept, then that of the archive is laid over
\* it.
RestoreData(j) ==
    /\ At(j, "data") /\ CopyDone(j, "config") /\ mixed' = (daemon.state # "down" \/ job[j].taken.torn)
    /\ UNCHANGED <<daemon, envFile, tls, source, password, archive, started, forgotten>>

\* With the configuration come the environment and the certificate of then.
RestoreConfig(j) ==
    /\ At(j, "config") /\ job' = [job EXCEPT ![j].step = "start", ![j].taken = NoArchive]
    /\ envFile' = job[j].taken.env /\ tls' = job[j].taken.tls
    /\ forgotten' = IF envFile' = "recovery" THEN forgotten \cup {"recovery"}
                    ELSE forgotten
    /\ UNCHANGED <<daemon, source, password, archive, mixed, started>>

\* Nothing, if the service was not stopped or another script has started it
\* meanwhile.
RestoreStartsServer(j) ==
    /\ At(j, "start") /\ Start /\ GoTo(j, "check")
    /\ forgotten' = IF daemon.state = "down" THEN forgotten ELSE forgotten \cup {"unloaded"}
    /\ UNCHANGED <<envFile, tls, source, password, archive, mixed, started>>

---------------------------------------------------------------------------
(* stalwart-sync-caddy-cert.                                               *)

\* Caddy's certificate is valid, and the key is its key.
SyncStarts(j) ==
    /\ Begin(j, [NoJob EXCEPT !.step = "cert"])
    /\ UNCHANGED <<daemon, envFile, tls, source, password, archive, mixed, forgotten>>

\* By now Caddy may have another one.
SyncCert(j) ==
    /\ At(j, "cert") /\ tls' = [tls EXCEPT !.cert = source]
    /\ job' = [job EXCEPT ![j].step = "key", ![j].flag = source # tls.cert]
    /\ UNCHANGED <<daemon, envFile, source, password, archive, mixed, started, forgotten>>

\* CHANGED, after the key was compared.
Changed(j) == job[j].flag \/ source # tls.key

\* Without a change the script ends.
SyncKey(j) ==
    /\ At(j, "key") /\ tls' = [tls EXCEPT !.key = source]
    /\ IF Changed(j) THEN GoTo(j, "restart") ELSE JobEnds(j)
    /\ UNCHANGED <<daemon, envFile, source, password, archive, mixed, started, forgotten>>

SyncRestarts(j) ==
    /\ At(j, "restart") /\ Restart /\ GoTo(j, "check")
    /\ UNCHANGED <<envFile, tls, source, password, archive, mixed, started, forgotten>>

---------------------------------------------------------------------------
(* stalwart-gmail-forward-setup.                                           *)

\* Without a password the script leaves a placeholder and ends.
ForwardAsks(j) ==
    /\ At(j, "idle") /\ started < MaxJob /\ started' = started + 1
    /\ password = "none" /\ password' = "placeholder"
    /\ UNCHANGED <<daemon, envFile, tls, source, archive, mixed, job, forgotten>>

\* A placeholder ends it too; a password is copied for the server.
ForwardStarts(j) ==
    /\ password = "real" /\ Begin(j, [NoJob EXCEPT !.step = "open"])
    /\ UNCHANGED <<daemon, envFile, tls, source, password, archive, mixed, forgotten>>

OpenRecovery(j) ==
    /\ At(j, "open") /\ envFile' = "recovery" /\ GoTo(j, "reload")
    /\ UNCHANGED <<daemon, tls, source, password, archive, mixed, started, forgotten>>

ReloadRecovery(j) ==
    /\ At(j, "reload") /\ Restart /\ GoTo(j, "apply")
    /\ UNCHANGED <<envFile, tls, source, password, archive, mixed, started, forgotten>>

\* Relay, route and sieve script are upserted; that needs the recovery
\* administrator.
ApplyForward(j) ==
    /\ At(j, "apply") /\ Up /\ daemon.env = "recovery" /\ GoTo(j, "close")
    /\ UNCHANGED <<daemon, envFile, tls, source, password, archive, mixed, started, forgotten>>

CloseRecovery(j) ==
    /\ At(j, "close") /\ envFile' = "plain" /\ GoTo(j, "reload2")
    /\ forgotten' = forgotten \ {"recovery"}
    /\ UNCHANGED <<daemon, tls, source, password, archive, mixed, started>>

ReloadPlain(j) ==
    /\ At(j, "reload2") /\ Restart /\ GoTo(j, "check")
    /\ UNCHANGED <<envFile, tls, source, password, archive, mixed, started, forgotten>>

\* is-active, in the end of a script, and the delivery test: either way it
\* ends.
CheckActive(j) ==
    /\ At(j, "check") /\ daemon.state # "starting" /\ JobEnds(j)
    /\ UNCHANGED <<daemon, envFile, tls, source, password, archive, mixed, started, forgotten>>

---------------------------------------------------------------------------
(* The service manager, Caddy, people, and faults.                         *)

\* The server loads its files; whoever packs its data packs it in motion.
Started ==
    /\ daemon.state = "starting"
    /\ daemon' = [state |-> "up", env |-> envFile, tls |-> tls]
    /\ job' = [j \in Job |-> [job[j] EXCEPT !.torn = @ \/ job[j].step = "tar"]]
    /\ forgotten' = forgotten \ {"unloaded", "down"}
    /\ UNCHANGED <<envFile, tls, source, password, archive, mixed, started>>

\* It stays down, and will not be started again by itself.
StartFails ==
    /\ daemon.state = "starting" /\ Stop /\ forgotten' = forgotten \cup {"down"}
    /\ UNCHANGED <<envFile, tls, source, password, archive, mixed, job, started>>

\* The server dies by itself and is to be started again; where the service
\* manager does not do that, StartFails.
ServerDies ==
    /\ Up /\ Restart
    /\ UNCHANGED <<envFile, tls, source, password, archive, mixed, job, started, forgotten>>

RenewCert ==
    /\ source < MaxRenew /\ source' = source + 1
    /\ UNCHANGED <<daemon, envFile, tls, password, archive, mixed, job, started, forgotten>>

WritePassword ==
    /\ password = "placeholder" /\ password' = "real"
    /\ UNCHANGED <<daemon, envFile, tls, source, archive, mixed, job, started, forgotten>>

\* Files are written and not yet loaded.
Owes(j) == job[j].step \in {"start", "restart", "reload", "reload2"} \/ (At(j, "key") /\ job[j].flag)
\* The service is stopped, or will be, and not yet started.
Stopper(j) == job[j].step \in {"data", "config", "start"} \/ (job[j].flag /\ job[j].step \in {"pack", "tar", "clean"})
Opened(j) == job[j].step \in {"reload", "apply", "close"}

\* The script is killed, or, but for a backup, a command of it fails.
JobDies(j) ==
    /\ job[j].step # "idle" /\ JobEnds(j)
    /\ forgotten' = forgotten \cup (IF Owes(j) THEN {"unloaded"} ELSE {})
          \cup (IF Stopper(j) THEN {"down"} ELSE {}) \cup (IF Opened(j) THEN {"recovery"} ELSE {})
    /\ UNCHANGED <<daemon, envFile, tls, source, password, archive, mixed, started>>

MailServerNext ==
    \/ Started \/ StartFails \/ ServerDies \/ RenewCert \/ WritePassword
    \/ \E j \in Job :
        \/ BackupStarts(j) \/ BackupStops(j) \/ BackupPacks(j) \/ BackupWritten(j)
        \/ BackupFails(j) \/ Cleanup(j)
        \/ RestoreStarts(j) \/ RestoreStops(j) \/ RestoreCannotStop(j) \/ RestoreData(j)
        \/ RestoreConfig(j) \/ RestoreStartsServer(j)
        \/ SyncStarts(j) \/ SyncCert(j) \/ SyncKey(j) \/ SyncRestarts(j)
        \/ ForwardAsks(j) \/ ForwardStarts(j) \/ OpenRecovery(j) \/ ReloadRecovery(j)
        \/ ApplyForward(j) \/ CloseRecovery(j) \/ ReloadPlain(j)
        \/ CheckActive(j) \/ JobDies(j)

MailServerSpec == MailInit /\ [][MailServerNext]_mailVars

---------------------------------------------------------------------------
(* Properties.                                                             *)

\* A running server works with what its files say, or a script will restart
\* it, or one ended early or found it running when it was to start it.
LoadedUnlessForgotten ==
    Up /\ (daemon.env # envFile \/ daemon.tls # tls) =>
        "unloaded" \in forgotten \/ \E j \in Job : Owes(j)

\* A stopped server will be started by a script, or one that stopped it
\* ended early, or it would not start, or died by itself.
DownUnlessForgotten ==
    daemon.state = "down" => "down" \in forgotten \/ \E j \in Job : Stopper(j)

\* Recovery mode stays on only if a script that opened it ended early, or a
\* backup made meanwhile was restored.
RecoveryUnlessForgotten ==
    envFile = "recovery" => "recovery" \in forgotten \/ \E j \in Job : Opened(j)

MailAccounted == LoadedUnlessForgotten /\ DownUnlessForgotten /\ RecoveryUnlessForgotten

\* It is known why what the record is of may have been in motion.
Excused(record) == record.crossed \/ record.running

\* "stopping stalwart for consistent snapshot": data in motion goes into a
\* backup, and data of a backup over data in motion, only if the server was
\* about to start when the script began or another script ran meanwhile, or
\* the backup was told not to stop the server or the restore could not.
AtRest ==
    /\ archive' # NoArchive /\ archive'.torn => Excused(archive')
    /\ mixed' /\ ~mixed =>
          \E j \in Job : At(j, "data") /\ (Excused(job[j]) \/ Excused(job[j].taken))

SnapshotAtRest == [][AtRest]_mailVars

\* The server is always accounted for, and no snapshot is torn unnoticed.
MailKept == []MailAccounted /\ SnapshotAtRest

=============================================================================
