----------------------------- MODULE NodeAgent -----------------------------
(***************************************************************************)
(* One node's agent and what keeps it running: the supervisor loop, the    *)
(* boot of the process, its routes for management actions, the probe       *)
(* worker and the job scheduler, over the tables management_actions and    *)
(* scheduled_jobs that outlive the process.                                *)
(*                                                                         *)
(* The process is single threaded: a step is what runs between two awaits. *)
(* Time is what the code compares: a row of scheduled_jobs is due or not   *)
(* yet, and `rested` remembers whether a job's interval has passed since   *)
(* it last completed.                                                      *)
(***************************************************************************)
EXTENDS Naturals, FiniteSets

CONSTANTS
    Job,         \* job ids of the catalogue and of ONA_EXTRA_JOBS_JSON
    ExtraJob,    \* the ones of ONA_EXTRA_JOBS_JSON, which need no catalogue
    InProcess,   \* the ones whose script exports runScheduledHeartbeat
    Action,      \* ids of management actions
    MaxBoots,    \* bound on the process incarnations
    MaxStray,    \* bound on abandoned children of one job
    MaxBreaks,   \* bound on the times the catalogue file breaks
    Null

ASSUME AgentAssumption ==
    /\ ExtraJob \subseteq Job /\ InProcess \subseteq Job
    /\ {MaxBoots, MaxStray, MaxBreaks} \subseteq Nat
    /\ Null \notin Job \cup Action
    /\ {"boot", "timer"} \cap Action = {} /\ Null \notin {"boot", "timer"}

VARIABLES
    sup,        \* the supervisor: "top" of its loop, "child" running, "ended"
    stopping,   \* a signal has reached the supervisor
    phase,      \* the agent process
    inc,        \* its incarnation
    exiting,    \* the 250 ms timer of an accepted restart runs
    probe,      \* who runs the probe cycle: "boot", "timer", an action or Null
    action,     \* management_actions
    threw,      \* refreshes whose probe cycle threw
    row,        \* scheduled_jobs: "none", "initial", "interval" or "due"
    tick,       \* the scheduler: "idle", "jobs" or "calendar"
    todo,       \* due rows this tick has listed and not run yet
    current,    \* the job it awaits, or Null
    child,      \* a child runs for that job: the import of its script has settled
    stray,      \* children of a job that nobody waits for any more
    rested,     \* the job's interval has passed since it last completed
    forgotten,  \* jobs whose row was deleted since they last completed
    catalogue,  \* the catalogue file can be read
    breaks      \* how often it broke

supVars   == <<sup, stopping>>
procVars  == <<phase, inc, exiting>>
probeVars == <<probe, action, threw>>
tickVars  == <<tick, todo, current, child, stray>>
jobVars   == <<row, rested, forgotten>>
worldVars == <<catalogue, breaks>>
agentVars == <<supVars, procVars, probeVars, tickVars, jobVars, worldVars>>

ActionRow ==
    [name: {"observation.refresh", "agent.restart"},
     state: {"running", "restarting", "completed", "failed"},
     prev: Nat, cur: Nat \cup {Null}]

ASSUME NullAssumption == Null \notin ActionRow

\* Types of the variables above.
AgentTypeOK ==
    /\ sup \in {"top", "child", "ended"} /\ stopping \in BOOLEAN
    /\ phase \in {"down", "opening", "probing", "starting", "attaching",
                  "serving", "closing"}
    /\ inc \in Nat /\ exiting \in BOOLEAN
    /\ probe \in {Null, "boot", "timer"} \cup Action
    /\ action \in [Action -> ActionRow \cup {Null}]
    /\ threw \subseteq Action
    /\ row \in [Job -> {"none", "initial", "interval", "due"}]
    /\ tick \in {"idle", "jobs", "calendar"}
    /\ todo \subseteq Job /\ current \in Job \cup {Null}
    /\ child \in BOOLEAN /\ (child => current \in Job \ InProcess)
    /\ stray \in [Job -> Nat]
    /\ rested \in [Job -> BOOLEAN] /\ forgotten \subseteq Job
    /\ catalogue \in BOOLEAN /\ breaks \in Nat

AgentInit ==
    /\ sup = "top" /\ stopping = FALSE
    /\ phase = "down" /\ inc = 0 /\ exiting = FALSE
    /\ probe = Null /\ action = [a \in Action |-> Null] /\ threw = {}
    /\ row = [j \in Job |-> "none"]
    /\ tick = "idle" /\ todo = {} /\ current = Null /\ child = FALSE
    /\ stray = [j \in Job |-> 0]
    /\ rested = [j \in Job |-> TRUE] /\ forgotten = {}
    /\ catalogue = TRUE /\ breaks = 0

\* The HTTP server listens and takes new connections.
Serving == phase \in {"attaching", "serving"}

---------------------------------------------------------------------------
(* The process ends: with it go its timers, its probe cycle and its tick.  *)
(* A child it was waiting for is not killed.                               *)

\* One more child of j nobody waits for; beyond the bound they are not counted.
Abandon(j) == [stray EXCEPT ![j] = IF @ < MaxStray THEN @ + 1 ELSE @]

Vanish ==
    /\ phase' = "down" /\ exiting' = FALSE /\ probe' = Null
    /\ tick' = "idle" /\ todo' = {} /\ current' = Null /\ child' = FALSE
    /\ stray' = IF child THEN Abandon(current) ELSE stray
    /\ UNCHANGED <<inc, action, threw, jobVars, worldVars>>

\* waitForExit and what the loop does with the outcome; the delay before
\* the next round is part of being at the top.
ChildExit(code, signalled) ==
    /\ Vanish
    /\ stopping' = signalled
    /\ sup' = IF signalled \/ code = 0 THEN "ended" ELSE "top"

\* The loop starts the agent, or ends because a signal came in the delay.
Supervise ==
    /\ sup = "top"
    /\ IF stopping
       THEN sup' = "ended" /\ UNCHANGED procVars
       ELSE /\ inc < MaxBoots
            /\ sup' = "child" /\ phase' = "opening" /\ inc' = inc + 1
            /\ UNCHANGED exiting
    /\ UNCHANGED <<stopping, probeVars, tickVars, jobVars, worldVars>>

\* Someone starts the supervisor again: an operator, a service manager.
StartService ==
    /\ sup = "ended"
    /\ sup' = "top" /\ stopping' = FALSE
    /\ UNCHANGED <<procVars, probeVars, tickVars, jobVars, worldVars>>

---------------------------------------------------------------------------
(* Boot: the database, the pending restarts, a first probe cycle, the      *)
(* server, the navigation gateway and the scheduler.                       *)

\* Mutant of CompletePending: only what this incarnation accepted.
CompleteOwn(rows) ==
    [a \in Action |->
        IF rows[a] # Null /\ rows[a].state = "restarting" /\ rows[a].prev = inc
        THEN [rows[a] EXCEPT !.state = "completed", !.cur = inc]
        ELSE rows[a]]

\* completePendingRestartActions: every restart of any earlier incarnation.
CompletePending(rows) ==
    [a \in Action |->
        IF rows[a] # Null /\ rows[a].state = "restarting"
        THEN [rows[a] EXCEPT !.state = "completed", !.cur = inc]
        ELSE rows[a]]

OpenMemory ==
    /\ phase = "opening"
    /\ action' = CompletePending(action)
    /\ phase' = "probing" /\ probe' = "boot"
    /\ UNCHANGED <<supVars, inc, exiting, threw, tickVars, jobVars, worldVars>>

Listen ==
    /\ phase = "starting" /\ phase' = "attaching"
    /\ UNCHANGED <<supVars, inc, exiting, probeVars, tickVars, jobVars, worldVars>>

\* The database cannot be opened, the first cycle throws, or the port is
\* taken: exit 1. A cycle that throws later is caught.
BootFails ==
    /\ phase \in {"opening", "probing", "starting"}
    /\ ChildExit(1, stopping)

---------------------------------------------------------------------------
(* The probe worker, whose `running` flag is probe # Null.                 *)

\* The interval of the worker, and POST /node/probe; while a cycle runs
\* both are refused and leave no trace.
ProbeTimer ==
    /\ Serving /\ probe = Null /\ probe' = "timer"
    /\ UNCHANGED <<supVars, procVars, action, threw, tickVars, jobVars, worldVars>>

\* executeObservationRefresh after its await: the row of the action whose
\* cycle has ended.
Finished(a, state) ==
    [action EXCEPT ![a].state = state,
                   ![a].cur = IF state = "completed" THEN inc ELSE Null]

\* runCycle returns, to boot, to the timer or to a route.
ProbeEnds ==
    /\ probe # Null /\ probe' = Null
    /\ action' = IF probe \in Action THEN Finished(probe, "completed") ELSE action
    /\ phase' = IF probe = "boot" THEN "starting" ELSE phase
    /\ UNCHANGED <<supVars, inc, exiting, threw, tickVars, jobVars, worldVars>>

\* runCycle throws: `running` is cleared, a route answers 500 and its row
\* is left as it is.
ProbeThrows ==
    /\ probe \in Action \cup {"timer"} /\ probe' = Null
    /\ threw' = threw \cup ({probe} \cap Action)
    /\ UNCHANGED <<supVars, procVars, action, tickVars, jobVars, worldVars>>

---------------------------------------------------------------------------
(* Management actions, by the SOMA routes and by the portal of this node.  *)

Accepted(name, state) ==
    [name |-> name, state |-> state, prev |-> inc, cur |-> Null]

\* Mutant of RefreshRefused: the row gets a state of its own.
RefreshRejected(a) == [Accepted("observation.refresh", "running") EXCEPT !.state = "rejected"]

\* POST observation.refresh: the row is stored, then the cycle is awaited;
\* if one is running the row is closed at once, with the answer 409.
RefreshRefused(a) == [Accepted("observation.refresh", "running") EXCEPT !.state = "failed"]

RequestRefresh(a) ==
    /\ Serving /\ action[a] = Null
    /\ IF probe = Null
       THEN /\ action' = [action EXCEPT ![a] = Accepted("observation.refresh", "running")]
            /\ probe' = a
       ELSE /\ action' = [action EXCEPT ![a] = RefreshRefused(a)]
            /\ UNCHANGED probe
    /\ UNCHANGED <<supVars, procVars, threw, tickVars, jobVars, worldVars>>

\* Mutant of RequestRestart: accepted, and no exit is armed.
RestartUnarmed(a) ==
    /\ Serving /\ action[a] = Null
    /\ action' = [action EXCEPT ![a] = Accepted("agent.restart", "restarting")]
    /\ UNCHANGED <<supVars, procVars, probe, threw, tickVars, jobVars, worldVars>>

\* POST agent.restart: 202, and the process exits 250 ms later.
RequestRestart(a) ==
    /\ Serving /\ action[a] = Null
    /\ action' = [action EXCEPT ![a] = Accepted("agent.restart", "restarting")]
    /\ exiting' = TRUE
    /\ UNCHANGED <<supVars, phase, inc, probe, threw, tickVars, jobVars, worldVars>>

RestartExit == exiting /\ ChildExit(75, stopping)

\* The portal does the same in process for its own host and forwards nothing.
PortalAction(a) == RequestRefresh(a) \/ RequestRestart(a)

---------------------------------------------------------------------------
(* Signals and faults.                                                     *)

\* A signal to the process: its handlers are installed once it serves. They
\* stop the timers and close the server; before that it just dies.
Signalled(stop) ==
    \/ /\ phase \in {"opening", "probing", "starting", "attaching"}
       /\ ChildExit(Null, stop)
    \/ /\ phase \in {"serving", "closing"}
       /\ phase' = "closing" /\ stopping' = stop
       /\ UNCHANGED <<sup, inc, exiting, probeVars, tickVars, jobVars, worldVars>>

\* SIGTERM to the supervisor, which passes it on.
StopService ==
    /\ ~stopping
    /\ \/ sup = "child" /\ Signalled(TRUE)
       \/ /\ sup = "top" /\ stopping' = TRUE
          /\ UNCHANGED <<sup, procVars, probeVars, tickVars, jobVars, worldVars>>

\* SIGTERM to the agent alone: its clean exit also ends the supervisor.
StopAgent == phase # "closing" /\ Signalled(stopping)

\* The server has closed: exit 0. The restart timer may come first.
Closed == phase = "closing" /\ ChildExit(0, stopping)

\* The process is killed or fails at any point.
Crash == phase # "down" /\ ChildExit(1, stopping)

BreakCatalogue ==
    /\ catalogue /\ breaks < MaxBreaks
    /\ catalogue' = FALSE /\ breaks' = breaks + 1
    /\ UNCHANGED <<supVars, procVars, probeVars, tickVars, jobVars>>

RepairCatalogue ==
    /\ ~catalogue /\ catalogue' = TRUE
    /\ UNCHANGED <<supVars, procVars, probeVars, tickVars, jobVars, breaks>>

---------------------------------------------------------------------------
(* The job scheduler. `syncing` is tick # "idle" and `runningJob` is       *)
(* tick = "jobs": the second is set only while the first is, so the tick   *)
(* never meets it.                                                         *)

\* resolveNodeJobs: a catalogue that cannot be read gives no node, and so
\* no jobs but the extra ones.
NodeJobs == IF catalogue THEN Job ELSE ExtraJob

\* Mutant of Synced: every row is written anew.
SyncedAfresh(found) ==
    [j \in Job |-> IF j \notin found THEN "none"
                   ELSE IF row[j] = "due" THEN "due" ELSE "initial"]

\* syncScheduledJobs: a new row waits 30 s or its interval if that is less;
\* a known row keeps its time; a row of no job is deleted.
Synced(found) ==
    [j \in Job |-> IF j \notin found THEN "none"
                   ELSE IF row[j] = "none" THEN "initial" ELSE row[j]]

RefreshRegistry ==
    /\ row' = Synced(NodeJobs)
    /\ forgotten' = forgotten \cup {j \in Job \ NodeJobs : row[j] # "none"}
    /\ UNCHANGED rested

\* The scheduler starts, and the signal handlers are installed.
StartScheduler ==
    /\ phase = "attaching" /\ phase' = "serving"
    /\ RefreshRegistry
    /\ UNCHANGED <<supVars, inc, exiting, probeVars, tickVars, worldVars>>

\* A tick of the timer that is not refused with sync_in_progress: the rows
\* are refreshed and the due ones listed.
MayTick == phase = "serving" /\ tick = "idle"

TickStarts ==
    /\ MayTick
    /\ RefreshRegistry
    /\ tick' = "jobs" /\ todo' = {j \in Job : row'[j] = "due"}
    /\ UNCHANGED <<supVars, procVars, probeVars, current, child, stray, worldVars>>

\* The next listed row; their order is the order of next_run_at.
StartJob(j) ==
    /\ tick = "jobs" /\ current = Null /\ j \in todo
    /\ current' = j /\ todo' = todo \ {j}
    /\ UNCHANGED <<supVars, procVars, probeVars, tick, child, stray, jobVars, worldVars>>

\* tryRunScriptInProcess awaits the import of every script, without a limit;
\* one that exports no runScheduledHeartbeat, or fails to load, is spawned.
SpawnJob ==
    /\ current \in Job \ InProcess /\ ~child /\ child' = TRUE
    /\ UNCHANGED <<supVars, procVars, probeVars, tick, todo, current, stray, jobVars, worldVars>>

\* The UPDATE after a job, by job id.
Completed(j) ==
    /\ row' = IF row[j] = "none" THEN row ELSE [row EXCEPT ![j] = "interval"]
    /\ rested' = [rested EXCEPT ![j] = FALSE]
    /\ forgotten' = forgotten \ {j}
    /\ current' = Null /\ child' = FALSE

\* The script returns, fails, is not found, or its child closes.
JobEnds ==
    /\ current # Null
    /\ Completed(current)
    /\ UNCHANGED <<supVars, procVars, probeVars, tick, todo, stray, worldVars>>

\* Mutant of JobTimesOut: the child is signalled and still waited for.
JobSignalled == child /\ UNCHANGED agentVars

\* 120 s after the spawn: the child is sent SIGTERM and the job reported at
\* once. The import of a script, and a script in process, have no such limit.
JobTimesOut ==
    /\ child
    /\ stray' = Abandon(current)
    /\ Completed(current)
    /\ UNCHANGED <<supVars, procVars, probeVars, tick, todo, worldVars>>

StrayEnds(j) ==
    /\ stray[j] > 0 /\ stray' = [stray EXCEPT ![j] = @ - 1]
    /\ UNCHANGED <<supVars, procVars, probeVars, tick, todo, current, child, jobVars, worldVars>>

\* After the last row, the calendar's obligations, and the tick is over.
CalendarStarts ==
    /\ tick = "jobs" /\ todo = {} /\ current = Null
    /\ tick' = "calendar"
    /\ UNCHANGED <<supVars, procVars, probeVars, todo, current, child, stray, jobVars, worldVars>>

\* The obligations are awaited one by one, a DNS lookup over HTTPS among
\* them, without a limit.
TickEnds ==
    /\ tick = "calendar" /\ tick' = "idle"
    /\ UNCHANGED <<supVars, procVars, probeVars, todo, current, child, stray, jobVars, worldVars>>

\* The interval of a job, from its last completion; next_run_at is the same
\* moment if the row still says so.
IntervalPasses(j) ==
    /\ ~rested[j] /\ current # j
    /\ rested' = [rested EXCEPT ![j] = TRUE]
    /\ row' = IF row[j] = "interval" THEN [row EXCEPT ![j] = "due"] ELSE row
    /\ UNCHANGED <<supVars, procVars, probeVars, tickVars, forgotten, worldVars>>

\* The 30 s of a new row.
InitialPasses(j) ==
    /\ row[j] = "initial" /\ row' = [row EXCEPT ![j] = "due"]
    /\ UNCHANGED <<supVars, procVars, probeVars, tickVars, rested, forgotten, worldVars>>

---------------------------------------------------------------------------
AgentProc ==
    \/ Supervise \/ OpenMemory \/ Listen \/ StartScheduler
    \/ ProbeEnds \/ RestartExit \/ Closed

JobStep ==
    \/ TickStarts \/ SpawnJob \/ JobEnds \/ JobTimesOut \/ CalendarStarts \/ TickEnds
    \/ \E j \in Job : StartJob(j)

AgentWorld ==
    \/ StartService \/ StopService \/ StopAgent \/ Crash \/ BootFails
    \/ ProbeTimer \/ ProbeThrows \/ BreakCatalogue \/ RepairCatalogue
    \/ \E a \in Action : RequestRefresh(a) \/ RequestRestart(a) \/ PortalAction(a)
    \/ \E j \in Job : StrayEnds(j) \/ IntervalPasses(j) \/ InitialPasses(j)

AgentNext == AgentProc \/ JobStep \/ AgentWorld

AgentSpec == AgentInit /\ [][AgentNext]_agentVars

---------------------------------------------------------------------------
(* Properties.                                                             *)

\* A restart that is reported completed was completed by a later process
\* than the one that accepted it. One that is not completed belongs to a
\* process on its way out, or no process has come as far as a probe since:
\* a restart is not forgotten because the boot after it failed.
RestartReal ==
    \A a \in Action : action[a] # Null /\ action[a].name = "agent.restart" =>
        \/ action[a].state = "completed" /\ action[a].prev < action[a].cur
        \/ /\ action[a].state = "restarting"
           /\ \/ phase \in {"down", "opening"}
              \/ action[a].prev = inc /\ exiting

\* A refresh that is still "running" is the cycle in progress, unless its
\* process died or its cycle threw: those two leave it so for ever.
RunningRefreshAccounted ==
    \A a \in Action : action[a] # Null /\ action[a].state = "running" =>
        \/ probe = a /\ action[a].prev = inc
        \/ a \in threw
        \/ action[a].prev < inc \/ phase = "down"

\* A job starts again before its interval is over only if its row was
\* deleted meanwhile, which a catalogue that cannot be read for one tick
\* does to every job of the catalogue.
IntervalKeptUnlessForgotten ==
    [][\A j \in Job : current # j /\ current' = j => rested[j] \/ j \in forgotten]_agentVars

\* Every management action is accounted for.
ActionsAccounted == RestartReal /\ RunningRefreshAccounted

=============================================================================
