--------------------------- MODULE NodeAgentProofs ---------------------------
(***************************************************************************)
(* Proofs about NodeAgent and OnaRecovery for any jobs, actions and        *)
(* observers, any number of boots and crashes, and every value of the      *)
(* bounds.                                                                 *)
(***************************************************************************)
EXTENDS MCNodeAgent, TLAPS

---------------------------------------------------------------------------
(* Types.                                                                  *)

LEMMA VanishTyped ==
    ASSUME AgentTypeOK, Vanish
    PROVE  /\ phase' = "down" /\ exiting' = FALSE /\ probe' = Null /\ inc' = inc
           /\ action' = action /\ threw' = threw
           /\ tick' = "idle" /\ todo' = {} /\ current' = Null /\ child' = FALSE
           /\ stray' \in [Job -> Nat]
           /\ UNCHANGED <<row, rested, forgotten, catalogue, breaks>>
  BY DEF AgentTypeOK, Vanish, Abandon, jobVars, worldVars

LEMMA ExitTyped ==
    ASSUME AgentTypeOK, NEW code, NEW signalled \in BOOLEAN, ChildExit(code, signalled)
    PROVE  AgentTypeOK'
  BY VanishTyped DEF AgentTypeOK, ChildExit

LEMMA RefreshTyped ==
    ASSUME AgentTypeOK, RefreshRegistry
    PROVE  /\ row' \in [Job -> {"none", "initial", "interval", "due"}]
           /\ forgotten' \subseteq Job /\ rested' = rested
  <1>1. row' = Synced(NodeJobs)
    BY DEF RefreshRegistry
  <1>2. \A j \in Job : row[j] \in {"none", "initial", "interval", "due"}
    BY DEF AgentTypeOK
  <1> QED
    BY <1>1, <1>2 DEF RefreshRegistry, Synced, AgentTypeOK

LEMMA CompletedTyped ==
    ASSUME AgentTypeOK, NEW j \in Job, Completed(j)
    PROVE  /\ row' \in [Job -> {"none", "initial", "interval", "due"}]
           /\ rested' \in [Job -> BOOLEAN] /\ forgotten' \subseteq Job
           /\ current' = Null /\ child' = FALSE
  BY DEF AgentTypeOK, Completed

LEMMA AcceptedTyped ==
    ASSUME inc \in Nat
    PROVE  /\ Accepted("observation.refresh", "running") \in ActionRow
           /\ Accepted("agent.restart", "restarting") \in ActionRow
           /\ \A a : RefreshRefused(a) \in ActionRow
  BY DEF Accepted, ActionRow, RefreshRefused

LEMMA FinishedTyped ==
    ASSUME AgentTypeOK, NEW a \in Action, action[a] \in ActionRow
    PROVE  Finished(a, "completed") \in [Action -> ActionRow \cup {Null}]
  BY DEF AgentTypeOK, Finished, ActionRow

LEMMA CompletePendingTyped ==
    ASSUME AgentTypeOK
    PROVE  CompletePending(action) \in [Action -> ActionRow \cup {Null}]
  <1> SUFFICES ASSUME NEW a \in Action, action[a] # Null, action[a].state = "restarting"
               PROVE  [action[a] EXCEPT !.state = "completed", !.cur = inc] \in ActionRow
    BY DEF AgentTypeOK, CompletePending
  <1> QED
    BY DEF AgentTypeOK, ActionRow

\* A probe cycle that answers an action finds its row as it was stored, and
\* only while the process has its server.
ProbeInv ==
    /\ sup = "child" <=> phase # "down"
    /\ phase = "down" => probe = Null
    /\ probe = "boot" => phase = "probing"
    /\ probe \in Action =>
         /\ phase \in {"attaching", "serving", "closing"}
         /\ action[probe] \in ActionRow
         /\ action[probe].name = "observation.refresh"
         /\ action[probe].state = "running"

LEMMA Init1 == AgentInit => AgentTypeOK /\ ProbeInv
  <1>1. AgentInit => ProbeInv
    BY AgentAssumption DEF AgentInit, ProbeInv
  <1>2. ASSUME AgentInit PROVE AgentTypeOK
    <2>1. /\ row \in [Job -> {"none", "initial", "interval", "due"}]
          /\ stray \in [Job -> Nat] /\ rested \in [Job -> BOOLEAN]
          /\ action \in [Action -> ActionRow \cup {Null}]
      BY <1>2 DEF AgentInit
    <2> QED
      BY <1>2, <2>1 DEF AgentInit, AgentTypeOK
  <1> QED
    BY <1>1, <1>2

LEMMA ExitKeepsProbe ==
    ASSUME AgentTypeOK, ProbeInv, NEW code, NEW signalled \in BOOLEAN, ChildExit(code, signalled)
    PROVE  ProbeInv'
  BY VanishTyped, AgentAssumption DEF ProbeInv, ChildExit

LEMMA Step1 ==
    ASSUME AgentTypeOK, ProbeInv, [AgentNext]_agentVars
    PROVE  AgentTypeOK' /\ ProbeInv'
  <1> USE AgentAssumption
      DEF supVars, procVars, probeVars, tickVars, jobVars, worldVars, agentVars
  <1>1. CASE Supervise
    BY <1>1 DEF AgentTypeOK, ProbeInv, Supervise
  <1>2. CASE OpenMemory
    BY <1>2, CompletePendingTyped DEF AgentTypeOK, ProbeInv, OpenMemory
  <1>3. CASE Listen
    BY <1>3 DEF AgentTypeOK, ProbeInv, Listen
  <1>4. CASE StartScheduler
    BY <1>4, RefreshTyped DEF AgentTypeOK, ProbeInv, StartScheduler
  <1>5. CASE ProbeEnds
    BY <1>5, FinishedTyped DEF AgentTypeOK, ProbeInv, ProbeEnds
  <1>6. CASE RestartExit
    BY <1>6, ExitTyped, ExitKeepsProbe DEF AgentTypeOK, RestartExit
  <1>7. CASE Closed
    BY <1>7, ExitTyped, ExitKeepsProbe DEF AgentTypeOK, Closed
  <1>8. CASE TickStarts
    <2>1. {j \in Job : row'[j] = "due"} \subseteq Job
      OBVIOUS
    <2> QED
      BY <1>8, <2>1, RefreshTyped DEF AgentTypeOK, ProbeInv, TickStarts
  <1>9. CASE JobEnds
    BY <1>9, CompletedTyped DEF AgentTypeOK, ProbeInv, JobEnds
  <1>10. CASE JobTimesOut
    <2>1. current \in Job
      BY <1>10 DEF JobTimesOut, AgentTypeOK
    <2>2. /\ row' \in [Job -> {"none", "initial", "interval", "due"}]
          /\ rested' \in [Job -> BOOLEAN] /\ forgotten' \subseteq Job
          /\ current' = Null /\ child' = FALSE
      BY <1>10, <2>1, CompletedTyped DEF JobTimesOut
    <2>3. stray' \in [Job -> Nat]
      BY <1>10 DEF JobTimesOut, Abandon, AgentTypeOK
    <2>4. UNCHANGED <<supVars, procVars, probeVars, tick, todo, worldVars>>
      BY <1>10 DEF JobTimesOut
    <2> QED
      BY <2>2, <2>3, <2>4 DEF AgentTypeOK, ProbeInv
  <1>11. CASE CalendarStarts \/ TickEnds
    BY <1>11 DEF AgentTypeOK, ProbeInv, CalendarStarts, TickEnds
  <1>27. CASE SpawnJob
    <2>1. /\ child' = TRUE /\ current' \in Job \ InProcess
          /\ UNCHANGED <<supVars, procVars, probeVars, tick, todo, current, stray, jobVars, worldVars>>
      BY <1>27 DEF SpawnJob
    <2>2. child' \in BOOLEAN /\ (child' => current' \in Job \ InProcess)
      BY <2>1
    <2>3. ProbeInv'
      BY <2>1 DEF ProbeInv
    <2> QED
      BY <2>1, <2>2, <2>3 DEF AgentTypeOK
  <1>12. ASSUME NEW j \in Job, StartJob(j)
         PROVE  AgentTypeOK' /\ ProbeInv'
    BY <1>12 DEF AgentTypeOK, ProbeInv, StartJob
  <1>13. CASE StartService
    BY <1>13 DEF AgentTypeOK, ProbeInv, StartService
  <1>14. ASSUME NEW stop \in BOOLEAN, Signalled(stop)
         PROVE  AgentTypeOK' /\ ProbeInv'
    <2>1. CASE ChildExit(Null, stop)
      BY <2>1, ExitTyped, ExitKeepsProbe
    <2>2. CASE phase \in {"serving", "closing"} /\ phase' = "closing" /\ stopping' = stop
               /\ UNCHANGED <<sup, inc, exiting, probeVars, tickVars, jobVars, worldVars>>
      BY <2>2 DEF AgentTypeOK, ProbeInv
    <2> QED
      BY <1>14, <2>1, <2>2 DEF Signalled
  <1>15. CASE StopService
    <2>1. CASE Signalled(TRUE)
      BY <2>1, <1>14
    <2>2. CASE sup = "top" /\ stopping' = TRUE
               /\ UNCHANGED <<sup, procVars, probeVars, tickVars, jobVars, worldVars>>
      BY <2>2 DEF AgentTypeOK, ProbeInv
    <2> QED
      BY <1>15, <2>1, <2>2 DEF StopService
  <1>16. CASE StopAgent
    BY <1>16, <1>14 DEF StopAgent, AgentTypeOK
  <1>17. CASE Crash
    BY <1>17, ExitTyped, ExitKeepsProbe DEF AgentTypeOK, Crash
  <1>18. CASE BootFails
    BY <1>18, ExitTyped, ExitKeepsProbe DEF AgentTypeOK, BootFails
  <1>19. CASE ProbeTimer
    BY <1>19 DEF AgentTypeOK, ProbeInv, ProbeTimer, Serving
  <1>20. CASE ProbeThrows
    BY <1>20 DEF AgentTypeOK, ProbeInv, ProbeThrows
  <1>21. CASE BreakCatalogue \/ RepairCatalogue
    <2>1. CASE BreakCatalogue
      <3>1. UNCHANGED <<supVars, procVars, probeVars, tickVars, jobVars>>
        BY <2>1 DEF BreakCatalogue
      <3>2. catalogue' = FALSE /\ breaks' = breaks + 1
        BY <2>1 DEF BreakCatalogue
      <3>3. breaks' \in Nat
        BY <3>2 DEF AgentTypeOK
      <3>4. catalogue' \in BOOLEAN
        BY <3>2
      <3> QED
        BY <3>1, <3>3, <3>4 DEF AgentTypeOK, ProbeInv
    <2>2. CASE RepairCatalogue
      BY <2>2 DEF AgentTypeOK, ProbeInv, RepairCatalogue
    <2> QED
      BY <1>21, <2>1, <2>2
  <1>22. ASSUME NEW a \in Action, RequestRefresh(a)
         PROVE  AgentTypeOK' /\ ProbeInv'
    <2>1. CASE probe = Null
      <3>1. action' = [action EXCEPT ![a] = Accepted("observation.refresh", "running")]
        BY <1>22, <2>1 DEF RequestRefresh
      <3>2. action'[a] = Accepted("observation.refresh", "running")
        BY <3>1 DEF AgentTypeOK
      <3> QED
        BY <1>22, <2>1, <3>1, <3>2, AcceptedTyped
        DEF AgentTypeOK, ProbeInv, RequestRefresh, Serving, Accepted
    <2>2. CASE probe # Null
      <3>1. probe \in Action => probe # a
        BY <1>22, NullAssumption DEF ProbeInv, RequestRefresh
      <3> QED
        BY <1>22, <2>2, <3>1, AcceptedTyped DEF AgentTypeOK, ProbeInv, RequestRefresh
    <2> QED
      BY <2>1, <2>2
  <1>23. ASSUME NEW a \in Action, RequestRestart(a)
         PROVE  AgentTypeOK' /\ ProbeInv'
    <2>1. probe \in Action => probe # a
      BY <1>23, NullAssumption DEF ProbeInv, RequestRestart
    <2> QED
      BY <1>23, <2>1, AcceptedTyped DEF AgentTypeOK, ProbeInv, RequestRestart
  <1>24. ASSUME NEW j \in Job, StrayEnds(j)
         PROVE  AgentTypeOK' /\ ProbeInv'
    BY <1>24 DEF AgentTypeOK, ProbeInv, StrayEnds
  <1>25. ASSUME NEW j \in Job, IntervalPasses(j) \/ InitialPasses(j)
         PROVE  AgentTypeOK' /\ ProbeInv'
    <2>1. CASE IntervalPasses(j)
      <3>1. row' \in [Job -> {"none", "initial", "interval", "due"}]
        BY <2>1 DEF AgentTypeOK, IntervalPasses
      <3>2. rested' \in [Job -> BOOLEAN]
        BY <2>1 DEF AgentTypeOK, IntervalPasses
      <3>3. UNCHANGED <<supVars, procVars, probeVars, tickVars, forgotten, worldVars>>
        BY <2>1 DEF IntervalPasses
      <3> QED
        BY <3>1, <3>2, <3>3 DEF AgentTypeOK, ProbeInv
    <2>2. CASE InitialPasses(j)
      BY <2>2 DEF AgentTypeOK, ProbeInv, InitialPasses
    <2> QED
      BY <1>25, <2>1, <2>2
  <1>26. CASE UNCHANGED agentVars
    BY <1>26 DEF AgentTypeOK, ProbeInv
  <1> QED
    BY <1>1, <1>2, <1>3, <1>4, <1>5, <1>6, <1>7, <1>8, <1>9, <1>10, <1>11, <1>12, <1>13,
       <1>15, <1>16, <1>17, <1>18, <1>19, <1>20, <1>21, <1>22, <1>23, <1>24, <1>25, <1>26, <1>27
    DEF AgentNext, AgentProc, JobStep, AgentWorld, PortalAction

\* The tables, flags and timers of the agent hold what they are declared to
\* hold, and a probe cycle run for an action works on that action's row.
THEOREM Typing == AgentSpec => [](AgentTypeOK /\ ProbeInv)
  BY Init1, Step1, PTL DEF AgentSpec

---------------------------------------------------------------------------
(* Management actions.                                                     *)

\* What the two properties need besides each other: no row is from a later
\* process, and one that is opening its memory has none of its own yet.
RowsInv ==
    /\ \A a \in Action : action[a] # Null =>
          action[a].prev <= inc /\ (phase = "opening" => action[a].prev < inc)
    /\ RestartReal /\ RunningRefreshAccounted

coreVars == <<phase, inc, exiting, probe, action, threw>>

LEMMA RowsSame ==
    ASSUME RowsInv, UNCHANGED coreVars
    PROVE  RowsInv'
  BY DEF RowsInv, coreVars, RestartReal, RunningRefreshAccounted

LEMMA RowsExit ==
    ASSUME AgentTypeOK, RowsInv, NEW code, NEW signalled, ChildExit(code, signalled)
    PROVE  RowsInv'
  <1>1. phase' = "down" /\ inc' = inc /\ action' = action /\ threw' = threw
    BY VanishTyped DEF ChildExit
  <1> QED
    BY <1>1 DEF RowsInv, RestartReal, RunningRefreshAccounted

\* The phase moves on within one process that has opened its memory.
LEMMA RowsPhase ==
    ASSUME RowsInv, phase \notin {"down", "opening"}, phase' \notin {"down", "opening"},
           UNCHANGED <<inc, exiting, probe, action, threw>>
    PROVE  RowsInv'
  BY DEF RowsInv, RestartReal, RunningRefreshAccounted

LEMMA RowsStep ==
    ASSUME AgentTypeOK, ProbeInv, RowsInv, [AgentNext]_agentVars
    PROVE  RowsInv'
  <1> USE AgentAssumption, NullAssumption
      DEF supVars, procVars, probeVars, tickVars, jobVars, worldVars, agentVars
  <1>0. \A a \in Action : action[a] # Null => action[a] \in ActionRow
    BY DEF AgentTypeOK
  <1>1. CASE Supervise
    <2>1. CASE stopping
      BY <1>1, <2>1, RowsSame DEF Supervise, coreVars
    <2>2. CASE ~stopping
      <3>1. inc' = inc + 1 /\ phase' = "opening" /\ UNCHANGED <<exiting, probe, action, threw>>
        BY <1>1, <2>2 DEF Supervise
      <3>2. phase = "down"
        BY <1>1 DEF Supervise, ProbeInv
      <3> QED
        BY <1>0, <3>1, <3>2 DEF RowsInv, RestartReal, RunningRefreshAccounted, AgentTypeOK, ActionRow
    <2> QED
      BY <2>1, <2>2
  <1>2. CASE OpenMemory
    <2>1. phase = "opening" /\ phase' = "probing" /\ inc' = inc /\ exiting' = exiting
          /\ threw' = threw /\ action' = CompletePending(action)
      BY <1>2 DEF OpenMemory
    <2> SUFFICES ASSUME NEW a \in Action, action'[a] # Null
                 PROVE  /\ action'[a].prev \in Nat /\ action'[a].prev < inc
                        /\ action'[a].name = "agent.restart" =>
                              action'[a].state = "completed" /\ action'[a].prev < action'[a].cur
      BY <2>1 DEF RowsInv, RestartReal, RunningRefreshAccounted, AgentTypeOK
    <2>2. CASE action[a] # Null /\ action[a].state = "restarting"
      <3>1. action[a] \in ActionRow /\ action[a].prev < inc
        BY <1>0, <2>1, <2>2 DEF RowsInv
      <3>2. action'[a] = [action[a] EXCEPT !.state = "completed", !.cur = inc]
        BY <2>1, <2>2 DEF CompletePending
      <3>3. /\ action'[a].prev = action[a].prev /\ action'[a].cur = inc
            /\ action'[a].state = "completed"
        BY <3>1, <3>2 DEF ActionRow
      <3> QED
        BY <3>1, <3>3 DEF ActionRow
    <2>3. CASE ~(action[a] # Null /\ action[a].state = "restarting")
      <3>1. action'[a] = action[a]
        BY <2>1, <2>3 DEF CompletePending
      <3> QED
        BY <1>0, <2>1, <2>3, <3>1 DEF RowsInv, RestartReal, ActionRow
    <2> QED
      BY <2>2, <2>3
  <1>3. CASE Listen
    BY <1>3, RowsPhase DEF Listen
  <1>4. CASE StartScheduler
    BY <1>4, RowsPhase DEF StartScheduler
  <1>5. CASE ProbeEnds
    <2>1. CASE probe \in Action
      <3>1. /\ action' = Finished(probe, "completed") /\ inc' = inc /\ exiting' = exiting
            /\ threw' = threw /\ phase' = phase
        BY <1>5, <2>1 DEF ProbeEnds
      <3>2. /\ action[probe] \in ActionRow /\ action[probe] # Null
            /\ action[probe].name = "observation.refresh"
        BY <2>1 DEF ProbeInv
      <3>3. /\ action'[probe].prev = action[probe].prev
            /\ action'[probe].name = "observation.refresh"
            /\ action'[probe].state = "completed"
        BY <2>1, <3>1, <3>2 DEF Finished, AgentTypeOK, ActionRow
      <3>4. \A a \in Action : a # probe => action'[a] = action[a]
        BY <3>1 DEF Finished, AgentTypeOK
      <3> QED
        BY <3>1, <3>2, <3>3, <3>4 DEF RowsInv, RestartReal, RunningRefreshAccounted
    <2>2. CASE probe = "boot"
      <3>1. phase = "probing" /\ phase' = "starting" /\ UNCHANGED <<inc, exiting, action, threw>>
        BY <1>5, <2>2 DEF ProbeEnds, ProbeInv
      <3> QED
        BY <2>2, <3>1 DEF RowsInv, RestartReal, RunningRefreshAccounted
    <2>3. CASE probe = "timer"
      BY <1>5, <2>3 DEF ProbeEnds, RowsInv, RestartReal, RunningRefreshAccounted
    <2> QED
      BY <1>5, <2>1, <2>2, <2>3 DEF AgentTypeOK, ProbeEnds
  <1>6. CASE RestartExit \/ Closed \/ Crash \/ BootFails
    BY <1>6, RowsExit DEF RestartExit, Closed, Crash, BootFails
  <1>7. CASE TickStarts \/ SpawnJob \/ JobEnds \/ JobTimesOut \/ CalendarStarts \/ TickEnds
    BY <1>7, RowsSame
       DEF TickStarts, SpawnJob, JobEnds, JobTimesOut, CalendarStarts, TickEnds, coreVars
  <1>8. ASSUME NEW j \in Job,
               StartJob(j) \/ StrayEnds(j) \/ IntervalPasses(j) \/ InitialPasses(j)
        PROVE  RowsInv'
    BY <1>8, RowsSame DEF StartJob, StrayEnds, IntervalPasses, InitialPasses, coreVars
  <1>9. CASE StartService \/ BreakCatalogue \/ RepairCatalogue
    BY <1>9, RowsSame DEF StartService, BreakCatalogue, RepairCatalogue, coreVars
  <1>10. ASSUME NEW stop, Signalled(stop)
         PROVE  RowsInv'
    BY <1>10, RowsExit, RowsPhase DEF Signalled
  <1>11. CASE StopService \/ StopAgent
    BY <1>10, <1>11, RowsSame DEF StopService, StopAgent, coreVars
  <1>12. CASE ProbeTimer
    BY <1>12 DEF ProbeTimer, RowsInv, RestartReal, RunningRefreshAccounted
  <1>13. CASE ProbeThrows
    BY <1>13 DEF ProbeThrows, RowsInv, RestartReal, RunningRefreshAccounted
  <1>14. ASSUME NEW a \in Action, RequestRefresh(a)
         PROVE  RowsInv'
    <2>1. /\ phase \in {"attaching", "serving"} /\ action[a] = Null
          /\ UNCHANGED <<phase, inc, exiting, threw>>
      BY <1>14 DEF RequestRefresh, Serving
    <2>2. /\ action'[a].prev = inc /\ action'[a].name = "observation.refresh"
          /\ action'[a].state = "running" => probe' = a
      <3>1. CASE probe = Null
        <4>1. action'[a] = Accepted("observation.refresh", "running") /\ probe' = a
          BY <1>14, <3>1 DEF RequestRefresh, AgentTypeOK
        <4> QED
          BY <4>1 DEF Accepted
      <3>2. CASE probe # Null
        <4>1. action'[a] = RefreshRefused(a)
          BY <1>14, <3>2 DEF RequestRefresh, AgentTypeOK
        <4> QED
          BY <4>1 DEF RefreshRefused, Accepted
      <3> QED
        BY <3>1, <3>2
    <2>3. \A b \in Action : b # a => action'[b] = action[b]
      BY <1>14 DEF RequestRefresh, AgentTypeOK
    <2>4. \A b \in Action : b # a /\ probe = b => probe' = b
      BY <1>14 DEF RequestRefresh
    <2> QED
      BY <2>1, <2>2, <2>3, <2>4 DEF RowsInv, RestartReal, RunningRefreshAccounted, AgentTypeOK
  <1>15. ASSUME NEW a \in Action, RequestRestart(a)
         PROVE  RowsInv'
    <2>1. /\ phase \in {"attaching", "serving"} /\ action[a] = Null
          /\ UNCHANGED <<phase, inc, probe, threw>> /\ exiting' = TRUE
      BY <1>15 DEF RequestRestart, Serving
    <2>2. /\ action'[a].prev = inc /\ action'[a].state = "restarting"
      BY <1>15 DEF RequestRestart, AgentTypeOK, Accepted
    <2>3. \A b \in Action : b # a => action'[b] = action[b]
      BY <1>15 DEF RequestRestart, AgentTypeOK
    <2> QED
      BY <2>1, <2>2, <2>3 DEF RowsInv, RestartReal, RunningRefreshAccounted, AgentTypeOK
  <1>16. CASE UNCHANGED agentVars
    BY <1>16, RowsSame DEF coreVars
  <1> QED
    BY <1>1, <1>2, <1>3, <1>4, <1>5, <1>6, <1>7, <1>8, <1>9, <1>11, <1>12, <1>13, <1>14,
       <1>15, <1>16
    DEF AgentNext, AgentProc, JobStep, AgentWorld, PortalAction

LEMMA RowsInit == AgentInit => RowsInv
  BY DEF AgentInit, RowsInv, RestartReal, RunningRefreshAccounted

\* A restart is completed by a later process than the one that accepted it,
\* and one that is not belongs to a process on its way out or gone, for any
\* number of boots, crashes, signals and actions.
THEOREM RestartsReal == AgentSpec => []RestartReal
  <1>1. RowsInv => RestartReal
    BY DEF RowsInv
  <1> QED
    BY <1>1, Typing, RowsInit, RowsStep, PTL DEF AgentSpec

\* A refresh is left running only by a cycle that threw or a process that died.
THEOREM RefreshesAccounted == AgentSpec => []RunningRefreshAccounted
  <1>1. RowsInv => RunningRefreshAccounted
    BY DEF RowsInv
  <1> QED
    BY <1>1, Typing, RowsInit, RowsStep, PTL DEF AgentSpec

---------------------------------------------------------------------------
(* Jobs.                                                                   *)

\* A tick works on due rows, which nothing else changes meanwhile, and a row
\* is due too early only after it was deleted.
JobInv ==
    /\ phase \notin {"serving", "closing"} => tick = "idle"
    /\ tick # "jobs" => todo = {} /\ current = Null
    /\ \A j \in todo : row[j] = "due"
    /\ current # Null => row[current] = "due" /\ current \notin todo
    /\ \A j \in Job : rested[j] \/ j \in forgotten \/ row[j] = "interval"

LEMMA JobRefresh ==
    ASSUME AgentTypeOK, \A j \in Job : rested[j] \/ j \in forgotten \/ row[j] = "interval",
           RefreshRegistry
    PROVE  \A j \in Job : rested'[j] \/ j \in forgotten' \/ row'[j] = "interval"
  <1> SUFFICES ASSUME NEW j \in Job, ~rested[j], j \notin forgotten, row[j] = "interval"
               PROVE  j \in forgotten' \/ row'[j] = "interval"
    BY DEF RefreshRegistry
  <1> QED
    BY DEF RefreshRegistry, Synced

LEMMA JobCompleted ==
    ASSUME AgentTypeOK, JobInv, current # Null, Completed(current), UNCHANGED <<phase, tick, todo>>
    PROVE  JobInv'
  <1>1. current \in Job /\ row[current] = "due"
    BY DEF AgentTypeOK, JobInv
  <1>2. row' = [row EXCEPT ![current] = "interval"] /\ current' = Null
    BY <1>1 DEF Completed
  <1>3. \A j \in Job : row'[j] = IF j = current THEN "interval" ELSE row[j]
    BY <1>2 DEF AgentTypeOK
  <1>4. \A j \in Job : rested'[j] \/ j \in forgotten' \/ row'[j] = "interval"
    BY <1>3 DEF Completed, JobInv, AgentTypeOK
  <1> QED
    BY <1>2, <1>3, <1>4 DEF JobInv, AgentTypeOK

LEMMA JobExit ==
    ASSUME AgentTypeOK, JobInv, NEW code, NEW signalled, ChildExit(code, signalled)
    PROVE  JobInv'
  <1>1. /\ tick' = "idle" /\ todo' = {} /\ current' = Null
        /\ UNCHANGED <<row, rested, forgotten>>
    BY VanishTyped DEF ChildExit
  <1> QED
    BY <1>1 DEF JobInv

LEMMA JobSame ==
    ASSUME JobInv, UNCHANGED <<tickVars, jobVars>>,
           phase' \notin {"serving", "closing"} => phase \notin {"serving", "closing"}
    PROVE  JobInv'
  BY DEF JobInv, tickVars, jobVars

LEMMA JobInvStep ==
    ASSUME AgentTypeOK, ProbeInv, JobInv, [AgentNext]_agentVars
    PROVE  JobInv'
  <1> USE AgentAssumption
      DEF supVars, procVars, probeVars, tickVars, jobVars, worldVars, agentVars
  <1>1. CASE Supervise \/ OpenMemory \/ Listen
    BY <1>1, JobSame DEF Supervise, OpenMemory, Listen, ProbeInv
  <1>2. CASE StartScheduler
    <2>1. tick = "idle" /\ todo = {} /\ current = Null /\ UNCHANGED <<tick, todo, current>>
      BY <1>2 DEF StartScheduler, JobInv
    <2> QED
      BY <1>2, <2>1, JobRefresh DEF StartScheduler, JobInv
  <1>3. CASE ProbeEnds
    BY <1>3, JobSame DEF ProbeEnds, ProbeInv
  <1>4. CASE RestartExit \/ Closed \/ Crash \/ BootFails
    BY <1>4, JobExit DEF RestartExit, Closed, Crash, BootFails
  <1>5. CASE TickStarts
    <2>1. current = Null /\ current' = Null /\ tick' = "jobs" /\ phase = "serving" /\ phase' = "serving"
      BY <1>5 DEF TickStarts, MayTick, JobInv
    <2>2. \A j \in todo' : row'[j] = "due"
      BY <1>5 DEF TickStarts
    <2> QED
      BY <1>5, <2>1, <2>2, JobRefresh DEF TickStarts, JobInv
  <1>6. CASE JobEnds
    BY <1>6, JobCompleted DEF JobEnds
  <1>7. CASE JobTimesOut
    <2>1. current # Null
      BY <1>7 DEF JobTimesOut, AgentTypeOK
    <2> QED
      BY <1>7, <2>1, JobCompleted DEF JobTimesOut
  <1>8. CASE CalendarStarts \/ TickEnds \/ SpawnJob
    BY <1>8 DEF CalendarStarts, TickEnds, SpawnJob, JobInv
  <1>9. ASSUME NEW j \in Job, StartJob(j)
        PROVE  JobInv'
    BY <1>9 DEF StartJob, JobInv
  <1>10. ASSUME NEW j \in Job, StrayEnds(j)
         PROVE  JobInv'
    BY <1>10 DEF StrayEnds, JobInv
  <1>11. ASSUME NEW j \in Job, IntervalPasses(j)
         PROVE  JobInv'
    <2>1. \A k \in Job : row'[k] = row[k] \/ (k = j /\ row[k] = "interval" /\ row'[k] = "due")
      BY <1>11 DEF IntervalPasses, AgentTypeOK
    <2>2. \A k \in Job : rested'[k] = (rested[k] \/ k = j)
      BY <1>11 DEF IntervalPasses, AgentTypeOK
    <2>3. UNCHANGED <<phase, tick, todo, current, forgotten>>
      BY <1>11 DEF IntervalPasses
    <2> QED
      BY <2>1, <2>2, <2>3 DEF JobInv, AgentTypeOK
  <1>12. ASSUME NEW j \in Job, InitialPasses(j)
         PROVE  JobInv'
    <2>1. \A k \in Job : row'[k] = row[k] \/ (k = j /\ row[k] = "initial" /\ row'[k] = "due")
      BY <1>12 DEF InitialPasses, AgentTypeOK
    <2>2. UNCHANGED <<phase, tick, todo, current, rested, forgotten>>
      BY <1>12 DEF InitialPasses
    <2> QED
      BY <2>1, <2>2 DEF JobInv, AgentTypeOK
  <1>13. CASE StartService \/ BreakCatalogue \/ RepairCatalogue \/ ProbeTimer \/ ProbeThrows
    BY <1>13, JobSame DEF StartService, BreakCatalogue, RepairCatalogue, ProbeTimer, ProbeThrows
  <1>14. ASSUME NEW stop, Signalled(stop)
         PROVE  JobInv'
    BY <1>14, JobExit, JobSame DEF Signalled
  <1>15. CASE StopService \/ StopAgent
    BY <1>14, <1>15, JobSame DEF StopService, StopAgent
  <1>16. ASSUME NEW a \in Action, RequestRefresh(a) \/ RequestRestart(a)
         PROVE  JobInv'
    BY <1>16, JobSame DEF RequestRefresh, RequestRestart
  <1>17. CASE UNCHANGED agentVars
    BY <1>17, JobSame
  <1> QED
    BY <1>1, <1>2, <1>3, <1>4, <1>5, <1>6, <1>7, <1>8, <1>9, <1>10, <1>11, <1>12, <1>13,
       <1>15, <1>16, <1>17
    DEF AgentNext, AgentProc, JobStep, AgentWorld, PortalAction

LEMMA JobInit == AgentInit => JobInv
  BY AgentAssumption DEF AgentInit, JobInv

\* A job that starts is the one StartJob takes from the tick's list.
LEMMA JobStarts ==
    ASSUME AgentTypeOK, JobInv, [AgentNext]_agentVars,
           NEW j \in Job, current # j, current' = j
    PROVE  rested[j] \/ j \in forgotten
  <1> USE AgentAssumption
      DEF supVars, procVars, probeVars, tickVars, jobVars, worldVars, agentVars
  <1>0. current' # current /\ current' # Null
    OBVIOUS
  <1>1. ~(\E code, signalled : ChildExit(code, signalled))
    BY <1>0, VanishTyped DEF ChildExit
  <1>2. ~(\E stop : Signalled(stop))
    BY <1>0, <1>1 DEF Signalled
  <1>3. ~(RestartExit \/ Closed \/ Crash \/ BootFails \/ StopService \/ StopAgent)
    BY <1>0, <1>1, <1>2 DEF RestartExit, Closed, Crash, BootFails, StopService, StopAgent
  <1>4. ~(JobEnds \/ JobTimesOut)
    BY <1>0 DEF JobEnds, JobTimesOut, Completed
  <1>5. ~(Supervise \/ OpenMemory \/ Listen \/ StartScheduler \/ ProbeEnds \/ TickStarts
          \/ SpawnJob \/ CalendarStarts \/ TickEnds \/ StartService \/ ProbeTimer \/ ProbeThrows
          \/ BreakCatalogue \/ RepairCatalogue)
    BY <1>0 DEF Supervise, OpenMemory, Listen, StartScheduler, ProbeEnds, TickStarts,
       SpawnJob, CalendarStarts, TickEnds, StartService, ProbeTimer, ProbeThrows, BreakCatalogue,
       RepairCatalogue
  <1>6. ~(\E a \in Action : RequestRefresh(a) \/ RequestRestart(a) \/ PortalAction(a))
    BY <1>0 DEF RequestRefresh, RequestRestart, PortalAction
  <1>7. ~(\E k \in Job : StrayEnds(k) \/ IntervalPasses(k) \/ InitialPasses(k))
    BY <1>0 DEF StrayEnds, IntervalPasses, InitialPasses
  <1>8. \E k \in Job : StartJob(k)
    BY <1>0, <1>3, <1>4, <1>5, <1>6, <1>7 DEF AgentNext, AgentProc, JobStep, AgentWorld
  <1>9. j \in todo
    BY <1>8 DEF StartJob
  <1> QED
    BY <1>9 DEF JobInv, AgentTypeOK

\* A job never starts before its interval is over unless its row was deleted,
\* for any jobs, crashes, timeouts and breaks of the catalogue.
THEOREM IntervalsKept == AgentSpec => IntervalKeptUnlessForgotten
  <1>1. ASSUME AgentTypeOK, JobInv, [AgentNext]_agentVars
        PROVE  [\A j \in Job : current # j /\ current' = j => rested[j] \/ j \in forgotten]_agentVars
    BY <1>1, JobStarts
  <1> QED
    BY <1>1, Typing, JobInit, JobInvStep, PTL DEF AgentSpec, IntervalKeptUnlessForgotten

\* Every management action is accounted for (soma-actions.js,
\* management-actions.js), whatever dies when.
THEOREM ActionsStayAccounted == AgentSpec => []ActionsAccounted
  BY RestartsReal, RefreshesAccounted, PTL DEF ActionsAccounted


---------------------------------------------------------------------------
(* Recovery observers: one restart per cooldown.                           *)

\* While a call has met no other, there is none to meet; the time since the
\* last clean attempt is at least that of every call under way and, with the
\* cooldown left, never short of a cooldown; a call that goes to restart has
\* left a cooldown between that attempt and its own beginning.
Apart(c) == \A d \in Mates(c) : ~call[c].alone

CooldownInv ==
  /\ \A c \in Call : Busy(c) => Apart(c)
  /\ \A c \in Call : Busy(c) => clean[DbOf[c]] >= call[c].age
  /\ \A o \in Observer : left[o] + clean[o] >= Cooldown
  /\ \A c \in Call : call[c].pc \in {"reach", "restart"} =>
        clean[DbOf[c]] - call[c].age >= Cooldown

LEMMA RecoveryInitial == RecoveryInit => RecoveryTypeOK /\ CooldownInv
  BY RecoveryAssumption
  DEF RecoveryInit, RecoveryTypeOK, CooldownInv, Idle, PCs, Busy, Apart

LEMMA CallTyped ==
  ASSUME RecoveryTypeOK, NEW c \in Call
  PROVE  /\ DbOf[c] \in Observer /\ left[DbOf[c]] \in Int /\ clean[DbOf[c]] \in Int
         /\ call[c].age \in 0 .. MaxAge /\ call[c].pc \in PCs
  BY RecoveryAssumption DEF RecoveryTypeOK

\* A call that ends frees its mates of nothing they had noticed; only an
\* attempt that nobody met moves `clean`, and then it has no mate.
LEMMA PersistKeeps ==
  ASSUME RecoveryTypeOK, CooldownInv, NEW c \in Call, NEW attempted \in BOOLEAN,
         Busy(c), Persist(c, attempted), UNCHANGED service
  PROVE  RecoveryTypeOK' /\ CooldownInv'
  <1> USE RecoveryAssumption
  <1> DEFINE o == DbOf[c]
  <1>1. /\ o \in Observer /\ call[c].age \in 0 .. MaxAge
        /\ left \in [Observer -> (0 - MaxAge) .. Cooldown]
        /\ clean \in [Observer -> 0 .. Cooldown + MaxAge]
        /\ call \in [Call -> [pc : PCs, age : 0 .. MaxAge, alone : BOOLEAN]]
    BY CallTyped DEF RecoveryTypeOK
  <1>2. call' = [call EXCEPT ![c] = Idle] /\ Idle \in [pc : PCs, age : 0 .. MaxAge, alone : BOOLEAN]
    BY DEF Persist, Idle, PCs
  <1>3. RecoveryTypeOK'
    BY <1>1, <1>2 DEF Persist, RecoveryTypeOK
  <1>4. call'[c].pc = "idle" /\ \A d \in Call \ {c} : call'[d] = call[d]
    BY <1>1, <1>2 DEF Idle
  <1>5. \A d \in Call : Busy(d)' => Apart(d)'
    BY <1>4 DEF CooldownInv, Busy, Apart, Mates
  <1>6. \A d \in Call \ {c} : /\ Busy(d)' => clean'[DbOf[d]] = clean[DbOf[d]]
                              /\ call[d].pc \in {"reach", "restart"} => Busy(d)
    <2> SUFFICES ASSUME NEW d \in Call \ {c}, Busy(d) PROVE clean'[DbOf[d]] = clean[DbOf[d]]
      BY <1>4 DEF Busy
    <2>1. CASE attempted /\ call[c].alone
      <3>1. DbOf[d] # o
        BY <2>1 DEF CooldownInv, Apart, Mates
      <3> QED
        BY <1>1, <3>1, <2>1 DEF Persist
    <2>2. CASE ~(attempted /\ call[c].alone)
      BY <2>2 DEF Persist
    <2> QED
      BY <2>1, <2>2
  <1>7. \A d \in Call : Busy(d)' => clean'[DbOf[d]] >= call'[d].age
    BY <1>4, <1>6 DEF CooldownInv, Busy
  <1>8. \A d \in Call : call'[d].pc \in {"reach", "restart"} =>
          clean'[DbOf[d]] - call'[d].age >= Cooldown
    BY <1>4, <1>6 DEF CooldownInv, Busy
  <1>9. \A p \in Observer : left'[p] + clean'[p] >= Cooldown
    <2> SUFFICES ASSUME NEW p \in Observer PROVE left'[p] + clean'[p] >= Cooldown
      OBVIOUS
    <2>1. left[p] + clean[p] >= Cooldown /\ clean[o] >= call[c].age
      BY DEF CooldownInv
    <2>2. CASE ~attempted
      BY <2>1, <2>2 DEF Persist
    <2>3. CASE attempted /\ call[c].alone
      BY <1>1, <2>1, <2>3 DEF Persist
    <2>4. CASE attempted /\ ~call[c].alone
      BY <1>1, <2>1, <2>4 DEF Persist
    <2> QED
      BY <2>2, <2>3, <2>4
  <1> QED
    BY <1>3, <1>5, <1>7, <1>8, <1>9 DEF CooldownInv

\* A step of c that leaves the cooldown alone and, if it goes to restart,
\* has found none.
LEMMA GoKeeps ==
  ASSUME RecoveryTypeOK, CooldownInv, NEW c \in Call, Busy(c),
         NEW pc \in PCs \ {"idle"}, GoTo(c, pc), UNCHANGED <<left, clean>>,
         service' \in {"serving", "starting", "dead", "stopped"},
         pc \in {"reach", "restart"} =>
           call[c].pc \in {"reach", "restart"} \/ ~Cooling(c)
  PROVE  RecoveryTypeOK' /\ CooldownInv'
  <1>1. call \in [Call -> [pc : PCs, age : 0 .. MaxAge, alone : BOOLEAN]]
    BY DEF RecoveryTypeOK
  <1>2. /\ call' \in [Call -> [pc : PCs, age : 0 .. MaxAge, alone : BOOLEAN]]
        /\ call'[c].pc = pc /\ \A d \in Call \ {c} : call'[d] = call[d]
        /\ \A d \in Call : call'[d].age = call[d].age /\ call'[d].alone = call[d].alone
    BY <1>1 DEF GoTo, PCs
  <1>3. RecoveryTypeOK'
    BY <1>2 DEF RecoveryTypeOK
  <1>4. \A d \in Call : Busy(d)' = Busy(d)
    BY <1>2 DEF Busy
  <1>5. \A d \in Call : Apart(d)' = Apart(d)
    BY <1>2, <1>4 DEF Apart, Mates
  <1>6. pc \in {"reach", "restart"} => clean[DbOf[c]] - call[c].age >= Cooldown
    <2>1. CASE call[c].pc \in {"reach", "restart"}
      BY <2>1 DEF CooldownInv
    <2>2. CASE pc \in {"reach", "restart"} /\ ~Cooling(c)
      <3>1. left[DbOf[c]] + clean[DbOf[c]] >= Cooldown
        BY CallTyped DEF CooldownInv
      <3> QED
        BY <2>2, <3>1, CallTyped, RecoveryAssumption DEF Cooling
    <2> QED
      BY <2>1, <2>2
  <1> QED
    BY <1>2, <1>3, <1>4, <1>5, <1>6 DEF CooldownInv

LEMMA BeginKeeps ==
  ASSUME RecoveryTypeOK, CooldownInv, NEW c \in Call, Begin(c)
  PROVE  RecoveryTypeOK' /\ CooldownInv'
  <1>1. call \in [Call -> [pc : PCs, age : 0 .. MaxAge, alone : BOOLEAN]]
    BY DEF RecoveryTypeOK
  <1>2. /\ call'[c] = [pc |-> "probe", age |-> 0, alone |-> Mates(c) = {}]
        /\ \A d \in Mates(c) : call'[d] = [call[d] EXCEPT !.alone = FALSE]
        /\ \A d \in Call \ ({c} \cup Mates(c)) : call'[d] = call[d]
        /\ UNCHANGED <<service, left, clean>> /\ ~Busy(c)
    BY DEF Begin, Mates
  <1>3. /\ call'[c] \in [pc : PCs, age : 0 .. MaxAge, alone : BOOLEAN]
        /\ Mates(c) # {} => ~call'[c].alone
    <2>1. CASE Mates(c) = {}
      <3>1. call'[c] = [pc |-> "probe", age |-> 0, alone |-> TRUE]
        BY <1>2, <2>1
      <3> QED
        BY <2>1, <3>1, RecoveryAssumption DEF PCs
    <2>2. CASE Mates(c) # {}
      <3>1. call'[c] = [pc |-> "probe", age |-> 0, alone |-> FALSE]
        BY <1>2, <2>2
      <3> QED
        BY <3>1, RecoveryAssumption DEF PCs
    <2> QED
      BY <2>1, <2>2
  <1>4. \A d \in Call : call'[d] \in [pc : PCs, age : 0 .. MaxAge, alone : BOOLEAN]
    <2> SUFFICES ASSUME NEW d \in Call
                 PROVE  call'[d] \in [pc : PCs, age : 0 .. MaxAge, alone : BOOLEAN]
      OBVIOUS
    <2>1. CASE d = c
      BY <1>3, <2>1
    <2>2. CASE d \in Mates(c)
      BY <1>1, <1>2, <2>2
    <2>3. CASE d \notin {c} \cup Mates(c)
      BY <1>1, <1>2, <2>3
    <2> QED
      BY <2>1, <2>2, <2>3
  <1>5. RecoveryTypeOK'
    BY <1>2, <1>4 DEF RecoveryTypeOK, Begin
  <1>6. \A d \in Call \ {c} : call'[d].pc = call[d].pc /\ call'[d].age = call[d].age
    BY <1>1, <1>2
  <1>7. call'[c].pc = "probe" /\ call'[c].age = 0
    BY <1>2
  <1>8. ASSUME NEW d \in Call, Busy(d)', NEW e \in Mates(d)' PROVE ~call'[d].alone
    <2>1. e \in Call /\ e # d /\ DbOf[e] = DbOf[d] /\ call'[e].pc # "idle"
      BY <1>8 DEF Mates, Busy
    <2>2. CASE d = c
      <3>1. e \in Mates(c)
        BY <1>6, <2>1, <2>2 DEF Mates, Busy
      <3> QED
        BY <1>3, <2>2, <3>1
    <2>3. CASE d # c /\ e = c
      <3>1. d \in Mates(c)
        BY <1>6, <1>8, <2>1, <2>3 DEF Mates, Busy
      <3> QED
        BY <1>1, <1>2, <3>1
    <2>4. CASE d # c /\ e # c
      <3>1. Busy(d) /\ e \in Mates(d)
        BY <1>6, <1>8, <2>1, <2>4 DEF Mates, Busy
      <3>2. ~call[d].alone
        BY <3>1 DEF CooldownInv, Apart
      <3> QED
        BY <1>1, <1>2, <2>4, <3>2
    <2> QED
      BY <2>2, <2>3, <2>4
  <1>9. \A d \in Call : Busy(d)' => Apart(d)'
    BY <1>8 DEF Apart
  <1>10. \A d \in Call : Busy(d)' => clean'[DbOf[d]] >= call'[d].age
    <2>1. clean[DbOf[c]] >= 0
      BY CallTyped, RecoveryAssumption DEF RecoveryTypeOK
    <2> QED
      BY <1>2, <1>6, <1>7, <2>1 DEF CooldownInv, Busy
  <1> QED
    BY <1>2, <1>5, <1>6, <1>7, <1>9, <1>10 DEF CooldownInv

LEMMA TimeKeeps ==
  ASSUME RecoveryTypeOK, CooldownInv, TimePasses
  PROVE  RecoveryTypeOK' /\ CooldownInv'
  <1> USE RecoveryAssumption
  <1>1. /\ left \in [Observer -> (0 - MaxAge) .. Cooldown]
        /\ clean \in [Observer -> 0 .. Cooldown + MaxAge]
        /\ call \in [Call -> [pc : PCs, age : 0 .. MaxAge, alone : BOOLEAN]]
    BY DEF RecoveryTypeOK
  <1>2. \A c \in Call : /\ call'[c].pc = call[c].pc /\ call'[c].alone = call[c].alone
                        /\ Busy(c) => call'[c].age = call[c].age + 1 /\ call'[c].age <= MaxAge
                        /\ call'[c] \in [pc : PCs, age : 0 .. MaxAge, alone : BOOLEAN]
    <2> SUFFICES ASSUME NEW c \in Call
                 PROVE  /\ call'[c].pc = call[c].pc /\ call'[c].alone = call[c].alone
                        /\ Busy(c) => call'[c].age = call[c].age + 1 /\ call'[c].age <= MaxAge
                        /\ call'[c] \in [pc : PCs, age : 0 .. MaxAge, alone : BOOLEAN]
      OBVIOUS
    <2>1. CASE Busy(c)
      <3>1. call'[c] = [call[c] EXCEPT !.age = call[c].age + 1] /\ call[c].age < MaxAge
        BY <2>1 DEF TimePasses
      <3> QED
        BY <1>1, <3>1
    <2>2. CASE ~Busy(c)
      BY <1>1, <2>2 DEF TimePasses
    <2> QED
      BY <2>1, <2>2
  <1>3. \A o \in Observer :
          /\ left'[o] = IF left[o] > 0 - MaxAge THEN left[o] - 1 ELSE left[o]
          /\ clean'[o] = IF clean[o] < Cooldown + MaxAge THEN clean[o] + 1 ELSE clean[o]
    BY DEF TimePasses
  <1>4. RecoveryTypeOK'
    <2>1. call' \in [Call -> [pc : PCs, age : 0 .. MaxAge, alone : BOOLEAN]]
      BY <1>2 DEF TimePasses
    <2>2. left' \in [Observer -> (0 - MaxAge) .. Cooldown]
      BY <1>1 DEF TimePasses
    <2>3. clean' \in [Observer -> 0 .. Cooldown + MaxAge]
      BY <1>1 DEF TimePasses
    <2>4. service' \in {"serving", "starting", "dead", "stopped"}
      BY DEF TimePasses, RecoveryTypeOK
    <2> QED
      BY <2>1, <2>2, <2>3, <2>4 DEF RecoveryTypeOK
  <1>5. \A c \in Call : (Busy(c)' => Apart(c)') /\ Busy(c)' = Busy(c)
    BY <1>2 DEF CooldownInv, Busy, Apart, Mates
  <1>6. \A o \in Observer : left'[o] + clean'[o] >= Cooldown
    BY <1>1, <1>3 DEF CooldownInv
  <1>7. ASSUME NEW c \in Call, Busy(c)
        PROVE  /\ clean'[DbOf[c]] >= call'[c].age
               /\ call[c].pc \in {"reach", "restart"} =>
                    clean'[DbOf[c]] - call'[c].age >= Cooldown
    <2>1. /\ DbOf[c] \in Observer /\ clean[DbOf[c]] >= call[c].age
          /\ call[c].pc \in {"reach", "restart"} => clean[DbOf[c]] - call[c].age >= Cooldown
      BY <1>7, CallTyped DEF CooldownInv
    <2>2. clean[DbOf[c]] \in 0 .. Cooldown + MaxAge /\ call[c].age \in 0 .. MaxAge
      BY <1>1, <2>1
    <2> QED
      BY <1>2, <1>3, <1>7, <2>1, <2>2
  <1>8. \A c \in Call : call'[c].pc \in {"reach", "restart"} => Busy(c)
    BY <1>2 DEF Busy
  <1> QED
    BY <1>2, <1>4, <1>5, <1>6, <1>7, <1>8 DEF CooldownInv

LEMMA RecoveryStep ==
  ASSUME RecoveryTypeOK, CooldownInv, [RecoveryNext]_recoveryVars
  PROVE  RecoveryTypeOK' /\ CooldownInv'
  <1>1. CASE TimePasses
    BY <1>1, TimeKeeps
  <1>2. CASE ServiceStep
    <2>1. UNCHANGED <<call, left, clean>> /\ service' \in {"serving", "starting", "dead", "stopped"}
      BY <1>2 DEF ServiceStep, Service
    <2> QED
      BY <2>1 DEF RecoveryTypeOK, CooldownInv, Busy, Apart, Mates
  <1>3. CASE \E c \in Call : Begin(c)
    BY <1>3, BeginKeeps
  <1>4. ASSUME NEW c \in Call,
               AlreadyHealthy(c) \/ FoundDown(c) \/ Reached(c) \/ Unreachable(c)
                 \/ SshRestart(c) \/ SshFails(c) \/ Verified(c)
        PROVE  RecoveryTypeOK' /\ CooldownInv'
    <2>0. Busy(c)
      BY <1>4 DEF AlreadyHealthy, FoundDown, Reached, Unreachable, SshRestart, SshFails,
                  Verified, At, Busy
    <2>1. CASE AlreadyHealthy(c) \/ Unreachable(c) \/ (FoundDown(c) /\ Cooling(c))
      BY <2>0, <2>1, PersistKeeps DEF AlreadyHealthy, Unreachable, FoundDown
    <2>2. CASE Verified(c)
      BY <2>0, <2>2, PersistKeeps DEF Verified
    <2>3. CASE FoundDown(c) /\ ~Cooling(c)
      BY <2>0, <2>3, GoKeeps DEF FoundDown, PCs, RecoveryTypeOK
    <2>4. CASE Reached(c)
      BY <2>0, <2>4, GoKeeps DEF Reached, At, PCs, RecoveryTypeOK
    <2>5. CASE SshRestart(c) \/ SshFails(c)
      <3>1. GoTo(c, "verify") /\ UNCHANGED <<left, clean>>
            /\ service' \in {"serving", "starting", "dead", "stopped"}
        BY <2>5 DEF SshRestart, SshFails, RestartService, RecoveryTypeOK
      <3> QED
        BY <2>0, <3>1, GoKeeps DEF PCs
    <2> QED
      BY <1>4, <2>1, <2>2, <2>3, <2>4, <2>5
  <1>5. ASSUME NEW c \in Call, ObserverDies(c) PROVE RecoveryTypeOK' /\ CooldownInv'
    <2>1. Persist(c, FALSE) /\ Busy(c) /\ UNCHANGED service
      BY <1>5 DEF ObserverDies, Persist
    <2> QED
      BY <2>1, PersistKeeps
  <1>6. CASE UNCHANGED recoveryVars
    BY <1>6 DEF recoveryVars, RecoveryTypeOK, CooldownInv, Busy, Apart, Mates
  <1> QED
    BY <1>1, <1>2, <1>3, <1>4, <1>5, <1>6 DEF RecoveryNext, RecoveryCall

\* What a call does when it restarts: it was at "restart", where a cooldown
\* has passed since the last clean attempt.
LEMMA RestartAfterCooldown ==
  ASSUME CooldownInv
  PROVE  \A c \in Call : At(c, "restart") /\ At(c, "verify")' =>
           clean[DbOf[c]] - call[c].age >= Cooldown
  BY DEF CooldownInv, At

\* Two restarts of one observer within a cooldown need a call that died
\* before it stored its attempt, or one that met another: the state is read
\* in the middle of a call and written at its end, counting from its start.
THEOREM CooldownKept == RecoverySpec => CooldownBrokenOnlyByOverlap
  <1>1. RecoveryInit => RecoveryTypeOK /\ CooldownInv
    BY RecoveryInitial
  <1>2. RecoveryTypeOK /\ CooldownInv /\ [RecoveryNext]_recoveryVars
          => (RecoveryTypeOK /\ CooldownInv)'
    BY RecoveryStep
  <1>3. CooldownInv => (\A c \in Call : At(c, "restart") /\ At(c, "verify")' =>
                          clean[DbOf[c]] - call[c].age >= Cooldown)
    BY RestartAfterCooldown
  <1> QED
    BY <1>1, <1>2, <1>3, PTL DEF RecoverySpec, CooldownBrokenOnlyByOverlap

\* The two parts of a node as the run composes them: whichever of them moves,
\* the other stands still, and both stay within their types.
THEOREM NodeTyped == Spec => []NodeTypeOK
  <1> DEFINE Inv == AgentTypeOK /\ ProbeInv /\ RecoveryTypeOK /\ CooldownInv
  <1>1. NodeInit => Inv
    BY Init1, RecoveryInitial DEF NodeInit
  <1>2. Inv /\ [NodeNext]_nodeVars => Inv'
    <2>1. ASSUME Inv, [NodeNext]_nodeVars
          PROVE  [AgentNext]_agentVars /\ [RecoveryNext]_recoveryVars
      BY <2>1 DEF NodeNext, nodeVars
    <2>2. ASSUME Inv, [NodeNext]_nodeVars PROVE Inv'
      BY <2>1, <2>2, Step1, RecoveryStep
    <2> QED
      BY <2>2
  <1>3. Inv => NodeTypeOK
    BY DEF NodeTypeOK
  <1> QED
    BY <1>1, <1>2, <1>3, PTL DEF Spec

=============================================================================
