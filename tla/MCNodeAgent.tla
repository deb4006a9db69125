---------------------------- MODULE MCNodeAgent ----------------------------
(***************************************************************************)
(* The agent of a node and the observer that watches another one. They     *)
(* share no state, so each behaviour of this module is one of the part     *)
(* that `part` names, while the other stands still.                        *)
(***************************************************************************)
EXTENDS NodeAgent, OnaRecovery, TLC

CONSTANTS c1, c2, observer

MCDbOf == c1 :> observer @@ c2 :> observer

VARIABLE part

nodeVars == <<part, agentVars, recoveryVars>>

NodeInit == part \in {"agent", "recovery"} /\ AgentInit /\ RecoveryInit

NodeNext ==
    /\ UNCHANGED part
    /\ \/ part = "agent" /\ AgentNext /\ UNCHANGED recoveryVars
       \/ part = "recovery" /\ RecoveryNext /\ UNCHANGED agentVars

\* What the code's timers and its own steps guarantee: the supervisor goes
\* round, a boot step runs, a tick takes its next row, a spawned child is
\* timed out. What is awaited without a limit need not settle: the import of
\* a script, a script in process, an obligation of the calendar; nor need a
\* probe cycle end well, nor the machine stay up.
AgentFairness ==
    /\ WF_agentVars(part = "agent" /\ Supervise)
    /\ WF_agentVars(part = "agent" /\ OpenMemory)
    /\ WF_agentVars(part = "agent" /\ RestartExit)
    /\ WF_agentVars(part = "agent" /\ Closed)
    /\ WF_agentVars(part = "agent" /\ TickStarts)
    /\ WF_agentVars(part = "agent" /\ \E j \in Job : StartJob(j))
    /\ WF_agentVars(part = "agent" /\ JobTimesOut)
    /\ WF_agentVars(part = "agent" /\ CalendarStarts)

\* The observer is started again and again by its timer; the watched node is
\* then found down, reached over ssh and restarted in one of its attempts.
RecoveryFairness ==
    /\ SF_recoveryVars(part = "recovery" /\ TimePasses)
    /\ WF_recoveryVars(part = "recovery" /\
          (Begin(c1) \/ FoundDown(c1) \/ Unreachable(c1) \/ Verified(c1)))
    /\ WF_recoveryVars(part = "recovery" /\
          (Begin(c2) \/ FoundDown(c2) \/ Unreachable(c2) \/ Verified(c2)))
    /\ SF_recoveryVars(part = "recovery" /\ FoundDown(c1) /\ ~Cooling(c1))
    /\ SF_recoveryVars(part = "recovery" /\ FoundDown(c2) /\ ~Cooling(c2))
    /\ SF_recoveryVars(part = "recovery" /\ Reached(c1))
    /\ SF_recoveryVars(part = "recovery" /\ Reached(c2))
    /\ SF_recoveryVars(part = "recovery" /\ SshRestart(c1))
    /\ SF_recoveryVars(part = "recovery" /\ SshRestart(c2))

Spec == NodeInit /\ [][NodeNext]_nodeVars /\ AgentFairness

---------------------------------------------------------------------------
(* The types of every part, and liveness.                                  *)

\* The state of both has the types it is declared with: what the columns of
\* the node's memory and the slots of its processes can hold.
NodeTypeOK ==
    AgentTypeOK /\ RecoveryTypeOK

\* An accepted restart is completed, whether or not the next boot gets as
\* far as serving, unless the service is stopped (or the model's boots are
\* used up).
RestartCompletes ==
    \A a \in Action :
        (action[a] # Null /\ action[a].state = "restarting")
            ~> \/ action[a] # Null /\ action[a].state = "completed"
               \/ sup = "ended" \/ (inc = MaxBoots /\ phase = "down")

\* The scheduler serves: a due row is run, however slow a spawned child is,
\* and the calendar's obligations are looked at again and again, unless one
\* of the awaits that have no limit never settles: the import or the run of a
\* script in process, or an obligation. That one stops both for good.
SchedulerServes ==
    \/ /\ \A j \in Job : (phase = "serving" /\ row[j] = "due")
                            ~> (current = j \/ row[j] # "due" \/ phase # "serving")
       /\ (phase = "serving") ~> (tick = "calendar" \/ phase # "serving")
    \/ <>[](current # Null /\ ~child)
    \/ <>[](tick = "calendar")

\* A watched agent that its own supervisor does not start again is restarted
\* by the observer, though calls overlap, fail or die, and whatever was
\* attempted before is cooling down. (Its fairness is assumed here, where it
\* is needed, and not of the agent.)
StoppedServiceReturns ==
    RecoveryFairness => ((part = "recovery" /\ service = "stopped") ~> (service # "stopped"))

=============================================================================
