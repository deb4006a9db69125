------------------------------- MODULE MCHost -------------------------------
(***************************************************************************)
(* The hosts of the mesh and those who look after them: the private mail   *)
(* server and its installation, the weekly cycle and Magistral deployed on *)
(* a host, the node's database and its calendar, the bearer a machine      *)
(* shares, the fleet observed and diagnosed, and the public console. As in *)
(* MCMachine each behaviour is one of the part that `part` names; the      *)
(* others stand still.                                                     *)
(***************************************************************************)
EXTENDS MailServer, MailInstall, CycleDeploy, MagistralHost, NodeMemory,
        WakeSchedule, BearerApply, Divergence, Diagnose, Console, TLC

CONSTANTS node1, node2, dns, judgment, always, laptopNode

\* What the calendar is asked to schedule: a DNS observation that repeats,
\* a question, the same question put differently, and malformed ones.
MCDns == [id |-> NoRef, work |-> "observation"]
MCAsk == [id |-> judgment, work |-> "question"]
MCAskAgain == [id |-> judgment, work |-> "other question"]
MCPacket == {MCDns, MCAsk, MCAskAgain}
MCWakeFile ==
    {DnsWake(dns, MCDns, 2, 1, 3), [DnsWake(dns, MCDns, NoTime, 1, 3) EXCEPT !.id = NoRef],
     ContinuationWake(judgment, MCAsk, 1),
     [ContinuationWake(judgment, MCAskAgain, NoTime) EXCEPT !.id = judgment],
     [ContinuationWake(judgment, NoPacket, NoTime) EXCEPT !.ref = judgment, !.id = dns]}
MCLegacy == {DnsWake(dns, MCDns, 2, 1, 3)}

\* The manifest: a server and the laptop, in this order.
MCTarget == <<always, laptopNode>>

\* The two processes of each part are alike, and only one part moves.
Swap(S) == CHOOSE f \in Permutations(S) : \A x \in S : f[x] # x
Swaps ==
    LET swap == Swap(Job) @@ Swap(Setup) @@ Swap(Deployer) @@ Swap(Admin) @@ Swap(Opener)
                @@ Swap(Scheduler) @@ Swap(Run) @@ Swap(Watcher)
    IN {swap, [x \in DOMAIN swap |-> x]}
MCSymmetry == Swaps

VARIABLE part

serverVars == <<mailVars, installVars>>
deployVars == <<cycleVars, hostChangeVars>>
storeVars == <<memoryVars, wakeVars, bearerVars>>
lookVars == <<divergenceVars, diagnoseVars, consoleVars>>
partVars == <<part, serverVars, deployVars, storeVars, lookVars>>

HostInit ==
    /\ part \in {"mail", "install", "cycle", "magistral", "memory", "wake", "bearer",
                 "observe", "diagnose", "console"}
    /\ MailInit /\ (part # "mail" => password = "none")
    /\ InstallInit /\ CycleInit
    /\ MagistralInit /\ (part # "magistral" => authority = 0)
    /\ WakeInit /\ (part # "wake" => obligations = [o \in Obligation |-> NoObligation])
    /\ MemoryInit /\ BearerInit
    /\ DivergenceInit
    /\ DiagnoseInit /\ (part # "diagnose" => fault = {})
    /\ ConsoleInit /\ (part # "console" => fleet = 0)

HostNext ==
    /\ UNCHANGED part
    /\ \/ /\ part = "mail" /\ MailServerNext
          /\ UNCHANGED <<installVars, deployVars, storeVars, lookVars>>
       \/ /\ part = "install" /\ InstallNext
          /\ UNCHANGED <<mailVars, deployVars, storeVars, lookVars>>
       \/ /\ part = "cycle" /\ CycleNext
          /\ UNCHANGED <<serverVars, hostChangeVars, storeVars, lookVars>>
       \/ /\ part = "magistral" /\ MagistralNext
          /\ UNCHANGED <<serverVars, cycleVars, storeVars, lookVars>>
       \/ /\ part = "memory" /\ MemoryNext
          /\ UNCHANGED <<serverVars, deployVars, wakeVars, bearerVars, lookVars>>
       \/ /\ part = "wake" /\ WakeNext
          /\ UNCHANGED <<serverVars, deployVars, memoryVars, bearerVars, lookVars>>
       \/ /\ part = "bearer" /\ BearerNext
          /\ UNCHANGED <<serverVars, deployVars, memoryVars, wakeVars, lookVars>>
       \/ /\ part = "observe" /\ DivergenceNext
          /\ UNCHANGED <<serverVars, deployVars, storeVars, diagnoseVars, consoleVars>>
       \/ /\ part = "diagnose" /\ DiagnoseNext
          /\ UNCHANGED <<serverVars, deployVars, storeVars, divergenceVars, consoleVars>>
       \/ /\ part = "console" /\ ConsoleNext
          /\ UNCHANGED <<serverVars, deployVars, storeVars, divergenceVars, diagnoseVars>>

Spec == HostInit /\ [][HostNext]_partVars

\* The state of every part has the types it is declared with.
HostTypeOK ==
    /\ MailTypeOK /\ InstallTypeOK /\ CycleTypeOK /\ MagistralTypeOK
    /\ MemoryTypeOK /\ WakeTypeOK /\ BearerTypeOK
    /\ DivergenceTypeOK /\ DiagnoseTypeOK /\ ConsoleTypeOK

\* The mail server is kept by its scripts, those that install it and those
\* that look after it.
MailHostKept == MailKept /\ InstallKept

=============================================================================
