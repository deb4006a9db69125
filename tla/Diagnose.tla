------------------------------ MODULE Diagnose ------------------------------
(***************************************************************************)
(* `operium node diagnose` (lib/node-diagnose.js): an observer looks at    *)
(* the public aggregator, at the services of its own machine and at what   *)
(* the node agent has last found out, one call after the other, and ends   *)
(* with one exit code. The agent (probe-worker.js) probes in cycles of its *)
(* own and keeps the last result, so what the observer is told of the node *)
(* is older than what it sees itself.                                      *)
(*                                                                         *)
(* What can be wrong is a set of faults. Addresses, texts and details of   *)
(* the registry are left out; so are the hints that are always given       *)
(* (planned nodes, missing secrets).                                       *)
(***************************************************************************)
EXTENDS Naturals, FiniteSets

CONSTANTS
    Probes,      \* the probes configured besides the agent's own
    Possible,    \* the faults there can be
    MaxFault,    \* bound on the changes of what is wrong
    MaxCrash,    \* bound on the ends of the agent
    NoBody       \* an answer that did not come

\* registry: the file is unreadable; aggregator: no answer; sick: it answers
\* that it is not ok; laptop: the capable host is offline; tool_host: no
\* fresh tool host on the blackboard; sync: no recent blackboard sync.
Fault == {"registry", "aggregator", "sick", "guide", "mcp", "semantic", "gateway", "inox",
          "laptop", "tool_host", "sync"}
ProbeKind == {"ona", "gateway", "inox", "guide_semantic", "aggregator"}

ASSUME DiagnoseAssumption ==
    /\ Probes \subseteq ProbeKind \ {"ona"} /\ Possible \subseteq Fault
    /\ {MaxFault, MaxCrash} \subseteq Nat

VARIABLES
    fault,      \* what is wrong now
    faults,     \* how often that has changed
    agent,      \* the node agent: phase, the cycle it is in
    row,        \* local_state: result of the last cycle
    latest,     \* probe_history: last result of every kind
    crashes,    \* ends of the agent
    observer    \* the command

diagnoseVars == <<fault, faults, agent, row, latest, crashes, observer>>

Severity == {"info", "warn", "error"}
DriftItem == [kind : {"catalogue_vs_live", "node_offline", "blackboard_stale", "local_service_down",
                      "aggregator_unreachable", "catalogue_unreachable", "health_degraded"},
              severity : Severity]
Item(k, s) == [kind |-> k, severity |-> s]

---------------------------------------------------------------------------
(* The agent's probes and their score.                                     *)

\* What a node asks of its registry needs the registry.
Applicable(readable) ==
    {"ona"} \cup {k \in Probes : k \in {"gateway", "inox"} => readable}

\* The agent probes itself over HTTP: before it listens, that fails.
Passes(k) ==
    CASE k = "ona" -> agent.phase = "serving"
      [] k = "guide_semantic" -> fault \cap {"guide", "semantic"} = {}
      [] k = "aggregator" -> fault \cap {"aggregator", "sick"} = {}
      [] OTHER -> k \notin fault

\* max(2, 3 - failed) is 2 whenever one has failed.
HealthScore(readable, passed, failed) ==
    IF ~readable THEN 2
    ELSE IF failed = {} THEN IF Cardinality(passed) >= 3 THEN 4 ELSE 3
    ELSE IF passed = {} THEN 1 ELSE 2

NoCycle == [on |-> FALSE, readable |-> TRUE, todo |-> {}, passed |-> {}, failed |-> {}, calm |-> FALSE]
NoResult == [passed |-> {}, failed |-> {}, score |-> 0, boot |-> FALSE, calm |-> FALSE]
NoLook == [step |-> "idle", readable |-> TRUE, laptop |-> FALSE, remote |-> "unreached", face |-> {},
           fresh |-> FALSE, inox |-> "skipped", status |-> NoBody, drift |-> {}, told |-> FALSE,
           calm |-> TRUE, code |-> 3]

\* Types of the variables above.
DiagnoseTypeOK ==
    /\ fault \subseteq Fault /\ faults \in 0 .. MaxFault /\ crashes \in 0 .. MaxCrash
    /\ agent \in [phase : {"down", "boot", "serving"},
                  cycle : [on : BOOLEAN, readable : BOOLEAN, todo : SUBSET ProbeKind,
                           passed : SUBSET ProbeKind, failed : SUBSET ProbeKind, calm : BOOLEAN]]
    /\ row \in [passed : SUBSET ProbeKind, failed : SUBSET ProbeKind, score : 0 .. 4,
                boot : BOOLEAN, calm : BOOLEAN]
    /\ latest \in [ProbeKind -> {"none", "pass", "fail"}]
    /\ observer.step \in {"idle", "mesh", "status", "blackboard", "inox", "ona_status",
                          "ona_drift", "verdict", "done"}
    /\ observer.remote \in {"unreached", "sick", "ok"} /\ observer.face \subseteq {"guide", "mcp"}
    /\ observer.drift \subseteq DriftItem /\ observer.code \in 0 .. 3

DiagnoseInit ==
    /\ fault \in {f \in SUBSET Possible : Cardinality(f) <= 1} /\ faults = 0 /\ crashes = 0
    /\ agent = [phase |-> "down", cycle |-> NoCycle] /\ row = NoResult
    /\ latest = [k \in ProbeKind |-> "none"] /\ observer = NoLook

---------------------------------------------------------------------------
(* The world and the agent.                                                *)

\* History: neither the row nor the look now under way is of one state.
Stir == row' = [row EXCEPT !.calm = FALSE] /\ observer' = [observer EXCEPT !.calm = FALSE]

FaultComesOrGoes(f) ==
    /\ faults < MaxFault /\ faults' = faults + 1
    /\ fault' = IF f \in fault THEN fault \ {f} ELSE fault \cup {f}
    /\ agent' = [agent EXCEPT !.cycle.calm = FALSE] /\ Stir
    /\ UNCHANGED <<latest, crashes>>

StartCycle == [NoCycle EXCEPT !.on = TRUE, !.readable = "registry" \notin fault, !.calm = TRUE,
                              !.todo = Applicable("registry" \notin fault)]

\* main(): the first cycle runs before the server listens.
AgentStarts ==
    /\ agent.phase = "down" /\ agent' = [phase |-> "boot", cycle |-> StartCycle]
    /\ UNCHANGED <<fault, faults, row, latest, crashes, observer>>

\* The timer, or POST /node/probe; one cycle at a time.
NextCycle ==
    /\ agent.phase = "serving" /\ ~agent.cycle.on
    /\ agent' = [agent EXCEPT !.cycle = StartCycle]
    /\ UNCHANGED <<fault, faults, row, latest, crashes, observer>>

Order == <<"ona", "gateway", "inox", "guide_semantic", "aggregator">>
Earlier(k) == {Order[i] : i \in {j \in 1 .. 5 : \E m \in (j + 1) .. 5 : Order[m] = k}}

RunProbe(k) ==
    /\ agent.cycle.on /\ k \in agent.cycle.todo /\ agent.cycle.todo \cap Earlier(k) = {}
    /\ agent' = [agent EXCEPT !.cycle.todo = @ \ {k},
                   !.cycle.passed = IF Passes(k) THEN @ \cup {k} ELSE @,
                   !.cycle.failed = IF Passes(k) THEN @ ELSE @ \cup {k}]
    /\ UNCHANGED <<fault, faults, row, latest, crashes, observer>>

\* Mutant of Newest: of several results of a kind the first one is taken.
OldestOf(k) == IF latest[k] # "none" THEN latest[k]
               ELSE IF k \in agent.cycle.passed THEN "pass"
               ELSE IF k \in agent.cycle.failed THEN "fail" ELSE "none"

\* readLatestProbes, of the rows with the ones of this cycle.
Newest(k) == IF k \in agent.cycle.passed THEN "pass"
             ELSE IF k \in agent.cycle.failed THEN "fail" ELSE latest[k]

\* applyProbeCycle: history of the probes that were not skipped, and the
\* row; after the first cycle the server listens.
CycleEnds ==
    LET c == agent.cycle IN
    /\ c.on /\ c.todo = {}
    /\ row' = [passed |-> c.passed, failed |-> c.failed, boot |-> agent.phase = "boot",
               score |-> HealthScore(c.readable, c.passed, c.failed), calm |-> c.calm]
    /\ latest' = [k \in ProbeKind |-> Newest(k)]
    /\ agent' = [phase |-> "serving", cycle |-> NoCycle]
    /\ UNCHANGED <<fault, faults, crashes, observer>>

AgentEnds ==
    /\ agent.phase # "down" /\ crashes < MaxCrash /\ crashes' = crashes + 1
    /\ agent' = [phase |-> "down", cycle |-> NoCycle] /\ Stir
    /\ UNCHANGED <<fault, faults, latest>>

---------------------------------------------------------------------------
(* operium up: mesh, aggregator, blackboard, local services.               *)

OnStep(step) == observer.step = step
Looks(rec) == observer' = rec /\ UNCHANGED <<fault, faults, agent, row, latest, crashes>>

LookStarts ==
    /\ observer.step \in {"idle", "done"}
    /\ Looks([NoLook EXCEPT !.step = "mesh", !.readable = "registry" \notin fault])

LookMesh == OnStep("mesh") /\ Looks([observer EXCEPT !.step = "status", !.laptop = "laptop" \notin fault])

Face == {"guide", "mcp"} \ fault

\* An answer with ok: false is an answer: its blackboard is used.
LookStatus ==
    /\ OnStep("status")
    /\ Looks(IF "aggregator" \in fault THEN [observer EXCEPT !.step = "inox"]
             ELSE [observer EXCEPT !.step = "blackboard", !.face = Face,
                     !.remote = IF "sick" \in fault THEN "sick" ELSE "ok",
                     !.fresh = "tool_host" \notin fault])

\* A failed read keeps what the status said.
LookBlackboard ==
    /\ OnStep("blackboard")
    /\ Looks([observer EXCEPT !.step = "inox",
                !.fresh = IF "aggregator" \in fault THEN @ ELSE "tool_host" \notin fault])

\* computeDrift.
UpDrift(o) ==
    {i \in DriftItem :
        \/ i = Item("catalogue_vs_live", "info")
        \/ i = Item("node_offline", "warn") /\ o.readable /\ ~o.laptop
        \/ i = Item("blackboard_stale", "warn") /\ o.laptop /\ ~o.fresh
        \/ i = Item("local_service_down", "warn") /\ o.inox = "fail"
        \/ i = Item("aggregator_unreachable", "error") /\ o.remote # "ok"}

LookInox ==
    /\ OnStep("inox")
    /\ LET o == [observer EXCEPT !.step = "ona_status",
                   !.inox = IF "inox" \notin Probes \/ ~observer.readable THEN "skipped"
                            ELSE IF "inox" \in fault THEN "fail" ELSE "pass"]
       IN Looks([o EXCEPT !.drift = UpDrift(o)])

HasError(items) == \E i \in items : i.severity = "error"

\* summarizeHealth.
UpCritical(o) == o.remote = "ok" /\ o.face # {}
UpScore(o) ==
    IF ~UpCritical(o) THEN 1
    ELSE IF HasError(UpDrift(o)) THEN 2
    ELSE IF o.fresh THEN 4 ELSE 3

---------------------------------------------------------------------------
(* The node: its status, its drift, the verdict.                           *)

LookOnaStatus ==
    /\ OnStep("ona_status")
    /\ Looks(IF agent.phase # "serving" THEN [observer EXCEPT !.step = "ona_drift"]
             ELSE [observer EXCEPT !.step = "ona_drift", !.status = row,
                                   !.calm = @ /\ row.calm])

\* computeNodeDrift: the registry as it is now, the last result of a kind
\* however old it is, the score of the last cycle.
NodeDrift ==
    {i \in DriftItem :
        \/ i = Item("catalogue_unreachable", "error") /\ "registry" \in fault
        \/ /\ i = Item("local_service_down", "warn") /\ "registry" \notin fault
           /\ \E k \in Probes \cap {"gateway", "inox"} : latest[k] = "fail"
        \/ i = Item("local_service_down", "error") /\ latest["ona"] = "fail"
        \/ i = Item("blackboard_stale", "warn") /\ "sync" \in fault
        \/ i = Item("health_degraded", "error") /\ row.score <= 1
        \/ i = Item("health_degraded", "warn") /\ row.score = 2}

LookOnaDrift ==
    /\ OnStep("ona_drift")
    /\ Looks(IF agent.phase # "serving" THEN [observer EXCEPT !.step = "verdict"]
             ELSE [observer EXCEPT !.step = "verdict", !.told = TRUE,
                                   !.drift = UpDrift(observer) \cup NodeDrift])

Least(a, b) == IF a <= b THEN a ELSE b
Greatest(a, b) == IF a >= b THEN a ELSE b

\* exitCodeForUp, of the summary the two sides are merged into: an error
\* that the node's drift tells makes the path not critical_path_ok.
UpCode(o) ==
    LET score == IF o.status = NoBody THEN UpScore(o) ELSE Least(UpScore(o), o.status.score)
    IN IF ~UpCritical(o) \/ (o.told /\ HasError(o.drift)) THEN 2
       ELSE IF score <= 2 THEN 1 ELSE 0

\* exitCodeForNodeResult, for `operium node status`.
StatusCode(score) == IF score <= 2 THEN 2 ELSE IF score = 3 THEN 1 ELSE 0

\* exitCodeForDiagnose.
DiagnoseCode(o) ==
    IF o.status = NoBody \/ o.status.failed # {} THEN Greatest(UpCode(o), 2)
    ELSE Greatest(UpCode(o), StatusCode(o.status.score))

Verdict ==
    /\ OnStep("verdict") /\ Looks([observer EXCEPT !.step = "done", !.code = DiagnoseCode(observer)])

DiagnoseNext ==
    \/ \E f \in Possible : FaultComesOrGoes(f)
    \/ AgentStarts \/ NextCycle \/ CycleEnds \/ AgentEnds
    \/ \E k \in ProbeKind : RunProbe(k)
    \/ LookStarts \/ LookMesh \/ LookStatus \/ LookBlackboard \/ LookInox
    \/ LookOnaStatus \/ LookOnaDrift \/ Verdict

DiagnoseSpec == DiagnoseInit /\ [][DiagnoseNext]_diagnoseVars

---------------------------------------------------------------------------
(* Properties.                                                             *)

\* Faults that somebody has to see to: the registry, the aggregator, both
\* public services, or anything that is probed.
Unsound ==
    \/ fault \cap {"registry", "aggregator", "sick"} # {} \/ Face = {}
    \/ fault \cap Probes # {}
    \/ "guide_semantic" \in Probes /\ fault \cap {"guide", "semantic"} # {}

\* If nothing has changed since the cycle began whose row the observer was
\* given, exit code 0 means sound, and any other that something is wrong,
\* that the agent did not answer, that its row is the one of its first
\* cycle (which always finds the agent itself unreachable), or that fewer
\* than three probes are configured. Whatever changes meanwhile, no verdict
\* is better than what `node status` says, and none is 0 unheard.
VerdictExact ==
    observer.step = "done" =>
        LET heard == observer.status # NoBody IN
        /\ observer.code = 0 => heard
        /\ observer.calm /\ observer.code = 0 => ~Unsound
        /\ observer.calm /\ observer.code # 0 =>
               \/ Unsound \/ ~heard \/ observer.status.boot
               \/ Cardinality(observer.status.passed) < 3
        /\ heard => observer.code >= StatusCode(observer.status.score)

=============================================================================
