----------------------------- MODULE Divergence -----------------------------
(***************************************************************************)
(* `operium observe nodes` (lib/fractanet-observation.js): a run asks the  *)
(* nodes of a manifest over ssh, a few at a time, compares the answers     *)
(* with what the manifest expects, and leaves a continuation for every     *)
(* divergence in a directory that other runs share. People resolve the     *)
(* continuations there.                                                    *)
(*                                                                         *)
(* A node is what the manifest can tell of it: it is off, it is sound, or  *)
(* a service has failed, a repository is dirty or is gone. `head` is the   *)
(* revision of its repository, 0 the one a manifest that pins it expects.  *)
(***************************************************************************)
EXTENDS Naturals, FiniteSets, Sequences

CONSTANTS
    Target,        \* the nodes of the manifest, in its order
    Intermittent,  \* the ones declared intermittent
    Pinned,        \* the ones whose repository has an expected revision
    Watcher,       \* runs of the command
    Concurrency,   \* nodes asked at once
    MaxHead,       \* bound on the commits made on a node
    MaxTurn,       \* bound on the changes of what the nodes are
    MaxWatch,      \* bound on the runs
    NoAnswer       \* a node that has not been asked

Asked == {Target[i] : i \in DOMAIN Target}

VARIABLES
    host,       \* what each node is
    turns,      \* how often that has changed
    store,      \* the continuations in the directory, by id
    watcher,    \* the runs
    watches     \* how many runs there were

divergenceVars == <<host, turns, store, watcher, watches>>

Condition == {"off", "sound", "failed", "dirty", "gone"}
Invariant == {"ssh_reachable", "service", "repository_revision", "repository_clean"}

\* What the digest covers; a failed probe always has the same one.
ProbeFailed == [is |-> "off", head |-> 0]
Evidence == [is : Condition \ {"off"}, head : 0 .. MaxHead] \cup {ProbeFailed}
ASSUME DivergenceAssumption ==
    /\ Target \in Seq(Asked) /\ NoAnswer \notin Evidence
    /\ Concurrency \in Nat \ {0} /\ {MaxHead, MaxTurn, MaxWatch} \subseteq Nat
    /\ Intermittent \subseteq Asked /\ Pinned \subseteq Asked

ContinuationId == [node : Asked, invariant : Invariant, evidence : Evidence]

\* steady: history, nodes that have not changed since the run began.
NoWatch == [step |-> "idle", cursor |-> 1, busy |-> {}, got |-> [n \in Asked |-> NoAnswer],
            todo |-> {}, absent |-> {}, steady |-> {}]

\* Types of the variables above.
DivergenceTypeOK ==
    /\ host \in [Asked -> [is : Condition, head : 0 .. MaxHead]]
    /\ turns \in 0 .. MaxTurn /\ watches \in 0 .. MaxWatch
    /\ DOMAIN store \subseteq ContinuationId /\ \A c \in DOMAIN store : store[c] \in {"active", "resolved"}
    /\ watcher \in [Watcher ->
          [step : {"idle", "collect", "persist", "done"}, cursor : 1 .. Len(Target) + 1,
           busy : SUBSET Asked, got : [Asked -> Evidence \cup {NoAnswer}],
           todo : SUBSET ContinuationId, absent : SUBSET ContinuationId, steady : SUBSET Asked]]
    /\ \A w \in Watcher : Cardinality(watcher[w].busy) <= Concurrency

DivergenceInit ==
    /\ host = [n \in Asked |-> [is |-> "sound", head |-> 0]] /\ turns = 0
    /\ store = [c \in {} |-> "active"] /\ watches = 0
    /\ watcher = [w \in Watcher |-> NoWatch]

---------------------------------------------------------------------------
(* Collection: workers share a cursor.                                     *)

Observe(w) ==
    /\ watcher[w].step \in {"idle", "done"} /\ watches < MaxWatch /\ watches' = watches + 1
    /\ watcher' = [watcher EXCEPT ![w] = [NoWatch EXCEPT !.step = "collect", !.steady = Asked]]
    /\ UNCHANGED <<host, turns, store>>

\* Mutant of Advance: the cursor moves when a worker is free again and
\* finds it still there.
AdvanceTwice(k) == IF k + 2 > Len(Target) THEN Len(Target) + 1 ELSE k + 2

Advance(k) == k + 1

\* A free worker takes the next node: no await between the test and the step.
TakeNode(w) ==
    /\ watcher[w].step = "collect" /\ watcher[w].cursor <= Len(Target)
    /\ Cardinality(watcher[w].busy) < Concurrency
    /\ watcher' = [watcher EXCEPT ![w].busy = @ \cup {Target[watcher[w].cursor]},
                                  ![w].cursor = Advance(@)]
    /\ UNCHANGED <<host, turns, store, watches>>

\* A repository that is gone has no revision to tell.
Answer(n) == [is |-> host[n].is, head |-> IF host[n].is = "gone" THEN 0 ELSE host[n].head]

\* The node answers with what it is now; ssh may also fail for its own
\* reasons, which this run cannot tell from a node that is off.
Answers(w, n) ==
    /\ n \in watcher[w].busy
    /\ \E e \in {ProbeFailed} \cup (IF host[n].is = "off" THEN {} ELSE {Answer(n)}) :
          watcher' = [watcher EXCEPT ![w].busy = @ \ {n}, ![w].got[n] = e,
                        ![w].steady = IF e = ProbeFailed /\ host[n].is # "off"
                                      THEN @ \ {n} ELSE @]
    /\ UNCHANGED <<host, turns, store, watches>>

---------------------------------------------------------------------------
(* Report and continuations.                                               *)

\* A missing repository has no revision and nothing that is dirty; any other
\* revision than the expected one diverges.
Broken(n, e) ==
    {i \in Invariant :
        \/ i = "ssh_reachable" /\ e = ProbeFailed
        \/ i = "service" /\ e.is = "failed"
        \/ i = "repository_clean" /\ e.is = "dirty"
        \/ /\ i = "repository_revision" /\ n \in Pinned /\ e.is # "off"
           /\ e.is = "gone" \/ e.head # 0}

\* buildDivergenceReport: of an intermittent node that is not reached, the
\* report only says it is uncertain. A node without an answer counts as off.
Divergences(got) ==
    {c \in ContinuationId :
        LET e == IF got[c.node] = NoAnswer THEN ProbeFailed ELSE got[c.node]
        IN /\ c.evidence = e /\ c.invariant \in Broken(c.node, e)
           /\ ~(c.invariant = "ssh_reachable" /\ c.node \in Intermittent)}

\* All workers have returned; with or without a directory.
Report(w) ==
    /\ watcher[w].step = "collect" /\ watcher[w].cursor > Len(Target) /\ watcher[w].busy = {}
    /\ \E todo \in {Divergences(watcher[w].got), {}} :
          watcher' = [watcher EXCEPT ![w].step = "persist", ![w].todo = todo]
    /\ UNCHANGED <<host, turns, store, watches>>

\* existsSync: one that is there, active or resolved, is left alone.
Exists(w, c) ==
    /\ watcher[w].step = "persist" /\ watcher[w].absent = {} /\ c \in watcher[w].todo
    /\ watcher' = [watcher EXCEPT ![w].todo = @ \ {c},
                                  ![w].absent = IF c \in DOMAIN store THEN {} ELSE {c}]
    /\ UNCHANGED <<host, turns, store, watches>>

\* writeFileSync replaces what another run has written meanwhile.
Created(c) == [d \in DOMAIN store \cup {c} |-> IF d = c THEN "active" ELSE store[d]]

WriteContinuation(w) ==
    /\ \E c \in watcher[w].absent : store' = Created(c)
    /\ watcher' = [watcher EXCEPT ![w].absent = {}]
    /\ UNCHANGED <<host, turns, watches>>

\* The summary line and the exit code.
Summary(w) ==
    /\ watcher[w].step = "persist" /\ watcher[w].todo = {} /\ watcher[w].absent = {}
    /\ watcher' = [watcher EXCEPT ![w].step = "done"]
    /\ UNCHANGED <<host, turns, store, watches>>

---------------------------------------------------------------------------
(* The nodes and the people.                                               *)

HostChanges(n) ==
    /\ turns < MaxTurn /\ turns' = turns + 1
    /\ \/ \E is \in Condition \ {host[n].is} : host' = [host EXCEPT ![n].is = is]
       \/ host[n].head < MaxHead /\ host' = [host EXCEPT ![n].head = @ + 1]
    /\ watcher' = [w \in Watcher |-> [watcher[w] EXCEPT !.steady = @ \ {n}]]
    /\ UNCHANGED <<store, watches>>

Resolve(c) ==
    /\ c \in DOMAIN store /\ store[c] = "active"
    /\ store' = [store EXCEPT ![c] = "resolved"]
    /\ UNCHANGED <<host, turns, watcher, watches>>

WatcherDies(w) ==
    /\ watcher[w].step # "idle" /\ watcher' = [watcher EXCEPT ![w] = NoWatch]
    /\ UNCHANGED <<host, turns, store, watches>>

DivergenceNext ==
    \/ \E n \in Asked : HostChanges(n)
    \/ \E c \in DOMAIN store : Resolve(c)
    \/ \E w \in Watcher :
        \/ Observe(w) \/ TakeNode(w) \/ Report(w) \/ WriteContinuation(w) \/ Summary(w)
        \/ WatcherDies(w)
        \/ \E n \in watcher[w].busy : Answers(w, n)
        \/ \E c \in watcher[w].todo : Exists(w, c)

DivergenceSpec == DivergenceInit /\ [][DivergenceNext]_divergenceVars

---------------------------------------------------------------------------
(* Properties.                                                             *)

\* The divergences of a node, as it is.
Diverges(n) ==
    {i \in Invariant :
        \/ i = "ssh_reachable" /\ host[n].is = "off" /\ n \notin Intermittent
        \/ i = "service" /\ host[n].is = "failed"
        \/ i = "repository_clean" /\ host[n].is = "dirty"
        \/ /\ i = "repository_revision" /\ n \in Pinned /\ host[n].is # "off"
           /\ host[n].is = "gone" \/ host[n].head # 0}

\* When all nodes have been asked, the report says of a node that did not
\* change and could be reached exactly what is wrong with it, whichever
\* worker asked it and whatever the others found.
SteadyJudgedRight ==
    \A w \in Watcher :
        watcher[w].step = "collect" /\ watcher[w].cursor > Len(Target) /\ watcher[w].busy = {} =>
            \A n \in watcher[w].steady :
                {c.invariant : c \in {d \in Divergences(watcher[w].got) : d.node = n}} = Diverges(n)

\* A resolved continuation is only opened again by a run that had found the
\* file absent before it was there.
ResolvedStays ==
    \A c \in DOMAIN store : store[c] = "resolved" =>
        \/ store'[c] = "resolved"
        \/ \E w \in Watcher : c \in watcher[w].absent

\* Every step leads to an honest report, and spares what is resolved.
ObservationHonest == [][SteadyJudgedRight' /\ ResolvedStays]_divergenceVars

=============================================================================
