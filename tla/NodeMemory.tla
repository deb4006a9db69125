----------------------------- MODULE NodeMemory -----------------------------
(***************************************************************************)
(* The database of a node (lib/node-agent/db.js, migrate.js, local-state.js, *)
(* snapshot.js) and the processes that open it: the agent, a second agent  *)
(* started by hand, and every run of a tool (`node snapshot --peer`, the   *)
(* invocation log). Each of them brings the schema up to date and seeds    *)
(* the row of the local node before it does its work; every SQL statement  *)
(* commits by itself.                                                      *)
(*                                                                         *)
(* The row of an identity is the number of the probe cycle it shows, a     *)
(* snapshot of the peer (there is one) the number in the order the peer    *)
(* made them.                                                              *)
(***************************************************************************)
EXTENDS Naturals, Sequences

CONSTANTS
    Opener,                \* processes that open the database
    NodeId,                \* identities the catalogue gives the node
    Configured,            \* the one of its configuration
    NoRow,                 \* no row of an identity
    Seeded,                \* "resource://local", of a tool that names none
    Version, MaxSql,       \* migrations, and the statements of each
    MaxSnapshots,          \* snapshots kept of a peer (50 in the code)
    MaxTraffic             \* bound on the probe cycles and the answers of the peer

ASSUME MemoryAssumption ==
    /\ Version \subseteq Nat /\ MaxSql \in Nat /\ MaxSnapshots \in Nat \ {0}
    /\ MaxTraffic \in Nat
    /\ Configured \in NodeId /\ Seeded \notin NodeId /\ NoRow \notin Nat

VARIABLES
    executed,    \* the statements that have been executed, per migration
    recorded,    \* schema_migrations
    localState,  \* local_state, by node id: NoRow or the last probe cycle
    snapshots,   \* peer_snapshots, oldest first
    catalogue,   \* the identity in the catalogue
    opener,      \* the processes
    probes, made, stored  \* probe cycles, answers of the peer, rows ever stored

memoryVars == <<executed, recorded, localState, snapshots, catalogue, opener,
                probes, made, stored>>

Identity == NodeId \cup {Seeded}
\* write is the second half of a probe cycle; retire and upsert those of sync.
MemorySteps == {"idle", "migrate", "boot", "probe", "write", "sync", "retire", "upsert", "run",
                "ready", "due", "asked", "answered", "tried", "done"}

\* found: the row to retire; begun and since: rows stored and answers made when the fetch began;
\* crossed: an older answer was under way then; got: the answer shown.
Closed == [step |-> "idle", agent |-> FALSE, applied |-> {}, sql |-> 0, id |-> Configured,
           found |-> Seeded, booted |-> FALSE, begun |-> 0, since |-> 0, crossed |-> FALSE, answer |-> 0, got |-> 0]

\* Types of the variables above.
MemoryTypeOK ==
    /\ executed \in [Version -> 0 .. MaxSql] /\ recorded \subseteq Version
    /\ localState \in [Identity -> Nat \cup {NoRow}]
    /\ snapshots \in Seq([made : Nat, at : Nat]) /\ Len(snapshots) <= MaxSnapshots
    /\ catalogue \in NodeId /\ probes \in Nat /\ made \in Nat /\ stored \in Nat
    /\ opener \in [Opener -> [step : MemorySteps, agent : BOOLEAN, applied : SUBSET Version,
          sql : 0 .. MaxSql, id : NodeId, found : Identity, booted : BOOLEAN, begun : Nat, since : Nat,
          crossed : BOOLEAN, answer : Nat, got : Nat]]

MemoryInit ==
    /\ executed = [v \in Version |-> 0] /\ recorded = {} /\ snapshots = <<>>
    /\ localState = [i \in Identity |-> NoRow] /\ catalogue = Configured
    /\ opener = [p \in Opener |-> Closed] /\ probes = 0 /\ made = 0 /\ stored = 0

Is(p, step) == opener[p].step = step
Becomes(p, step) == opener' = [opener EXCEPT ![p].step = step]

---------------------------------------------------------------------------
(* openNodeMemoryDb.                                                       *)

\* The applied versions are read once, when the database is opened.
OpenDb(p) ==
    /\ Is(p, "idle")
    /\ \E agent \in BOOLEAN : opener' = [opener EXCEPT ![p] =
          [Closed EXCEPT !.step = "migrate", !.agent = agent, !.applied = recorded]]
    /\ UNCHANGED <<executed, recorded, localState, snapshots, catalogue, probes, made, stored>>

Pending(p) == {v \in Version \ opener[p].applied :
                   \A w \in Version \ opener[p].applied : v <= w}

\* CREATE ... IF NOT EXISTS: again does nothing.
ExecMigration(p) ==
    /\ Is(p, "migrate") /\ opener[p].sql < MaxSql
    /\ \E v \in Pending(p) :
          executed' = [executed EXCEPT ![v] = IF opener[p].sql < @ THEN @ ELSE opener[p].sql + 1]
    /\ opener' = [opener EXCEPT ![p].sql = @ + 1]
    /\ UNCHANGED <<recorded, localState, snapshots, catalogue, probes, made, stored>>

\* Mutant of AllExecuted: a version is recorded before its last statement.
AllButOne(p) == opener[p].sql + 1 >= MaxSql

AllExecuted(p) == opener[p].sql = MaxSql

RecordMigration(p) ==
    /\ Is(p, "migrate") /\ AllExecuted(p)
    /\ \E v \in Pending(p) :
          /\ recorded' = recorded \cup {v}
          /\ opener' = [opener EXCEPT ![p].applied = @ \cup {v}, ![p].sql = 0]
    /\ UNCHANGED <<executed, localState, snapshots, catalogue, probes, made, stored>>

\* INSERT ... ON CONFLICT DO NOTHING, which is what an upsert of an identity
\* does to the cycle its row shows.
WithRow(rows, id) == [rows EXCEPT ![id] = IF @ = NoRow THEN 0 ELSE @]

\* Also the start of the agent: its worker has the configured identity.
SeedLocalState(p) ==
    /\ Is(p, "migrate") /\ Pending(p) = {}
    /\ localState' = WithRow(localState, IF opener[p].agent THEN Configured ELSE Seeded)
    /\ Becomes(p, IF opener[p].agent THEN "boot" ELSE "ready")
    /\ UNCHANGED <<executed, recorded, snapshots, catalogue, probes, made, stored>>

---------------------------------------------------------------------------
(* The agent: its probe cycle and its identity.                            *)

\* The catalogue may be unreadable; then the configured identity serves.
LoadIdentity(p) ==
    /\ opener[p].step \in {"boot", "run"} /\ opener[p].agent /\ probes + made < MaxTraffic
    /\ \E id \in {catalogue, Configured} :
          opener' = [opener EXCEPT ![p].id = id, ![p].step = "probe"]
    /\ UNCHANGED <<executed, recorded, localState, snapshots, catalogue, probes, made, stored>>

\* The probes have answered: the row is upserted.
ApplyProbeCycle(p) ==
    /\ Is(p, "probe") /\ localState' = WithRow(localState, opener[p].id) /\ Becomes(p, "write")
    /\ UNCHANGED <<executed, recorded, snapshots, catalogue, probes, made, stored>>

\* Then updated, if it is still there.
StoreProbeCycle(p) ==
    /\ Is(p, "write") /\ probes' = probes + 1
    /\ localState' = [localState EXCEPT ![opener[p].id] = IF @ = NoRow THEN NoRow ELSE probes + 1]
    /\ Becomes(p, IF opener[p].booted THEN "run" ELSE "sync")
    /\ UNCHANGED <<executed, recorded, snapshots, catalogue, made, stored>>

\* The row found is the one of another identity.
Retired(found, id) == found # id

Rows == {i \in Identity : localState[i] # NoRow}

\* SELECT ... LIMIT 1 has no order: it may find any of the rows.
SyncLocalIdentity(p) ==
    /\ Is(p, "sync")
    /\ \/ \E found \in Rows : /\ Retired(found, opener[p].id)
                              /\ opener' = [opener EXCEPT ![p].step = "retire", ![p].found = found]
       \/ /\ Rows = {} \/ \E found \in Rows : ~Retired(found, opener[p].id)
          /\ Becomes(p, "upsert")
    /\ UNCHANGED <<executed, recorded, localState, snapshots, catalogue, probes, made, stored>>

DeleteRetired(p) ==
    /\ Is(p, "retire") /\ localState' = [localState EXCEPT ![opener[p].found] = NoRow]
    /\ opener' = [opener EXCEPT ![p].step = "upsert", ![p].found = Seeded]
    /\ UNCHANGED <<executed, recorded, snapshots, catalogue, probes, made, stored>>

UpsertLocalIdentity(p) ==
    /\ Is(p, "upsert") /\ localState' = WithRow(localState, opener[p].id)
    /\ opener' = [opener EXCEPT ![p].step = "run", ![p].booted = TRUE]
    /\ UNCHANGED <<executed, recorded, snapshots, catalogue, probes, made, stored>>

---------------------------------------------------------------------------
(* Snapshots of the peer: a tool fetches one; the agent delivers what is   *)
(* in the outbox on the way.                                               *)

FetchFreshPeerSnapshot(p) ==
    /\ Is(p, "ready")
    /\ opener' = [opener EXCEPT ![p].step = "due", ![p].begun = stored, ![p].since = made,
                                ![p].crossed = \E q \in Opener \ {p} : Is(q, "answered")]
    /\ UNCHANGED <<executed, recorded, localState, snapshots, catalogue, probes, made, stored>>

Deliver(p) ==
    /\ Is(p, "due") \/ (Is(p, "run") /\ opener[p].booted)
    /\ Becomes(p, "asked")
    /\ UNCHANGED <<executed, recorded, localState, snapshots, catalogue, probes, made, stored>>

\* buildNodeSnapshot on the other node.
BuildNodeSnapshot(p) ==
    /\ Is(p, "asked") /\ probes + made < MaxTraffic /\ made' = made + 1
    /\ opener' = [opener EXCEPT ![p].step = "answered", ![p].answer = made + 1]
    /\ UNCHANGED <<executed, recorded, localState, snapshots, catalogue, probes, stored>>

AfterDelivery(p) == Becomes(p, IF opener[p].agent THEN "run" ELSE "tried")

\* Mutant of PruneSnapshots: one row too many stays.
PruneAllButOne(rows) == SubSeq(rows, Len(rows) - MaxSnapshots, Len(rows))

\* ORDER BY fetched_at ASC LIMIT excess
PruneSnapshots(rows) == SubSeq(rows, Len(rows) - MaxSnapshots + 1, Len(rows))

\* The answer arrives and its snapshot is stored at its arrival.
UpsertPeerSnapshot(p) ==
    /\ Is(p, "answered") /\ stored' = stored + 1
    /\ LET rows == Append(snapshots, [made |-> opener[p].answer, at |-> stored + 1])
       IN snapshots' = IF Len(rows) > MaxSnapshots THEN PruneSnapshots(rows) ELSE rows
    /\ AfterDelivery(p)
    /\ UNCHANGED <<executed, recorded, localState, catalogue, probes, made>>

\* No answer arrives: the outbox keeps the packet.
DeliveryFailed(p) ==
    /\ opener[p].step \in {"asked", "answered"} /\ AfterDelivery(p)
    /\ UNCHANGED <<executed, recorded, localState, snapshots, catalogue, probes, made, stored>>

\* fetched_at >= startedAt
IsFresh(row, begun) == row.at > begun

\* The cached snapshot is shown if it was stored since the fetch began; if
\* not, the tool tries again until its deadline.
ReadCachedPeerSnapshot(p) ==
    /\ Is(p, "tried")
    /\ IF snapshots # <<>> /\ IsFresh(snapshots[Len(snapshots)], opener[p].begun)
       THEN opener' = [opener EXCEPT ![p].step = "done", ![p].got = snapshots[Len(snapshots)].made]
       ELSE Becomes(p, "due")
    /\ UNCHANGED <<executed, recorded, localState, snapshots, catalogue, probes, made, stored>>

---------------------------------------------------------------------------

\* A process ends: a tool is done or gives up, an agent stops, or it dies.
CloseDb(p) ==
    /\ ~Is(p, "idle") /\ opener' = [opener EXCEPT ![p] = Closed]
    /\ UNCHANGED <<executed, recorded, localState, snapshots, catalogue, probes, made, stored>>

CatalogueEdited ==
    /\ \E i \in NodeId \ {catalogue} : catalogue' = i
    /\ UNCHANGED <<executed, recorded, localState, snapshots, opener, probes, made, stored>>

MemoryNext ==
    \/ CatalogueEdited
    \/ \E p \in Opener :
        \/ OpenDb(p) \/ ExecMigration(p) \/ RecordMigration(p) \/ SeedLocalState(p)
        \/ LoadIdentity(p) \/ ApplyProbeCycle(p) \/ StoreProbeCycle(p)
        \/ SyncLocalIdentity(p) \/ DeleteRetired(p) \/ UpsertLocalIdentity(p)
        \/ FetchFreshPeerSnapshot(p) \/ Deliver(p) \/ BuildNodeSnapshot(p)
        \/ UpsertPeerSnapshot(p) \/ DeliveryFailed(p) \/ ReadCachedPeerSnapshot(p)
        \/ CloseDb(p)

MemorySpec == MemoryInit /\ [][MemoryNext]_memoryVars

---------------------------------------------------------------------------
(* Properties.                                                             *)

\* A recorded migration has been executed to its end, and so have all of
\* them for a process past the opening, however many migrate at once and
\* wherever one of them died.
SchemaWhole ==
    /\ \A v \in recorded : executed[v] = MaxSql
    /\ \A p \in Opener : opener[p].step \notin {"idle", "migrate"} =>
          \A v \in Version : executed[v] = MaxSql

\* A snapshot shown as freshly fetched was made after the fetch began, unless
\* somebody else's older answer was still on its way.
FreshIsNew ==
    \A p \in Opener : Is(p, "done") => opener[p].got > opener[p].since \/ opener[p].crossed

\* The schema and the snapshots.
MemoryHonest == SchemaWhole /\ FreshIsNew

\* What the last probe cycle of an identity found is only lost to an agent
\* that starts under another identity and has found its row.
FoundKept ==
    \A i \in NodeId :
        (localState[i] \notin {NoRow, 0} /\ localState'[i] # localState[i]) =>
            \/ localState'[i] = probes'  /\ probes' > probes
            \/ \E p \in Opener : Is(p, "retire") /\ opener'[p].step = "upsert"
                                /\ opener[p].found = i /\ opener[p].id # i

\* Every step leaves the database whole and fresh answers new, and keeps
\* results.
MemoryKept == [][MemoryHonest' /\ FoundKept]_memoryVars

=============================================================================
