------------------------------ MODULE PeerMesh ------------------------------
(***************************************************************************)
(* How a node learns of its peers: each node advertises itself on the      *)
(* blackboard (runOnaHeartbeat, an attractor with a time to live) and      *)
(* withdraws; the probe cycle of this node reads the blackboard and makes  *)
(* its table peer_nodes equal to what it found                             *)
(* (syncPeersFromBlackboard). Heartbeats of a node may overlap: the job,   *)
(* one run by hand, the one that withdraws. An agent runs one probe cycle  *)
(* at a time, but one started a second time by hand runs its first cycle   *)
(* on the same table before it finds its port taken.                       *)
(* The blackboard is external: it keeps for each node the last             *)
(* advertisement that arrived.                                             *)
(***************************************************************************)
EXTENDS Naturals

CONSTANTS
    Node,      \* the other nodes with the capability operium.node.v1
    Beater,    \* processes that run a heartbeat
    Cycle,     \* probe cycles of the node whose table is modelled
    Skew,      \* how far the clock of a node is ahead of its clock
    Ttl,       \* ONA_ATTRACTOR_TTL_SECONDS
    MaxTime    \* bound on the clock

ASSUME PeerAssumption ==
    /\ Skew \in [Node -> Nat] /\ Ttl \in Nat \ {0} /\ MaxTime \in Nat

VARIABLES
    clock,      \* its clock, from 1
    board,      \* the advertisement of each node
    beat,       \* heartbeats under way
    peerNodes,  \* the table
    syncedAt,   \* local_state.last_blackboard_sync_at
    sync,       \* synchronisations under way
    overtaken   \* history: nodes of which an advertisement arrived after a later one

peerVars == <<clock, board, beat, peerNodes, syncedAt, sync, overtaken>>

\* An advertisement is the time it says it was made, availability.last_seen.
NoAdvert == 0
Advert == Nat

\* Types of the variables above.
PeerTypeOK ==
    /\ clock \in Nat \ {0} /\ syncedAt \in Nat /\ overtaken \subseteq Node
    /\ board \in [Node -> Advert] /\ peerNodes \in [Node -> Advert]
    /\ beat \in [Beater -> [step : {"idle", "post"}, nodes : SUBSET Node, advert : Advert,
                        crossed : BOOLEAN]]
    /\ sync \in [Cycle -> [step : {"idle", "fetched"}, snapshot : [Node -> Advert], crossed : BOOLEAN]]

NoBeat == [step |-> "idle", nodes |-> {}, advert |-> NoAdvert, crossed |-> FALSE]
NoSync == [step |-> "idle", snapshot |-> [n \in Node |-> NoAdvert], crossed |-> FALSE]

PeerInit ==
    /\ clock = 1 /\ syncedAt = 0 /\ overtaken = {}
    /\ board = [n \in Node |-> NoAdvert] /\ peerNodes = board
    /\ beat = [b \in Beater |-> NoBeat] /\ sync = [c \in Cycle |-> NoSync]

---------------------------------------------------------------------------
(* runOnaHeartbeat.                                                        *)

\* The attractor is built, after the answer of the agent or its failure,
\* which only changes the status advertised.
BuildAttractor(b) ==
    /\ beat[b].step = "idle"
    /\ \E n \in Node :
          beat' = [beat EXCEPT ![b] = [NoBeat EXCEPT !.step = "post", !.nodes = {n},
                                                    !.advert = clock + Skew[n]]]
    /\ UNCHANGED <<clock, board, peerNodes, syncedAt, sync, overtaken>>

\* The blackboard has something new of n, before what others may send.
Upserted(n, advert, b) ==
    /\ board' = [board EXCEPT ![n] = advert]
    /\ beat' = [d \in Beater |->
          IF d = b THEN NoBeat
          ELSE [beat[d] EXCEPT !.crossed = @ \/ (beat[d].step = "post" /\ n \in beat[d].nodes)]]
    /\ UNCHANGED <<clock, peerNodes, syncedAt, sync>>

\* The upsert reaches the blackboard; the answer may still be lost.
BeatLands(b) ==
    /\ beat[b].step = "post" /\ \E n \in beat[b].nodes : Upserted(n, beat[b].advert, b)
    /\ overtaken' = overtaken \cup (IF beat[b].crossed THEN beat[b].nodes ELSE {})

\* A withdrawal does; an advertisement under way may still follow it.
WithdrawLands(b) ==
    /\ beat[b].step = "idle" /\ \E n \in Node : Upserted(n, NoAdvert, b)
    /\ UNCHANGED overtaken

\* The process dies or the upsert fails.
BeatLost(b) ==
    /\ beat[b].step # "idle" /\ beat' = [beat EXCEPT ![b] = NoBeat]
    /\ UNCHANGED <<clock, board, peerNodes, syncedAt, sync, overtaken>>

---------------------------------------------------------------------------
(* syncPeersFromBlackboard.                                                *)

\* Neither from the future nor past its time to live.
IsAttractorFresh(advert, now) ==
    advert # NoAdvert /\ advert <= now /\ now <= advert + Ttl

\* The blackboard is asked for fresh attractors; a failed request leaves
\* the table as it is.
FetchSnapshot(c) ==
    /\ sync[c].step = "idle"
    /\ sync' = [sync EXCEPT ![c] = [NoSync EXCEPT !.step = "fetched", !.snapshot = board]]
    /\ UNCHANGED <<clock, board, beat, peerNodes, syncedAt, overtaken>>

\* What of the snapshot is a peer by the time it has arrived; the node leaves
\* out itself.
SelectPeers(snapshot) == {n \in Node : IsAttractorFresh(snapshot[n], clock)}

\* Mutant of UpsertPeers: what is not in the snapshot stays.
UpsertsOnly(snapshot) ==
    [n \in Node |-> IF n \in SelectPeers(snapshot) THEN snapshot[n] ELSE peerNodes[n]]

\* The peers are inserted or updated, every other row is deleted.
UpsertPeers(snapshot) ==
    [n \in Node |-> IF n \in SelectPeers(snapshot) THEN snapshot[n] ELSE NoAdvert]

SyncPeers(c) ==
    /\ sync[c].step = "fetched"
    /\ peerNodes' = UpsertPeers(sync[c].snapshot) /\ syncedAt' = clock
    /\ sync' = [d \in Cycle |-> IF d = c THEN NoSync
                                ELSE [sync[d] EXCEPT !.crossed = @ \/ (sync[d].step = "fetched")]]
    /\ UNCHANGED <<clock, board, beat, overtaken>>

\* The request or the agent fails; peer_nodes survives the agent.
SyncLost(c) ==
    /\ sync[c].step # "idle" /\ sync' = [sync EXCEPT ![c] = NoSync]
    /\ UNCHANGED <<clock, board, beat, peerNodes, syncedAt, overtaken>>

\* The nodes /node/peers and the COP handler see.
ListPeers == {n \in Node : peerNodes[n] # NoAdvert}

---------------------------------------------------------------------------
PeerClock ==
    /\ clock < MaxTime /\ clock' = clock + 1
    /\ UNCHANGED <<board, beat, peerNodes, syncedAt, sync, overtaken>>

PeerNext ==
    \/ PeerClock
    \/ \E b \in Beater : BuildAttractor(b) \/ BeatLands(b) \/ WithdrawLands(b) \/ BeatLost(b)
    \/ \E c \in Cycle : FetchSnapshot(c) \/ SyncPeers(c) \/ SyncLost(c)

PeerSpec == PeerInit /\ [][PeerNext]_peerVars

---------------------------------------------------------------------------
(* Properties.                                                             *)

\* A listed peer was within its time to live when the table was last
\* synchronised: one past it is listed only while no synchronisation
\* succeeds, since the column fresh is not computed again.
ListedWithinTtl ==
    \A n \in ListPeers : peerNodes[n] <= syncedAt /\ syncedAt <= peerNodes[n] + Ttl

\* A row never goes back to an older advertisement, unless the blackboard
\* did, because two heartbeats of the node overlapped, or an older snapshot
\* is applied after a newer one, because two cycles did.
ForwardUnlessCrossed ==
    \A n \in Node :
        (peerNodes'[n] # NoAdvert /\ peerNodes'[n] < peerNodes[n]) =>
            n \in overtaken \/ \E c \in Cycle : sync[c].crossed /\ sync'[c] = NoSync

\* Every step leaves the table of peers as recent as its last synchronisation
\* says.
PeersCurrent == [][ListedWithinTtl' /\ ForwardUnlessCrossed]_peerVars

=============================================================================
