---------------------------- MODULE MachineProofs ----------------------------
(***************************************************************************)
(* Proofs about the parts of a machine besides its tools: the ticks of its *)
(* packet handlers, its table of peers and the files of its control room,  *)
(* for any processes, nodes, requests and views, and every value of the    *)
(* clocks, the skews and the bounds; and the types of all parts together.  *)
(***************************************************************************)
EXTENDS MCMachine, WorkProofs, RecursionLemmas, FiniteSetTheorems

---------------------------------------------------------------------------
(* PeerMesh.                                                               *)

BeatRec == [step : {"idle", "post"}, nodes : SUBSET Node, advert : Advert, crossed : BOOLEAN]
SyncRec == [step : {"idle", "fetched"}, snapshot : [Node -> Advert], crossed : BOOLEAN]

Posting(b, n) == beat[b].step = "post" /\ n \in beat[b].nodes

\* What has been seen of a node is what it has advertised, so not of later
\* than its clock. Unless an advertisement arrives after a later one, the
\* table and the snapshots lag behind the blackboard, and all of them behind
\* an advertisement under way that no other has crossed.
LagsBehind ==
    \A n \in Node :
       /\ board[n] <= clock + Skew[n] /\ peerNodes[n] <= clock + Skew[n]
       /\ \A c \in Cycle : sync[c].snapshot[n] <= clock + Skew[n]
       /\ \A b \in Beater : Posting(b, n) => beat[b].advert <= clock + Skew[n]
       /\ n \notin overtaken =>
            /\ board[n] # NoAdvert =>
                 /\ peerNodes[n] <= board[n]
                 /\ \A c \in Cycle : sync[c].snapshot[n] <= board[n]
            /\ \A b \in Beater : Posting(b, n) /\ ~beat[b].crossed =>
                 /\ board[n] <= beat[b].advert /\ peerNodes[n] <= beat[b].advert
                 /\ \A c \in Cycle : sync[c].snapshot[n] <= beat[b].advert
            /\ \A c \in Cycle :
                 sync[c].step = "fetched" /\ ~sync[c].crossed /\ sync[c].snapshot[n] # NoAdvert =>
                     peerNodes[n] <= sync[c].snapshot[n]

PeerInv == PeerTypeOK /\ ListedWithinTtl /\ LagsBehind

LEMMA PeerNulls == NoBeat \in BeatRec /\ NoSync \in SyncRec
  BY DEF NoBeat, NoSync, NoAdvert, Advert, BeatRec, SyncRec

LEMMA PeerInvInit == PeerInit => PeerInv
  <1> SUFFICES ASSUME PeerInit PROVE PeerInv
    OBVIOUS
  <1>1. PeerTypeOK
    BY PeerNulls DEF PeerInit, PeerTypeOK, NoAdvert, Advert, BeatRec, SyncRec
  <1>2. ListedWithinTtl
    BY DEF PeerInit, ListedWithinTtl, ListPeers
  <1>3. /\ clock = 1 /\ \A n \in Node : board[n] = 0 /\ peerNodes[n] = 0
        /\ \A c \in Cycle : sync[c].step = "idle" /\ \A n \in Node : sync[c].snapshot[n] = 0
        /\ \A b \in Beater : beat[b].step = "idle"
    BY DEF PeerInit, NoAdvert, NoSync, NoBeat
  <1>4. LagsBehind
    <2>1. \A n \in Node : Skew[n] \in Nat
      BY PeerAssumption
    <2>2. ASSUME NEW n \in Node, NEW b \in Beater PROVE ~Posting(b, n)
      BY <1>3 DEF Posting
    <2>0. clock = 1
      BY DEF PeerInit
    <2>3. ASSUME NEW n \in Node PROVE 0 <= clock + Skew[n]
      <3>1. Skew[n] \in Nat
        BY <2>1
      <3> QED
        BY <2>0, <3>1
    <2>4. ASSUME NEW n \in Node
          PROVE  /\ board[n] <= clock + Skew[n] /\ peerNodes[n] <= clock + Skew[n]
                 /\ \A c \in Cycle : sync[c].snapshot[n] <= clock + Skew[n]
      BY <1>3, <2>3
    <2>5. \A n \in Node : board[n] = NoAdvert
      BY <1>3 DEF NoAdvert
    <2>6. \A c \in Cycle : sync[c].step # "fetched"
      BY <1>3
    <2> QED
      BY <2>2, <2>4, <2>5, <2>6, Zenon DEF LagsBehind
  <1> QED
    BY <1>1, <1>2, <1>4 DEF PeerInv

\* The numbers the steps compare.
LEMMA PeerNumbers ==
    ASSUME PeerTypeOK, NEW n \in Node
    PROVE  /\ clock \in Nat \ {0} /\ syncedAt \in Nat /\ Ttl \in Nat /\ Skew[n] \in Nat
           /\ board[n] \in Nat /\ peerNodes[n] \in Nat
           /\ \A c \in Cycle : sync[c] \in SyncRec /\ sync[c].snapshot[n] \in Nat
           /\ \A b \in Beater : beat[b] \in BeatRec /\ beat[b].advert \in Nat
  BY PeerAssumption DEF PeerTypeOK, Advert, SyncRec, BeatRec

LEMMA BuildKeeps ==
    ASSUME PeerInv, NEW b \in Beater, BuildAttractor(b)
    PROVE  PeerInv'
  <1>1. PICK m \in Node : beat' = [beat EXCEPT ![b] = [NoBeat EXCEPT !.step = "post", !.nodes = {m},
                                                                    !.advert = clock + Skew[m]]]
    BY DEF BuildAttractor
  <1> DEFINE r == [NoBeat EXCEPT !.step = "post", !.nodes = {m}, !.advert = clock + Skew[m]]
  <1>2. r \in BeatRec /\ r.step = "post" /\ r.nodes = {m} /\ r.advert = clock + Skew[m]
    <2>1. clock + Skew[m] \in Nat
      BY PeerNumbers DEF PeerInv
    <2> QED
      BY <2>1, PeerNulls DEF BeatRec, Advert
  <1>3. /\ beat' \in [Beater -> BeatRec] /\ beat'[b] = r
        /\ \A d \in Beater : d # b => beat'[d] = beat[d]
    BY <1>1, <1>2 DEF PeerInv, PeerTypeOK, BeatRec
  <1>4. UNCHANGED <<clock, board, peerNodes, syncedAt, sync, overtaken>>
    BY DEF BuildAttractor
  <1> HIDE DEF r
  <1>5. PeerTypeOK'
    BY <1>3, <1>4 DEF PeerInv, PeerTypeOK, BeatRec
  <1>6. ListedWithinTtl'
    BY <1>4 DEF PeerInv, ListedWithinTtl, ListPeers
  <1>7. ASSUME NEW n \in Node, NEW d \in Beater, Posting(d, n)'
        PROVE  \/ d = b /\ n = m
               \/ Posting(d, n) /\ beat'[d] = beat[d]
    BY <1>2, <1>3, <1>7 DEF Posting
  <1>8. LagsBehind'
    BY <1>2, <1>3, <1>4, <1>7, PeerNumbers DEF PeerInv, LagsBehind
  <1> QED
    BY <1>5, <1>6, <1>8 DEF PeerInv

\* The board has something new of m, of b or nothing; with it the posting of
\* m under way are crossed.
LEMMA UpsertedKeeps ==
    ASSUME PeerInv, NEW b \in Beater, NEW m \in Node, NEW advert \in Nat, Upserted(m, advert, b),
           overtaken' \subseteq Node, overtaken \subseteq overtaken',
           advert <= clock + Skew[m],
           m \notin overtaken' /\ advert # NoAdvert =>
               /\ peerNodes[m] <= advert
               /\ \A c \in Cycle : sync[c].snapshot[m] <= advert
    PROVE  PeerInv'
  <1> DEFINE Marked(d) == [beat[d] EXCEPT !.crossed = @ \/ (beat[d].step = "post" /\ m \in beat[d].nodes)]
  <1>1. ASSUME NEW d \in Beater
        PROVE  /\ Marked(d) \in BeatRec /\ Marked(d).step = beat[d].step
               /\ Marked(d).nodes = beat[d].nodes /\ Marked(d).advert = beat[d].advert
               /\ Marked(d).crossed = (beat[d].crossed \/ Posting(d, m))
    <2>1. beat[d] \in BeatRec
      BY DEF PeerInv, PeerTypeOK, BeatRec
    <2>2. (beat[d].crossed \/ (beat[d].step = "post" /\ m \in beat[d].nodes)) \in BOOLEAN
      OBVIOUS
    <2>3. Marked(d) \in BeatRec
      BY <2>1, <2>2 DEF BeatRec
    <2>4. /\ Marked(d).step = beat[d].step
          /\ Marked(d).nodes = beat[d].nodes /\ Marked(d).advert = beat[d].advert
      BY <2>1 DEF BeatRec
    <2>5. Marked(d).crossed = (beat[d].crossed \/ Posting(d, m))
      <3>1. "crossed" \in DOMAIN beat[d]
        BY <2>1 DEF BeatRec
      <3> QED
        BY <3>1 DEF Posting
    <2> QED
      BY <2>3, <2>4, <2>5
  <1>2. beat' = [d \in Beater |-> IF d = b THEN NoBeat ELSE Marked(d)]
    BY DEF Upserted
  <1> HIDE DEF Marked
  <1>3. PeerTypeOK'
    BY <1>1, <1>2, PeerNulls DEF PeerInv, PeerTypeOK, Upserted, BeatRec, Advert
  <1>4. ListedWithinTtl'
    BY DEF PeerInv, ListedWithinTtl, ListPeers, Upserted
  <1>5. ASSUME NEW n \in Node, NEW d \in Beater, Posting(d, n)'
        PROVE  /\ Posting(d, n) /\ beat'[d].advert = beat[d].advert
               /\ ~beat'[d].crossed => ~beat[d].crossed /\ n # m
    <2>1. d # b
      BY <1>2, <1>5 DEF Posting, NoBeat
    <2>2. /\ beat'[d].step = beat[d].step /\ beat'[d].nodes = beat[d].nodes
          /\ beat'[d].advert = beat[d].advert
      BY <1>1, <1>2, <2>1
    <2>3. beat'[d].crossed = (beat[d].crossed \/ Posting(d, m))
      BY <1>1, <1>2, <2>1
    <2> QED
      BY <1>5, <2>2, <2>3 DEF Posting
  <1>6. /\ UNCHANGED <<clock, peerNodes, sync>>
        /\ \A n \in Node : board'[n] = IF n = m THEN advert ELSE board[n]
    BY DEF Upserted, PeerInv, PeerTypeOK
  <1>7. LagsBehind'
    BY <1>5, <1>6, PeerNumbers DEF PeerInv, LagsBehind
  <1> QED
    BY <1>3, <1>4, <1>7 DEF PeerInv

LEMMA BeatLandsKeeps ==
    ASSUME PeerInv, NEW b \in Beater, BeatLands(b)
    PROVE  PeerInv'
  <1>1. PICK m \in beat[b].nodes : Upserted(m, beat[b].advert, b)
    BY DEF BeatLands
  <1>2. m \in Node /\ beat[b].advert \in Nat /\ Posting(b, m)
    BY DEF BeatLands, PeerInv, PeerTypeOK, Advert, Posting
  <1>3. /\ overtaken' \subseteq Node /\ overtaken \subseteq overtaken'
        /\ m \notin overtaken' => m \notin overtaken /\ ~beat[b].crossed
    BY DEF BeatLands, PeerInv, PeerTypeOK
  <1>4. /\ beat[b].advert <= clock + Skew[m]
        /\ m \notin overtaken' =>
             /\ peerNodes[m] <= beat[b].advert
             /\ \A c \in Cycle : sync[c].snapshot[m] <= beat[b].advert
    BY <1>2, <1>3 DEF PeerInv, LagsBehind
  <1> QED
    BY <1>1, <1>2, <1>3, <1>4, UpsertedKeeps

LEMMA WithdrawKeeps ==
    ASSUME PeerInv, NEW b \in Beater, WithdrawLands(b)
    PROVE  PeerInv'
  <1>1. PICK m \in Node : Upserted(m, NoAdvert, b)
    BY DEF WithdrawLands
  <1>2. overtaken' = overtaken /\ overtaken \subseteq Node
    BY DEF WithdrawLands, PeerInv, PeerTypeOK
  <1>3. NoAdvert \in Nat /\ NoAdvert <= clock + Skew[m]
    BY PeerNumbers DEF NoAdvert, PeerInv
  <1> QED
    BY <1>1, <1>2, <1>3, UpsertedKeeps

LEMMA BeatLostKeeps ==
    ASSUME PeerInv, NEW b \in Beater, BeatLost(b)
    PROVE  PeerInv'
  <1>1. /\ beat' \in [Beater -> BeatRec] /\ beat'[b].step = "idle"
        /\ \A d \in Beater : d # b => beat'[d] = beat[d]
    BY PeerNulls DEF BeatLost, PeerInv, PeerTypeOK, BeatRec, NoBeat
  <1>2. UNCHANGED <<clock, board, peerNodes, syncedAt, sync, overtaken>>
    BY DEF BeatLost
  <1>3. PeerTypeOK'
    BY <1>1, <1>2 DEF PeerInv, PeerTypeOK, BeatRec
  <1>4. ListedWithinTtl'
    BY <1>2 DEF PeerInv, ListedWithinTtl, ListPeers
  <1>5. ASSUME NEW n \in Node, NEW d \in Beater, Posting(d, n)'
        PROVE  Posting(d, n) /\ beat'[d] = beat[d]
    BY <1>1, <1>5 DEF Posting
  <1>6. LagsBehind'
    BY <1>2, <1>5 DEF PeerInv, LagsBehind
  <1> QED
    BY <1>3, <1>4, <1>6 DEF PeerInv

LEMMA FetchKeeps ==
    ASSUME PeerInv, NEW c \in Cycle, FetchSnapshot(c)
    PROVE  PeerInv'
  <1> DEFINE r == [NoSync EXCEPT !.step = "fetched", !.snapshot = board]
  <1>1. r \in SyncRec /\ r.step = "fetched" /\ r.snapshot = board
    BY PeerNulls DEF SyncRec, PeerInv, PeerTypeOK
  <1>2. /\ sync' \in [Cycle -> SyncRec] /\ sync'[c] = r
        /\ \A d \in Cycle : d # c => sync'[d] = sync[d]
    BY <1>1 DEF FetchSnapshot, PeerInv, PeerTypeOK, SyncRec
  <1>3. UNCHANGED <<clock, board, beat, peerNodes, syncedAt, overtaken>>
    BY DEF FetchSnapshot
  <1> HIDE DEF r
  <1>4. PeerTypeOK'
    BY <1>2, <1>3 DEF PeerInv, PeerTypeOK, SyncRec
  <1>5. ListedWithinTtl'
    BY <1>3 DEF PeerInv, ListedWithinTtl, ListPeers
  <1>6. LagsBehind'
    BY <1>1, <1>2, <1>3, PeerNumbers DEF PeerInv, LagsBehind, Posting
  <1> QED
    BY <1>4, <1>5, <1>6 DEF PeerInv

\* What a cycle does to the other cycles and to the table.
LEMMA SyncPeersDoes ==
    ASSUME PeerInv, NEW c \in Cycle, SyncPeers(c)
    PROVE  /\ sync' \in [Cycle -> SyncRec] /\ sync'[c] = NoSync
           /\ \A d \in Cycle : d # c =>
                /\ sync'[d].step = sync[d].step /\ sync'[d].snapshot = sync[d].snapshot
                /\ sync'[d].step = "fetched" => sync'[d].crossed
           /\ \A n \in Node : \/ peerNodes'[n] = NoAdvert
                              \/ /\ peerNodes'[n] = sync[c].snapshot[n]
                                 /\ IsAttractorFresh(sync[c].snapshot[n], clock)
           /\ peerNodes' \in [Node -> Advert] /\ syncedAt' = clock
           /\ UNCHANGED <<clock, board, beat, overtaken>>
  <1> DEFINE Marked(d) == [sync[d] EXCEPT !.crossed = @ \/ (sync[d].step = "fetched")]
  <1>1. ASSUME NEW d \in Cycle
        PROVE  /\ Marked(d) \in SyncRec /\ Marked(d).step = sync[d].step
               /\ Marked(d).snapshot = sync[d].snapshot
               /\ sync[d].step = "fetched" => Marked(d).crossed
    <2>1. sync[d] \in SyncRec /\ "crossed" \in DOMAIN sync[d]
      BY DEF PeerInv, PeerTypeOK, SyncRec
    <2>2. (sync[d].crossed \/ (sync[d].step = "fetched")) \in BOOLEAN
      OBVIOUS
    <2>3. Marked(d) \in SyncRec /\ Marked(d).step = sync[d].step /\ Marked(d).snapshot = sync[d].snapshot
      BY <2>1, <2>2 DEF SyncRec
    <2>4. Marked(d).crossed = (sync[d].crossed \/ (sync[d].step = "fetched"))
      BY <2>1
    <2> QED
      BY <2>3, <2>4
  <1>2. sync' = [d \in Cycle |-> IF d = c THEN NoSync ELSE Marked(d)]
    BY DEF SyncPeers
  <1> HIDE DEF Marked
  <1>3. \A n \in Node : \/ peerNodes'[n] = NoAdvert
                        \/ /\ peerNodes'[n] = sync[c].snapshot[n]
                           /\ IsAttractorFresh(sync[c].snapshot[n], clock)
    BY DEF SyncPeers, UpsertPeers, SelectPeers
  <1>4. peerNodes' \in [Node -> Advert]
    BY PeerNumbers DEF PeerInv, SyncPeers, UpsertPeers, NoAdvert, Advert
  <1> QED
    BY <1>1, <1>2, <1>3, <1>4, PeerNulls DEF SyncPeers

LEMMA SyncPeersKeeps ==
    ASSUME PeerInv, NEW c \in Cycle, SyncPeers(c)
    PROVE  PeerInv'
  <1>1. PeerTypeOK'
    BY SyncPeersDoes DEF PeerInv, PeerTypeOK, SyncRec
  <1>2. ASSUME NEW n \in ListPeers'
        PROVE  peerNodes'[n] <= syncedAt' /\ syncedAt' <= peerNodes'[n] + Ttl
    BY <1>2, SyncPeersDoes DEF ListPeers, IsAttractorFresh
  <1>3. ASSUME NEW n \in Node
        PROVE  /\ peerNodes'[n] = 0 \/ peerNodes'[n] = sync[c].snapshot[n]
               /\ \A d \in Cycle : sync'[d].snapshot[n] = 0 \/ sync'[d].snapshot[n] = sync[d].snapshot[n]
               /\ \A d \in Cycle : sync'[d].step = "fetched" => sync'[d].crossed
    <2>1. peerNodes'[n] = 0 \/ peerNodes'[n] = sync[c].snapshot[n]
      BY SyncPeersDoes DEF NoAdvert
    <2>2. NoSync.step = "idle" /\ NoSync.snapshot[n] = 0
      BY DEF NoSync, NoAdvert
    <2> QED
      BY <2>1, <2>2, SyncPeersDoes
  <1>4. UNCHANGED <<clock, board, beat, overtaken>>
    BY SyncPeersDoes
  <1>5. LagsBehind'
    BY <1>3, <1>4, PeerNumbers DEF PeerInv, LagsBehind, Posting, NoAdvert
  <1> QED
    BY <1>1, <1>2, <1>5 DEF PeerInv, ListedWithinTtl

LEMMA SyncLostKeeps ==
    ASSUME PeerInv, NEW c \in Cycle, SyncLost(c)
    PROVE  PeerInv'
  <1>1. NoSync.step = "idle" /\ \A n \in Node : NoSync.snapshot[n] = 0
    BY DEF NoSync, NoAdvert
  <1>2. /\ sync' \in [Cycle -> SyncRec] /\ sync'[c] = NoSync
        /\ \A d \in Cycle : d # c => sync'[d] = sync[d]
    BY PeerNulls DEF SyncLost, PeerInv, PeerTypeOK, SyncRec
  <1>3. UNCHANGED <<clock, board, beat, peerNodes, syncedAt, overtaken>>
    BY DEF SyncLost
  <1>4. PeerTypeOK'
    BY <1>2, <1>3 DEF PeerInv, PeerTypeOK, SyncRec
  <1>5. ListedWithinTtl'
    BY <1>3 DEF PeerInv, ListedWithinTtl, ListPeers
  <1>6. LagsBehind'
    BY <1>1, <1>2, <1>3, PeerNumbers DEF PeerInv, LagsBehind, Posting
  <1> QED
    BY <1>4, <1>5, <1>6 DEF PeerInv

LEMMA PeerInvStep == PeerInv /\ [PeerNext]_peerVars => PeerInv'
  <1> SUFFICES ASSUME PeerInv, [PeerNext]_peerVars PROVE PeerInv'
    OBVIOUS
  <1>1. CASE PeerClock
    <2>1. clock' = clock + 1 /\ UNCHANGED <<board, beat, peerNodes, syncedAt, sync, overtaken>>
      BY <1>1 DEF PeerClock
    <2>2. PeerTypeOK'
      BY <2>1 DEF PeerInv, PeerTypeOK
    <2>3. ListedWithinTtl'
      BY <2>1 DEF PeerInv, ListedWithinTtl, ListPeers
    <2>4. LagsBehind'
      BY <2>1, PeerNumbers DEF PeerInv, LagsBehind, Posting
    <2> QED
      BY <2>2, <2>3, <2>4 DEF PeerInv
  <1>2. CASE UNCHANGED peerVars
    BY <1>2 DEF PeerInv, PeerTypeOK, ListedWithinTtl, ListPeers, LagsBehind, Posting, peerVars
  <1> QED
    BY <1>1, <1>2, BuildKeeps, BeatLandsKeeps, WithdrawKeeps, BeatLostKeeps, FetchKeeps,
       SyncPeersKeeps, SyncLostKeeps DEF PeerNext

LEMMA PeerForward == PeerInv /\ [PeerNext]_peerVars => [ForwardUnlessCrossed]_peerVars
  <1> SUFFICES ASSUME PeerInv, PeerNext PROVE ForwardUnlessCrossed
    BY DEF peerVars
  <1>1. ASSUME UNCHANGED peerNodes PROVE ForwardUnlessCrossed
    BY <1>1, PeerNumbers DEF PeerInv, ForwardUnlessCrossed
  <1>2. ASSUME NEW c \in Cycle, SyncPeers(c) PROVE ForwardUnlessCrossed
    <2> SUFFICES ASSUME NEW n \in Node, n \notin overtaken, peerNodes'[n] # NoAdvert,
                        peerNodes'[n] < peerNodes[n]
                 PROVE  sync[c].crossed /\ sync'[c] = NoSync
      BY DEF ForwardUnlessCrossed
    <2>1. peerNodes'[n] = sync[c].snapshot[n] /\ sync'[c] = NoSync /\ sync[c].step = "fetched"
      BY <1>2, SyncPeersDoes DEF SyncPeers
    <2> QED
      BY <2>1, PeerNumbers DEF PeerInv, LagsBehind
  <1> QED
    BY <1>1, <1>2 DEF PeerNext, PeerClock, BuildAttractor, BeatLands, WithdrawLands, Upserted,
                      BeatLost, FetchSnapshot, SyncLost

\* For any nodes, skews, time to live and numbers of overlapping heartbeats
\* and cycles: the table of peers is as recent as its last synchronisation
\* says, and goes back only where two of them overlapped.
THEOREM PeersStayCurrent == PeerSpec => PeersCurrent
  <1>1. PeerInv => ListedWithinTtl
    BY DEF PeerInv
  <1> QED
    BY <1>1, PeerInvInit, PeerInvStep, PeerForward, PTL DEF PeerSpec, PeersCurrent

---------------------------------------------------------------------------
(* PortalCache.                                                            *)

PackRec == [step : {"idle", "status", "views", "fleet"}, left : SUBSET (Part \cup Host),
            pack : File(View), fleet : File(Host), crossed : BOOLEAN]

\* A request has read nothing before the date of the file it will write, and
\* the file there is is not of a later date unless it was crossed.
DatedFrom(items, file) == \A i \in items : file.read[i] # 0 => file.at <= file.read[i]

PortalInv ==
    /\ PortalTypeOK /\ DatedBefore
    /\ cache.at <= time /\ status.at <= time
    /\ \A v \in Visit :
          /\ visit[v].pack.at <= time /\ visit[v].fleet.at <= time
          /\ DatedFrom(View, visit[v].pack) /\ DatedFrom(Host, visit[v].fleet)
          /\ ~visit[v].crossed =>
                /\ visit[v].step \in {"status", "views"} => cache.at <= visit[v].pack.at
                /\ visit[v].step = "fleet" => status.at <= visit[v].fleet.at

LEMMA NoVisitTyped ==
    /\ NoVisit \in PackRec /\ NoVisit.step = "idle"
    /\ NoVisit.pack.at = 0 /\ NoVisit.fleet.at = 0
    /\ DatedFrom(View, NoVisit.pack) /\ DatedFrom(Host, NoVisit.fleet)
  <1>1. Empty(View) \in File(View) /\ Empty(Host) \in File(Host)
    BY DEF Empty, File
  <1>2. \A i \in View : Empty(View).read[i] = 0
    BY DEF Empty
  <1>3. \A h \in Host : Empty(Host).read[h] = 0
    BY DEF Empty
  <1>4. NoVisit.pack = Empty(View) /\ NoVisit.fleet = Empty(Host)
    BY DEF NoVisit
  <1>5. NoVisit \in PackRec
    BY <1>1 DEF NoVisit, PackRec
  <1> QED
    BY <1>2, <1>3, <1>4, <1>5 DEF DatedFrom, NoVisit, Empty

LEMMA PortalInvInit == PortalInit => PortalInv
  <1> SUFFICES ASSUME PortalInit PROVE PortalInv
    OBVIOUS
  <1>1. /\ cache \in File(View) /\ cache.at = 0 /\ \A i \in View : cache.read[i] = 0
        /\ status \in File(Host) /\ status.at = 0 /\ \A h \in Host : status.read[h] = 0
    BY DEF PortalInit, Empty, File
  <1>2. time = 1 /\ visit = [v \in Visit |-> NoVisit]
    BY DEF PortalInit
  <1>3. PortalTypeOK
    BY <1>1, <1>2, NoVisitTyped DEF PortalTypeOK, PackRec
  <1>4. DatedBefore
    BY <1>1 DEF DatedBefore
  <1> QED
    BY <1>1, <1>2, <1>3, <1>4, NoVisitTyped DEF PortalInv

\* A step that only sets the record of the request v, which goes on or begins.
LEMMA PortalOwn ==
    ASSUME PortalInv, NEW v \in Visit, NEW r \in PackRec, visit' = [visit EXCEPT ![v] = r],
           UNCHANGED <<time, cache, status>>,
           r.pack.at <= time, r.fleet.at <= time,
           DatedFrom(View, r.pack), DatedFrom(Host, r.fleet),
           r.step \in {"status", "views"} /\ ~r.crossed => cache.at <= r.pack.at,
           r.step = "fleet" /\ ~r.crossed => status.at <= r.fleet.at
    PROVE  PortalInv'
  <1>1. PortalTypeOK'
    BY DEF PortalInv, PortalTypeOK, PackRec
  <1>2. ASSUME NEW w \in Visit
        PROVE  visit'[w] = IF w = v THEN r ELSE visit[w]
    BY DEF PortalInv, PortalTypeOK
  <1>3. DatedBefore'
    BY DEF PortalInv, DatedBefore
  <1> QED
    BY <1>1, <1>2, <1>3 DEF PortalInv

\* The request v ends and may have written its file.
LEMMA PortalEnds ==
    ASSUME PortalInv, NEW v \in Visit, NEW steps \in SUBSET {"status", "views", "fleet"},
           Ends(v, steps), time' = time,
           cache' \in File(View), status' \in File(Host), DatedBefore',
           cache'.at <= time, status'.at <= time,
           cache' = cache \/ {"status", "views"} \subseteq steps,
           status' = status \/ "fleet" \in steps
    PROVE  PortalInv'
  <1> DEFINE Marked(w) == [visit[w] EXCEPT !.crossed = @ \/ visit[w].step \in steps]
  <1>1. ASSUME NEW w \in Visit
        PROVE  /\ Marked(w) \in PackRec /\ Marked(w).step = visit[w].step
               /\ Marked(w).pack = visit[w].pack /\ Marked(w).fleet = visit[w].fleet
               /\ Marked(w).crossed = (visit[w].crossed \/ visit[w].step \in steps)
    <2>1. visit[w] \in PackRec
      BY DEF PortalInv, PortalTypeOK, PackRec
    <2>2. "crossed" \in DOMAIN visit[w] /\ (visit[w].crossed \/ visit[w].step \in steps) \in BOOLEAN
      BY <2>1 DEF PackRec
    <2> HIDE DEF PortalInv, Host, View
    <2>3. Marked(w) \in PackRec
      <3> DEFINE c == visit[w].crossed \/ visit[w].step \in steps
      <3>1. c \in BOOLEAN /\ Marked(w) = [visit[w] EXCEPT !.crossed = c]
        OBVIOUS
      <3> HIDE DEF c, Marked
      <3> QED
        BY <2>1, <3>1 DEF PackRec
    <2>4. /\ Marked(w).step = visit[w].step
          /\ Marked(w).pack = visit[w].pack /\ Marked(w).fleet = visit[w].fleet
      BY <2>1 DEF PackRec
    <2>5. Marked(w).crossed = (visit[w].crossed \/ visit[w].step \in steps)
      BY <2>2
    <2> QED
      BY <2>3, <2>4, <2>5
  <1>2. visit' = [w \in Visit |-> IF w = v THEN NoVisit ELSE Marked(w)]
    BY DEF Ends
  <1> HIDE DEF Marked
  <1>3. PortalTypeOK'
    BY <1>1, <1>2, NoVisitTyped DEF PortalInv, PortalTypeOK, PackRec
  <1>4. ASSUME NEW w \in Visit, w = v
        PROVE  visit'[w] = NoVisit
    BY <1>2, <1>4
  <1>5. ASSUME NEW w \in Visit, w # v
        PROVE  /\ visit'[w].step = visit[w].step
               /\ visit'[w].pack = visit[w].pack /\ visit'[w].fleet = visit[w].fleet
               /\ visit'[w].crossed = (visit[w].crossed \/ visit[w].step \in steps)
    BY <1>1, <1>2, <1>5
  <1>6. time \in Nat
    BY DEF PortalInv, PortalTypeOK
  <1>7. ASSUME NEW w \in Visit
        PROVE  /\ visit'[w].pack.at <= time /\ visit'[w].fleet.at <= time
               /\ DatedFrom(View, visit'[w].pack) /\ DatedFrom(Host, visit'[w].fleet)
               /\ ~visit'[w].crossed =>
                    /\ visit'[w].step \in {"status", "views"} => cache'.at <= visit'[w].pack.at
                    /\ visit'[w].step = "fleet" => status'.at <= visit'[w].fleet.at
    <2>1. CASE w = v
      BY <1>4, <1>6, <2>1, NoVisitTyped
    <2>2. CASE w # v
      <3>1. /\ visit[w].pack.at <= time /\ visit[w].fleet.at <= time
            /\ DatedFrom(View, visit[w].pack) /\ DatedFrom(Host, visit[w].fleet)
        BY DEF PortalInv
      <3>2. ASSUME ~visit'[w].crossed, visit'[w].step \in {"status", "views"}
            PROVE  cache'.at <= visit'[w].pack.at
        <4>1. ~visit[w].crossed /\ visit[w].step \notin steps /\ visit[w].step \in {"status", "views"}
          BY <1>5, <2>2, <3>2
        <4>2. cache' = cache
          BY <4>1
        <4>3. cache.at <= visit[w].pack.at
          BY <4>1 DEF PortalInv
        <4> QED
          BY <1>5, <2>2, <4>2, <4>3
      <3>3. ASSUME ~visit'[w].crossed, visit'[w].step = "fleet"
            PROVE  status'.at <= visit'[w].fleet.at
        <4>1. ~visit[w].crossed /\ visit[w].step \notin steps /\ visit[w].step = "fleet"
          BY <1>5, <2>2, <3>3
        <4>2. status' = status
          BY <4>1
        <4>3. status.at <= visit[w].fleet.at
          BY <4>1 DEF PortalInv
        <4> QED
          BY <1>5, <2>2, <4>2, <4>3
      <3> QED
        BY <1>5, <2>2, <3>1, <3>2, <3>3
    <2> QED
      BY <2>1, <2>2
  <1> QED
    BY <1>3, <1>7 DEF PortalInv, DatedFrom

LEMMA PackBeginsKeeps ==
    ASSUME PortalInv, NEW v \in Visit, PackBegins(v)
    PROVE  PortalInv'
  <1> DEFINE r == [NoVisit EXCEPT !.step = "status", !.pack.at = time]
  <1>1. /\ r \in PackRec /\ r.step = "status" /\ r.crossed = NoVisit.crossed
        /\ r.pack.at = time /\ r.pack.read = NoVisit.pack.read /\ r.fleet = NoVisit.fleet
    BY NoVisitTyped DEF PackRec, File, PortalInv, PortalTypeOK
  <1>2. \A i \in View : NoVisit.pack.read[i] = 0
    BY DEF NoVisit, Empty
  <1>3. time \in Nat /\ cache.at <= time
    BY DEF PortalInv, PortalTypeOK
  <1>4. DatedFrom(View, r.pack) /\ DatedFrom(Host, r.fleet)
    BY <1>1, <1>2, NoVisitTyped DEF DatedFrom
  <1>5. visit' = [visit EXCEPT ![v] = r] /\ UNCHANGED <<time, cache, status>>
    BY DEF PackBegins
  <1> HIDE DEF r
  <1>6. r.pack.at <= time /\ r.fleet.at <= time /\ cache.at <= r.pack.at
    BY <1>1, <1>3, NoVisitTyped
  <1> QED
    BY <1>1, <1>4, <1>5, <1>6, PortalOwn

LEMMA SurveyBeginsKeeps ==
    ASSUME PortalInv, NEW v \in Visit, SurveyBegins(v)
    PROVE  PortalInv'
  <1> DEFINE r == [NoVisit EXCEPT !.step = "fleet", !.left = Host, !.fleet.at = time]
  <1>1. /\ r \in PackRec /\ r.step = "fleet" /\ r.crossed = NoVisit.crossed
        /\ r.fleet.at = time /\ r.fleet.read = NoVisit.fleet.read /\ r.pack = NoVisit.pack
    BY NoVisitTyped DEF PackRec, File, PortalInv, PortalTypeOK
  <1>2. \A h \in Host : NoVisit.fleet.read[h] = 0
    BY DEF NoVisit, Empty
  <1>3. time \in Nat /\ status.at <= time
    BY DEF PortalInv, PortalTypeOK
  <1>4. DatedFrom(View, r.pack) /\ DatedFrom(Host, r.fleet)
    BY <1>1, <1>2, NoVisitTyped DEF DatedFrom
  <1>5. visit' = [visit EXCEPT ![v] = r] /\ UNCHANGED <<time, cache, status>>
    BY DEF SurveyBegins
  <1> HIDE DEF r
  <1>6. r.pack.at <= time /\ r.fleet.at <= time /\ status.at <= r.fleet.at
    BY <1>1, <1>3, NoVisitTyped
  <1> QED
    BY <1>1, <1>4, <1>5, <1>6, PortalOwn

WithRead(file, i, read) == [file EXCEPT !.read[i] = read]

\* What is read is read now.
LEMMA ReadsNow ==
    ASSUME NEW items, NEW file \in File(items), NEW i, NEW read, read = 0 \/ read = time,
           time \in Nat, DatedFrom(items, file), file.at <= time
    PROVE  /\ WithRead(file, i, read) \in File(items)
           /\ DatedFrom(items, WithRead(file, i, read)) /\ WithRead(file, i, read).at = file.at
  <1>0. read \in Nat
    OBVIOUS
  <1>1. WithRead(file, i, read) \in File(items) /\ WithRead(file, i, read).at = file.at
    BY <1>0 DEF File, WithRead
  <1>2. \A k \in items : WithRead(file, i, read).read[k] = IF k = i THEN read ELSE file.read[k]
    BY DEF File, WithRead
  <1>3. DatedFrom(items, WithRead(file, i, read))
    BY <1>1, <1>2 DEF DatedFrom
  <1> QED
    BY <1>1, <1>3

LEMMA StatusReadKeeps ==
    ASSUME PortalInv, NEW v \in Visit, StatusRead(v)
    PROVE  PortalInv'
  <1> DEFINE pack == WithRead(visit[v].pack, "status", time)
  <1> DEFINE r == [visit[v] EXCEPT !.step = "views", !.pack = pack, !.left = Part]
  <1>1. visit[v] \in PackRec /\ visit[v].step = "status" /\ "status" \in View /\ time \in Nat
    BY DEF PortalInv, PortalTypeOK, PackRec, StatusRead, View
  <1>2. pack \in File(View) /\ DatedFrom(View, pack) /\ pack.at = visit[v].pack.at
    <2>1. visit[v].pack \in File(View) /\ DatedFrom(View, visit[v].pack) /\ visit[v].pack.at <= time
      BY <1>1 DEF PortalInv, PackRec
    <2> QED
      BY <1>1, <2>1, ReadsNow
  <1>3. visit' = [visit EXCEPT ![v] = r] /\ UNCHANGED <<time, cache, status>>
    BY <1>1 DEF StatusRead, PackRec, WithRead
  <1> HIDE DEF pack
  <1>4. /\ r \in PackRec /\ r.step = "views" /\ r.crossed = visit[v].crossed
        /\ r.pack = pack /\ r.fleet = visit[v].fleet
    BY <1>1, <1>2 DEF PackRec
  <1> HIDE DEF r
  <1>5. /\ visit[v].pack.at <= time /\ visit[v].fleet.at <= time /\ DatedFrom(Host, visit[v].fleet)
        /\ ~visit[v].crossed => cache.at <= visit[v].pack.at
    BY <1>1 DEF PortalInv
  <1> QED
    BY <1>2, <1>3, <1>4, <1>5, PortalOwn

LEMMA ViewReadKeeps ==
    ASSUME PortalInv, NEW v \in Visit, ViewRead(v)
    PROVE  PortalInv'
  <1>1. PICK p \in visit[v].left, read \in {0, time} :
            visit' = [visit EXCEPT ![v].pack.read[p] = read, ![v].left = @ \ {p}]
    BY DEF ViewRead
  <1> DEFINE pack == WithRead(visit[v].pack, p, read)
  <1> DEFINE r == [visit[v] EXCEPT !.pack = pack, !.left = @ \ {p}]
  <1>2. visit[v] \in PackRec /\ visit[v].step = "views" /\ time \in Nat
    BY DEF PortalInv, PortalTypeOK, PackRec, ViewRead
  <1>3. pack \in File(View) /\ DatedFrom(View, pack) /\ pack.at = visit[v].pack.at
    <2>1. visit[v].pack \in File(View) /\ DatedFrom(View, visit[v].pack) /\ visit[v].pack.at <= time
      BY <1>2 DEF PortalInv, PackRec
    <2> QED
      BY <1>2, <2>1, ReadsNow
  <1>4. visit' = [visit EXCEPT ![v] = r] /\ UNCHANGED <<time, cache, status>>
    BY <1>1, <1>2 DEF ViewRead, PackRec, WithRead
  <1> HIDE DEF pack
  <1>5. /\ r \in PackRec /\ r.step = "views" /\ r.crossed = visit[v].crossed
        /\ r.pack = pack /\ r.fleet = visit[v].fleet
    BY <1>2, <1>3 DEF PackRec
  <1> HIDE DEF r
  <1>6. /\ visit[v].pack.at <= time /\ visit[v].fleet.at <= time /\ DatedFrom(Host, visit[v].fleet)
        /\ ~visit[v].crossed => cache.at <= visit[v].pack.at
    BY <1>2 DEF PortalInv
  <1> QED
    BY <1>3, <1>4, <1>5, <1>6, PortalOwn

LEMMA ProbeKeeps ==
    ASSUME PortalInv, NEW v \in Visit, ProbeFleetNode(v)
    PROVE  PortalInv'
  <1>1. PICK h \in visit[v].left :
            visit' = [visit EXCEPT ![v].fleet.read[h] = time, ![v].left = @ \ {h}]
    BY DEF ProbeFleetNode
  <1> DEFINE fleet == WithRead(visit[v].fleet, h, time)
  <1> DEFINE r == [visit[v] EXCEPT !.fleet = fleet, !.left = @ \ {h}]
  <1>2. visit[v] \in PackRec /\ visit[v].step = "fleet" /\ time \in Nat
    BY DEF PortalInv, PortalTypeOK, PackRec, ProbeFleetNode
  <1>3. fleet \in File(Host) /\ DatedFrom(Host, fleet) /\ fleet.at = visit[v].fleet.at
    <2>1. visit[v].fleet \in File(Host) /\ DatedFrom(Host, visit[v].fleet) /\ visit[v].fleet.at <= time
      BY <1>2 DEF PortalInv, PackRec
    <2> QED
      BY <1>2, <2>1, ReadsNow
  <1>4. visit' = [visit EXCEPT ![v] = r] /\ UNCHANGED <<time, cache, status>>
    <2>1. visit[v].left \in SUBSET (Part \cup Host) /\ visit \in [Visit -> PackRec]
      BY <1>2 DEF PackRec, PortalInv, PortalTypeOK
    <2>2. visit' = [visit EXCEPT ![v] = r]
      BY <1>1, <1>2, <2>1, SMTT(60) DEF PackRec, WithRead
    <2> QED
      BY <2>2 DEF ProbeFleetNode
  <1> HIDE DEF fleet
  <1>5. /\ r \in PackRec /\ r.step = "fleet" /\ r.crossed = visit[v].crossed
        /\ r.fleet = fleet /\ r.pack = visit[v].pack
    BY <1>2, <1>3 DEF PackRec
  <1> HIDE DEF r
  <1>6. /\ visit[v].pack.at <= time /\ visit[v].fleet.at <= time /\ DatedFrom(View, visit[v].pack)
        /\ ~visit[v].crossed => status.at <= visit[v].fleet.at
    BY <1>2 DEF PortalInv
  <1> QED
    BY <1>3, <1>4, <1>5, <1>6, PortalOwn

\* The requests that end, with what they write.
LEMMA PortalEndsKeep ==
    ASSUME PortalInv, NEW v \in Visit, StatusFails(v) \/ PackDone(v) \/ WriteStatusJson(v)
    PROVE  PortalInv'
  <1>1. /\ cache \in File(View) /\ status \in File(Host) /\ DatedBefore
        /\ cache.at <= time /\ status.at <= time
    BY DEF PortalInv, PortalTypeOK
  <1>2. /\ visit[v].pack \in File(View) /\ DatedFrom(View, visit[v].pack) /\ visit[v].pack.at <= time
        /\ visit[v].fleet \in File(Host) /\ DatedFrom(Host, visit[v].fleet) /\ visit[v].fleet.at <= time
    BY DEF PortalInv, PortalTypeOK
  <1>3. CASE StatusFails(v)
    <2>1. Ends(v, {}) /\ UNCHANGED <<time, cache, status>>
      BY <1>3 DEF StatusFails
    <2>2. DatedBefore'
      BY <1>1, <2>1 DEF DatedBefore
    <2> QED
      BY <1>1, <2>1, <2>2, PortalEnds
  <1>4. CASE PackDone(v)
    <2>1. /\ Ends(v, {"status", "views"}) /\ UNCHANGED <<time, status>>
          /\ cache' = visit[v].pack
      BY <1>4 DEF PackDone
    <2>2. DatedBefore'
      BY <1>1, <1>2, <2>1 DEF DatedBefore, DatedFrom
    <2> QED
      BY <1>1, <1>2, <2>1, <2>2, PortalEnds
  <1>5. CASE WriteStatusJson(v)
    <2>1. Ends(v, {"fleet"}) /\ UNCHANGED <<time, cache>> /\ status' = visit[v].fleet
      BY <1>5 DEF WriteStatusJson
    <2>2. DatedBefore'
      BY <1>1, <1>2, <2>1 DEF DatedBefore, DatedFrom
    <2> QED
      BY <1>1, <1>2, <2>1, <2>2, PortalEnds
  <1> QED
    BY <1>3, <1>4, <1>5

LEMMA PortalInvStep == PortalInv /\ [PortalNext]_portalVars => PortalInv'
  <1> SUFFICES ASSUME PortalInv, [PortalNext]_portalVars PROVE PortalInv'
    OBVIOUS
  <1>1. CASE PortalStops
    <2>1. visit' = [v \in Visit |-> NoVisit] /\ UNCHANGED <<time, cache, status>>
      BY <1>1 DEF PortalStops
    <2>2. PortalTypeOK'
      BY <2>1, NoVisitTyped DEF PortalInv, PortalTypeOK, PackRec
    <2>3. DatedBefore'
      BY <2>1 DEF PortalInv, DatedBefore
    <2>4. time \in Nat
      BY DEF PortalInv, PortalTypeOK
    <2> QED
      BY <2>1, <2>2, <2>3, <2>4, NoVisitTyped DEF PortalInv
  <1>2. CASE PortalClock
    <2>1. time' = time + 1 /\ UNCHANGED <<cache, status, visit>> /\ time \in Nat
      BY <1>2 DEF PortalClock, PortalInv, PortalTypeOK
    <2>2. PortalTypeOK'
      BY <2>1 DEF PortalInv, PortalTypeOK
    <2>3. DatedBefore'
      BY <2>1 DEF PortalInv, DatedBefore
    <2>4. /\ cache.at \in Nat /\ status.at \in Nat
          /\ \A v \in Visit : visit[v].pack.at \in Nat /\ visit[v].fleet.at \in Nat
      BY DEF PortalInv, PortalTypeOK, File
    <2> QED
      BY <2>1, <2>2, <2>3, <2>4 DEF PortalInv
  <1>3. CASE UNCHANGED portalVars
    BY <1>3 DEF PortalInv, PortalTypeOK, DatedBefore, portalVars
  <1> QED
    BY <1>1, <1>2, <1>3, PackBeginsKeeps, StatusReadKeeps, ViewReadKeeps, SurveyBeginsKeeps,
       ProbeKeeps, PortalEndsKeep DEF PortalNext

LEMMA PortalForward == PortalInv /\ [PortalNext]_portalVars => [ForwardUnlessOverlapped]_portalVars
  <1> SUFFICES ASSUME PortalInv, PortalNext PROVE ForwardUnlessOverlapped
    BY DEF portalVars
  <1>0. cache.at \in Nat /\ status.at \in Nat
        /\ \A v \in Visit : visit[v].pack.at \in Nat /\ visit[v].fleet.at \in Nat
    BY DEF PortalInv, PortalTypeOK, File
  <1>1. ASSUME UNCHANGED <<cache, status>> PROVE ForwardUnlessOverlapped
    BY <1>0, <1>1 DEF ForwardUnlessOverlapped
  <1>2. ASSUME NEW v \in Visit, NEW steps, Ends(v, steps) PROVE visit'[v] = NoVisit
    BY <1>2 DEF Ends
  <1>3. ASSUME NEW v \in Visit, PackDone(v) PROVE ForwardUnlessOverlapped
    <2>1. /\ visit'[v] = NoVisit /\ cache' = visit[v].pack /\ status' = status
          /\ visit[v].step = "views"
      BY <1>2, <1>3 DEF PackDone
    <2>2. ~visit[v].crossed => cache.at <= visit[v].pack.at
      BY <2>1 DEF PortalInv
    <2> QED
      BY <1>0, <2>1, <2>2 DEF ForwardUnlessOverlapped
  <1>4. ASSUME NEW v \in Visit, WriteStatusJson(v) PROVE ForwardUnlessOverlapped
    <2>1. /\ visit'[v] = NoVisit /\ status' = visit[v].fleet /\ cache' = cache
          /\ visit[v].step = "fleet"
      BY <1>2, <1>4 DEF WriteStatusJson
    <2>2. ~visit[v].crossed => status.at <= visit[v].fleet.at
      BY <2>1 DEF PortalInv
    <2> QED
      BY <1>0, <2>1, <2>2 DEF ForwardUnlessOverlapped
  <1> QED
    BY <1>1, <1>3, <1>4 DEF PortalNext, PortalClock, PortalStops, PackBegins, StatusRead,
                            StatusFails, ViewRead, SurveyBegins, ProbeFleetNode

\* For any views, nodes and requests: what is kept is never older than its
\* date, and is replaced by something of an earlier date only by a request
\* that overlapped another.
THEOREM PacksStayHonest == PortalSpec => PackHonest
  <1>1. PortalInv => DatedBefore
    BY DEF PortalInv
  <1> QED
    BY <1>1, PortalInvInit, PortalInvStep, PortalForward, PTL DEF PortalSpec, PackHonest


---------------------------------------------------------------------------
(* MobileDiagnostic.                                                       *)

AtWork(t) == pc[t] \in {"run", "record"}
Delivering(t) == pc[t] \in {"list", "post", "confirm"}

\* The claim has one owner, who alone runs the command and records; the
\* command has not run while its owner is to run it. A tick under way was
\* admitted.
OwnedOnce ==
    /\ \A t \in Tick : pc[t] # "idle" => admitted[t] # NoBody
    /\ \A t \in Tick : AtWork(t) => claimed # NoBody /\ receipt = "none"
    /\ \A t, u \in Tick : AtWork(t) /\ AtWork(u) => t = u
    /\ \A t \in Tick : pc[t] = "run" => sshRuns = 0
    /\ sshRuns \in {0, 1} /\ (sshRuns = 1 => claimed # NoBody)
    /\ receipt # "none" => claimed # NoBody

\* Whoever looks for the receipt and posts it holds the lock, has something
\* to deliver, and posts only while every comment there is landed late.
LockedDelivery ==
    /\ \A t \in Tick : Delivering(t) <=> holder = t
    /\ holder # NoBody => ~returned
    /\ \A t \in Tick : Delivering(t) \/ pc[t] = "deliver" => receipt # "none"
    /\ returned => receipt # "none"
    /\ \A t \in Tick : pc[t] = "post" => comments <= landed

MobileInv == MobileTypeOK /\ OwnedOnce /\ LockedDelivery /\ ReceiptTwiceOnlyIfLate

LEMMA MobileInvInit == MobileInit => MobileInv
  <1> SUFFICES ASSUME MobileInit PROVE MobileInv
    OBVIOUS
  <1> USE MobileAssumption DEF MobileInit
  <1>1. MobileTypeOK
    <2>1. pc \in [Tick -> MobileSteps] /\ admitted \in [Tick -> Body \cup {NoBody}]
      BY DEF MobileSteps
    <2>2. {comments, late, sshRuns, landed, crashed} \subseteq Nat
      OBVIOUS
    <2> QED
      BY <2>1, <2>2 DEF MobileTypeOK
  <1>2. OwnedOnce
    BY DEF OwnedOnce, AtWork
  <1>3. LockedDelivery
    BY DEF LockedDelivery, Delivering
  <1> QED
    BY <1>1, <1>2, <1>3 DEF MobileInv, ReceiptTwiceOnlyIfLate

\* Where a step leaves the processes: only t moves, to a step of its own.
LEMMA MobileMoves ==
  ASSUME MobileTypeOK, NEW t \in Tick, NEW to \in MobileSteps, pc' = [pc EXCEPT ![t] = to]
  PROVE  /\ pc' \in [Tick -> MobileSteps] /\ pc'[t] = to
         /\ \A u \in Tick \ {t} : pc'[u] = pc[u]
  BY DEF MobileTypeOK

\* A tick that leaves takes its lock along and nothing else.
LEMMA LeavesKeeps ==
  ASSUME MobileInv, NEW t \in Tick, Leaves(t), UNCHANGED <<claimed, receipt, issue, policy>>,
         returned' \in BOOLEAN, returned' = returned \/ pc[t] = "confirm",
         sshRuns' = sshRuns \/ (pc[t] = "run" /\ sshRuns' = sshRuns + 1),
         {comments', late', landed', crashed'} \subseteq Nat,
         landed' = landed, comments' = comments \/ (pc[t] = "post" /\ comments' = comments + 1)
  PROVE  MobileInv'
  <1> USE MobileAssumption
  <1>1. /\ pc' \in [Tick -> MobileSteps] /\ pc'[t] = "idle"
        /\ \A u \in Tick \ {t} : pc'[u] = pc[u]
    BY MobileMoves DEF Leaves, MobileInv, MobileSteps
  <1>2. MobileTypeOK'
    BY <1>1 DEF Leaves, MobileInv, MobileTypeOK, OwnedOnce
  <1>3. OwnedOnce'
    <2>1. /\ \A u \in Tick : AtWork(u)' => u # t /\ AtWork(u)
          /\ \A u \in Tick : pc'[u] # "idle" => admitted'[u] # NoBody
      BY <1>1 DEF Leaves, MobileInv, MobileTypeOK, OwnedOnce, AtWork
    <2>2. pc[t] = "run" => AtWork(t) /\ sshRuns = 0
      BY DEF MobileInv, OwnedOnce, AtWork
    <2>3. \A u \in Tick : AtWork(u)' => sshRuns' = sshRuns
      BY <2>1, <2>2 DEF MobileInv, OwnedOnce
    <2> QED
      BY <1>1, <2>1, <2>2, <2>3 DEF MobileInv, OwnedOnce, AtWork
  <1>4. LockedDelivery'
    <2>1. pc[t] \in {"post", "confirm"} => holder = t /\ receipt # "none"
      BY DEF MobileInv, LockedDelivery, Delivering
    <2>2. \A u \in Tick \ {t} : Delivering(u) => holder = u
      BY DEF MobileInv, LockedDelivery
    <2>3. \A u \in Tick : Delivering(u)' <=> holder' = u
      BY <1>1, <2>2 DEF MobileInv, LockedDelivery, Delivering, Leaves
    <2>4. holder' # NoBody => ~returned'
      BY <2>1 DEF MobileInv, LockedDelivery, Leaves
    <2>5. \A u \in Tick : pc'[u] = "post" => comments' <= landed'
      BY <1>1, <2>1, <2>2 DEF MobileInv, LockedDelivery, Delivering
    <2> QED
      BY <1>1, <2>1, <2>3, <2>4, <2>5 DEF MobileInv, LockedDelivery, Delivering
  <1>5. ReceiptTwiceOnlyIfLate'
    BY DEF MobileInv, MobileTypeOK, LockedDelivery, ReceiptTwiceOnlyIfLate
  <1> QED
    BY <1>2, <1>3, <1>4, <1>5 DEF MobileInv

LEMMA MobileInvStep == MobileInv /\ [MobileNext]_mobileVars => MobileInv'
  <1> SUFFICES ASSUME MobileInv, [MobileNext]_mobileVars PROVE MobileInv'
    OBVIOUS
  <1> USE MobileAssumption DEF mobileStore, mobileWorld
  <1>1. CASE UNCHANGED mobileVars
    BY <1>1 DEF mobileVars, MobileInv, MobileTypeOK, OwnedOnce, LockedDelivery, AtWork,
                Delivering, ReceiptTwiceOnlyIfLate
  <1>2. CASE LandsLate
    BY <1>2 DEF LandsLate, MobileInv, MobileTypeOK, OwnedOnce, LockedDelivery, AtWork,
                Delivering, ReceiptTwiceOnlyIfLate
  <1>3. CASE Edited
    BY <1>3 DEF Edited, MobileInv, MobileTypeOK, OwnedOnce, LockedDelivery, AtWork,
                Delivering, ReceiptTwiceOnlyIfLate
  <1>4. ASSUME NEW t \in Tick, StartTick(t) PROVE MobileInv'
    <2>1. PICK to \in {"fetch", "deliver"} : /\ pc[t] = "idle" /\ pc' = [pc EXCEPT ![t] = to]
                                             /\ to = "deliver" => receipt # "none"
      BY <1>4 DEF StartTick, Steps
    <2>2. /\ pc' \in [Tick -> MobileSteps] /\ pc'[t] = to
          /\ \A u \in Tick \ {t} : pc'[u] = pc[u]
      BY <2>1, MobileMoves DEF MobileInv, MobileSteps
    <2> QED
      BY <1>4, <2>1, <2>2
      DEF StartTick, MobileInv, MobileTypeOK, OwnedOnce, LockedDelivery, AtWork, Delivering,
          ReceiptTwiceOnlyIfLate
  <1>5. ASSUME NEW t \in Tick, ReadIssue(t) PROVE MobileInv'
    <2>1. CASE Leaves(t)
      BY <1>5, <2>1, LeavesKeeps DEF ReadIssue, MobileInv, MobileTypeOK
    <2>2. CASE ~Leaves(t)
      <3>1. PICK to \in {"claim", "deliver"} :
              /\ pc[t] = "fetch" /\ pc' = [pc EXCEPT ![t] = to]
              /\ to = "deliver" => receipt # "none"
              /\ UNCHANGED <<admitted, holder>>
        BY <1>5, <2>2 DEF ReadIssue, Steps
      <3>2. /\ pc' \in [Tick -> MobileSteps] /\ pc'[t] = to
            /\ \A u \in Tick \ {t} : pc'[u] = pc[u]
        BY <3>1, MobileMoves DEF MobileInv, MobileSteps
      <3> QED
        BY <1>5, <3>1, <3>2
        DEF ReadIssue, MobileInv, MobileTypeOK, OwnedOnce, LockedDelivery, AtWork, Delivering,
            ReceiptTwiceOnlyIfLate
    <2> QED
      BY <2>1, <2>2
  <1>6. ASSUME NEW t \in Tick, Fails(t) PROVE MobileInv'
    BY <1>6, LeavesKeeps DEF Fails, MobileInv, MobileTypeOK
  <1>7. ASSUME NEW t \in Tick, ClaimExecution(t) PROVE MobileInv'
    <2>1. CASE Leaves(t)
      <3>1. UNCHANGED claimed \/ (claimed = NoBody /\ Steps(t, "claim", "run"))
        BY <1>7 DEF ClaimExecution
      <3>2. ~Steps(t, "claim", "run")
        BY <2>1 DEF Steps, Leaves, MobileInv, MobileTypeOK
      <3> QED
        BY <1>7, <2>1, <3>1, <3>2, LeavesKeeps DEF ClaimExecution, MobileInv, MobileTypeOK
    <2>2. CASE ~Leaves(t)
      <3>1. /\ claimed = NoBody /\ claimed' = admitted[t] /\ pc[t] = "claim"
            /\ pc' = [pc EXCEPT ![t] = "run"]
            /\ UNCHANGED <<admitted, holder, receipt, returned, mobileWorld, sshRuns>>
        BY <1>7, <2>2 DEF ClaimExecution, Steps
      <3>2. /\ pc' \in [Tick -> MobileSteps] /\ pc'[t] = "run"
            /\ \A u \in Tick \ {t} : pc'[u] = pc[u]
        BY <3>1, MobileMoves DEF MobileInv, MobileSteps
      <3> QED
        BY <3>1, <3>2
        DEF MobileInv, MobileTypeOK, OwnedOnce, LockedDelivery, AtWork, Delivering,
            ReceiptTwiceOnlyIfLate
    <2> QED
      BY <2>1, <2>2
  <1>8. ASSUME NEW t \in Tick, RunSsh(t) PROVE MobileInv'
    <2>1. /\ pc' \in [Tick -> MobileSteps] /\ pc'[t] = "record"
          /\ \A u \in Tick \ {t} : pc'[u] = pc[u]
      BY <1>8, MobileMoves DEF RunSsh, Steps, MobileInv, MobileSteps
    <2> QED
      BY <1>8, <2>1
      DEF RunSsh, Steps, MobileInv, MobileTypeOK, OwnedOnce, LockedDelivery, AtWork,
          Delivering, ReceiptTwiceOnlyIfLate
  <1>9. ASSUME NEW t \in Tick, RecordReceipt(t) PROVE MobileInv'
    <2>1. /\ pc' \in [Tick -> MobileSteps] /\ pc'[t] = "deliver"
          /\ \A u \in Tick \ {t} : pc'[u] = pc[u]
      BY <1>9, MobileMoves DEF RecordReceipt, Steps, MobileInv, MobileSteps
    <2> QED
      BY <1>9, <2>1
      DEF RecordReceipt, Steps, MobileInv, MobileTypeOK, OwnedOnce, LockedDelivery, AtWork,
          Delivering, ReceiptTwiceOnlyIfLate
  <1>10. ASSUME NEW t \in Tick, OpenDelivery(t) PROVE MobileInv'
    <2>1. CASE returned
      BY <1>10, <2>1, LeavesKeeps DEF OpenDelivery, MobileInv, MobileTypeOK
    <2>2. CASE ~returned
      <3>1. /\ pc' \in [Tick -> MobileSteps] /\ pc'[t] = "list"
            /\ \A u \in Tick \ {t} : pc'[u] = pc[u]
        BY <1>10, <2>2, MobileMoves DEF OpenDelivery, Steps, MobileInv, MobileSteps
      <3> QED
        BY <1>10, <2>2, <3>1
        DEF OpenDelivery, MobileInv, MobileTypeOK, OwnedOnce, LockedDelivery, AtWork,
            Delivering, ReceiptTwiceOnlyIfLate
    <2> QED
      BY <2>1, <2>2
  <1>11. ASSUME NEW t \in Tick, ListReceipts(t) PROVE MobileInv'
    <2>1. PICK to \in {"confirm", "post"} :
            /\ pc[t] = "list" /\ pc' = [pc EXCEPT ![t] = to] /\ (to = "post" => ~(comments > 0))
      BY <1>11 DEF ListReceipts, Steps
    <2>2. /\ pc' \in [Tick -> MobileSteps] /\ pc'[t] = to
          /\ \A u \in Tick \ {t} : pc'[u] = pc[u]
      BY <2>1, MobileMoves DEF MobileInv, MobileSteps
    <2>3. \A u \in Tick : Delivering(u)' = Delivering(u)
      BY <2>1, <2>2 DEF Delivering
    <2> QED
      BY <1>11, <2>1, <2>2, <2>3
      DEF ListReceipts, MobileInv, MobileTypeOK, OwnedOnce, LockedDelivery, AtWork,
          Delivering, ReceiptTwiceOnlyIfLate
  <1>12. ASSUME NEW t \in Tick, PostReceipt(t) PROVE MobileInv'
    <2>1. /\ pc' \in [Tick -> MobileSteps] /\ pc'[t] = "confirm" /\ pc[t] = "post"
          /\ \A u \in Tick \ {t} : pc'[u] = pc[u]
      BY <1>12, MobileMoves DEF PostReceipt, Steps, MobileInv, MobileSteps
    <2>2. \A u \in Tick : Delivering(u)' = Delivering(u)
      BY <2>1 DEF Delivering
    <2>3. \A u \in Tick : pc'[u] # "post"
      BY <2>1 DEF MobileInv, LockedDelivery, Delivering
    <2> QED
      BY <1>12, <2>1, <2>2, <2>3
      DEF PostReceipt, MobileInv, MobileTypeOK, OwnedOnce, LockedDelivery, AtWork,
          Delivering, ReceiptTwiceOnlyIfLate
  <1>13. ASSUME NEW t \in Tick, PostUnanswered(t) PROVE MobileInv'
    BY <1>13, LeavesKeeps DEF PostUnanswered, MobileInv, MobileTypeOK
  <1>14. ASSUME NEW t \in Tick, ConfirmReceipt(t) PROVE MobileInv'
    BY <1>14, LeavesKeeps DEF ConfirmReceipt, MobileInv, MobileTypeOK
  <1>15. ASSUME NEW t \in Tick, TickDies(t) PROVE MobileInv'
    BY <1>15, LeavesKeeps DEF TickDies, MobileInv, MobileTypeOK
  <1> QED
    BY <1>1, <1>2, <1>3, <1>4, <1>5, <1>6, <1>7, <1>8, <1>9, <1>10, <1>11, <1>12, <1>13,
       <1>14, <1>15 DEF MobileNext

LEMMA MobileReached == MobileSpec => []MobileInv
  BY MobileInvInit, MobileInvStep, PTL DEF MobileSpec

\* The receipt of the diagnostic appears twice only if a POST that was given
\* up landed late (publishResidentReceipt looks for it under the lock), for
\* any number of ticks, crashes and late POSTs.
THEOREM DiagnosticReturnedOnce == MobileSpec => []ReceiptTwiceOnlyIfLate
  BY MobileReached, PTL DEF MobileInv

---------------------------------------------------------------------------
(* The refinement: the claim pays, the command is the effect, the receipt  *)
(* is the record, the confirmed comment the delivery; all else stutters.   *)

\* The phase and the payers that the refinement shows.
Far == CASE returned -> "delivered"
         [] ~returned /\ receipt # "none" -> "recorded"
         [] ~returned /\ receipt = "none" /\ sshRuns > 0 -> "effected"
         [] ~returned /\ receipt = "none" /\ sshRuns = 0 /\ claimed # NoBody -> "claimed"
         [] OTHER -> "open"

Paid == IF claimed = NoBody THEN {} ELSE {"diagnostic"}

\* The instance counts as the module does.
LEMMA CountsAlike ==
  ASSUME NEW S
  PROVE  Diagnostic!Cardinality(S) = Cardinality(S)
  BY DEF Diagnostic!Cardinality, Cardinality

LEMMA DiagnosticInit == MobileInit => Diagnostic!Init
  BY DEF MobileInit, Diagnostic!Init

\* What of the mapped state a step changes.
LEMMA DiagnosticStutters ==
  ASSUME UNCHANGED <<claimed, receipt, returned, sshRuns>>
  PROVE  UNCHANGED Diagnostic!vars
  BY DEF Diagnostic!vars

LEMMA DiagnosticEffect ==
  ASSUME MobileInv, NEW t \in Tick, pc[t] = "run", sshRuns' = sshRuns + 1,
         UNCHANGED <<claimed, receipt, returned>>
  PROVE  Diagnostic!Effect("diagnostic")
  <1>1. /\ claimed # NoBody /\ receipt = "none" /\ sshRuns = 0 /\ ~returned /\ sshRuns' = 1
    BY DEF MobileInv, OwnedOnce, LockedDelivery, AtWork
  <1>2. Far = "claimed" /\ Far' = "effected"
    BY <1>1 DEF Far
  <1> QED
    BY <1>1, <1>2 DEF Diagnostic!Effect, Diagnostic!Move, Far

LEMMA DiagnosticStep ==
  MobileInv /\ [MobileNext]_mobileVars => [Diagnostic!Next]_(Diagnostic!vars)
  <1> SUFFICES ASSUME MobileInv, [MobileNext]_mobileVars,
                      ~(UNCHANGED <<claimed, receipt, returned, sshRuns>>)
               PROVE  Diagnostic!Next
    BY DiagnosticStutters
  <1> USE DEF mobileStore, mobileWorld
  <1>1. PICK t \in Tick : ClaimExecution(t) \/ RunSsh(t) \/ RecordReceipt(t)
                            \/ ConfirmReceipt(t) \/ TickDies(t)
    BY DEF MobileNext, mobileVars, LandsLate, Edited, StartTick, ReadIssue, Fails,
           OpenDelivery, ListReceipts, PostReceipt, PostUnanswered
  <1>2. CASE ClaimExecution(t)
    <2>1. /\ claimed = NoBody /\ claimed' = admitted[t] /\ claimed' # claimed
          /\ UNCHANGED <<receipt, returned, sshRuns>>
      BY <1>2 DEF ClaimExecution
    <2>2. receipt = "none" /\ sshRuns = 0 /\ ~returned
      BY <2>1 DEF MobileInv, OwnedOnce, LockedDelivery
    <2>3. Far = "open" /\ Far' = "claimed"
      BY <2>1, <2>2 DEF Far
    <2>4. Cardinality({}) < 1
      BY FS_EmptySet
    <2>5. Diagnostic!Move("diagnostic", {"open"}, "claimed")
      BY <2>3 DEF Diagnostic!Move, Far
    <2>6. Diagnostic!Authorize("diagnostic", "policy")
      <3>1. claimed' # NoBody /\ sshRuns' = sshRuns
        BY <2>1
      <3>2. Paid = {} /\ Paid' = {"diagnostic"}
        BY <2>1, <3>1 DEF Paid
      <3>3. \E n \in [id \in {"policy"} |-> {1}]["policy"] :
              Cardinality([id \in {"policy"} |-> Paid]["policy"]) < n
        BY <2>4, <3>2
      <3>4. [id \in {"policy"} |-> Paid]'
              = [[id \in {"policy"} |-> Paid] EXCEPT !["policy"] = @ \cup {"diagnostic"}]
        BY <3>2
      <3>5. UNCHANGED [p \in {"diagnostic"} |-> sshRuns]
        BY <3>1
      <3> QED
        BY <2>5, <3>3, <3>4, <3>5, CountsAlike DEF Diagnostic!Authorize, Paid
    <2> QED
      BY <2>6 DEF Diagnostic!Next
  <1>3. CASE RunSsh(t)
    <2>1. /\ pc[t] = "run" /\ UNCHANGED <<claimed, receipt, returned>>
          /\ sshRuns' \in {sshRuns, sshRuns + 1}
      BY <1>3 DEF RunSsh, Steps
    <2>2. sshRuns' = sshRuns + 1
      BY <2>1
    <2> QED
      BY <2>1, <2>2, DiagnosticEffect DEF Diagnostic!Next
  <1>4. CASE RecordReceipt(t)
    <2>1. /\ receipt = "none" /\ sshRuns \in {0, 1} /\ claimed # NoBody /\ ~returned
          /\ receipt' # "none" /\ UNCHANGED <<claimed, returned, sshRuns>>
      BY <1>4 DEF RecordReceipt, Steps, MobileInv, OwnedOnce, LockedDelivery, AtWork
    <2>2. Far \in {"claimed", "effected"} /\ Far' = "recorded"
      BY <2>1 DEF Far
    <2>3. Diagnostic!Record("diagnostic")
      BY <2>1, <2>2 DEF Diagnostic!Record, Diagnostic!Move, Far
    <2> QED
      BY <2>3 DEF Diagnostic!Next
  <1>5. CASE ConfirmReceipt(t)
    <2>1. /\ receipt # "none" /\ ~returned /\ returned' = TRUE
          /\ UNCHANGED <<claimed, receipt, sshRuns>>
      BY <1>5, MobileAssumption
      DEF ConfirmReceipt, MobileInv, MobileTypeOK, LockedDelivery, Delivering
    <2>2. Far = "recorded" /\ Far' = "delivered"
      BY <2>1 DEF Far
    <2>3. Diagnostic!Deliver("diagnostic")
      BY <2>1, <2>2 DEF Diagnostic!Deliver, Diagnostic!Move, Far
    <2> QED
      BY <2>3 DEF Diagnostic!Next
  <1>6. CASE TickDies(t)
    <2>1. pc[t] = "run" /\ sshRuns' = sshRuns + 1 /\ UNCHANGED <<claimed, receipt, returned>>
      BY <1>6 DEF TickDies
    <2> QED
      BY <2>1, DiagnosticEffect DEF Diagnostic!Next
  <1> QED
    BY <1>1, <1>2, <1>3, <1>4, <1>5, <1>6

\* The resident diagnostic implements AuthorizedEffect with one packet and a
\* budget of one (executeMobilePacket, runResidentTick), for any number of
\* processes and crashes and whatever is edited: every step of the code maps
\* to a step of the abstract specification or to none.
THEOREM DiagnosticImplements == MobileSpec => MobileIsAuthorizedEffect
  <1>1. MobileInit => Diagnostic!Init
    BY DiagnosticInit
  <1>2. MobileInv /\ [MobileNext]_mobileVars => [Diagnostic!Next]_(Diagnostic!vars)
    BY DiagnosticStep
  <1> QED
    BY <1>1, <1>2, MobileReached, PTL DEF MobileSpec, MobileIsAuthorizedEffect, Diagnostic!Spec


---------------------------------------------------------------------------
(* PacketTick.                                                             *)

\* The wait before its cap is a natural number, whatever the attempt.
LEMMA DoubledTyped ==
  ASSUME TickAssumption
  PROVE  \A n \in 0 .. MaxAttempt : Doubled[n] \in Nat
  <1>1. MaxAttempt \in Nat
    BY DEF TickAssumption
  <1>2. Doubled = CHOOSE f : Doubles(f, MaxAttempt)
    BY DEF Doubled, Doubles
  <1>3. Doubles(Doubled, MaxAttempt)
    BY <1>1, <1>2, Doubling
  <1> QED
    BY <1>1, <1>3, Doubling

\* A failure counts one more than the one it knew of, up to the cap.
LEMMA DeferredGrows ==
  ASSUME TickAssumption, NEW was \in Repairs
  PROVE  /\ Deferred(was) \in Repairs
         /\ Deferred(was).attempt > was.attempt \/ Deferred(was).attempt = MaxAttempt
  <1> DEFINE n == Smaller(was.attempt + 1, MaxAttempt)
  <1>1. /\ n \in 1 .. MaxAttempt /\ (n > was.attempt \/ n = MaxAttempt)
    BY DEF TickAssumption, Repairs, Smaller
  <1>2. n - 1 \in 0 .. MaxAttempt
    BY <1>1 DEF TickAssumption
  <1>3. Doubled[n - 1] \in Nat
    BY <1>2, DoubledTyped
  <1>4. Smaller(Doubled[n - 1], MaxWait) \in 0 .. MaxWait
    BY <1>3 DEF TickAssumption, Smaller
  <1> HIDE DEF n
  <1>5. [attempt |-> n, wait |-> Smaller(Doubled[n - 1], MaxWait)] \in Repairs
    BY <1>1, <1>4 DEF TickAssumption, Repairs
  <1> QED
    BY <1>1, <1>5 DEF Deferred, n

\* What a tick works on is an item of the policy and a packet of its issue;
\* a tick that executes has claimed. And unless another tick works on its item
\* at once, it knows the latest failure of the item, and is alone with it.
TicksApart ==
    /\ \A r \in Runner : mode[r] # "pick" => at[r] > 0
    /\ \A r \in crossed : mode[r] # "pick"
    /\ \A r \in Runner : mode[r] \in {"consume", "execute"} =>
          work[r] \in 1 .. Len(TextsOf[Here(r)])
    /\ \A r \in Runner : mode[r] = "execute" => stage[Packet(r)] # "open"
    /\ \A r \in Runner : mode[r] # "pick" /\ r \notin crossed =>
          /\ seen[r].attempt = repair[Here(r)].attempt
          /\ \A q \in Runner \ {r} : ~WorksOn(q, Here(r))

TickInv == PacketTickTypeOK /\ TicksApart

LEMMA NothingRepaired ==
  ASSUME TickAssumption PROVE NoRepair \in Repairs
  BY DEF TickAssumption, NoRepair, Repairs

LEMMA TickInvInit == ASSUME TickAssumption PROVE PacketTickInit => TickInv
  <1> SUFFICES ASSUME PacketTickInit PROVE TickInv
    OBVIOUS
  <1> USE DEF TickAssumption, PacketTickInit
  <1>1. text \in [Items -> Nat] /\ \A i \in Items : text[i] \in 1 .. Len(TextsOf[i])
    BY DEF PacketTickInit
  <1>2. /\ stage \in [Request -> Stages] /\ completed \subseteq Request
        /\ repair \in [Items -> Repairs] /\ seen \in [Runner -> Repairs]
    BY NothingRepaired DEF Stages
  <1>3. at \in [Runner -> 0 .. Len(Item)] /\ mode \in [Runner -> Modes] /\ work \in [Runner -> Nat]
    BY DEF Modes
  <1> QED
    BY <1>1, <1>2, <1>3 DEF TickInv, PacketTickTypeOK, TicksApart

\* The item of a tick under way.
LEMMA HereItem ==
  ASSUME PacketTickTypeOK, TickAssumption, NEW r \in Runner, at[r] > 0
  PROVE  /\ Here(r) \in Items /\ TextsOf[Here(r)] \in Seq(Request)
         /\ repair[Here(r)] \in Repairs /\ seen[r] \in Repairs
  BY DEF PacketTickTypeOK, TickAssumption, Here, Items

\* The packet of a tick that consumes one.
LEMMA PacketHere ==
  ASSUME TickInv, TickAssumption, NEW r \in Runner, mode[r] \in {"consume", "execute"}
  PROVE  /\ at[r] > 0 /\ Here(r) \in Items /\ work[r] \in 1 .. Len(TextsOf[Here(r)])
         /\ Packet(r) \in Request
  <1>1. at[r] > 0 /\ work[r] \in 1 .. Len(TextsOf[Here(r)])
    BY DEF TickInv, TicksApart
  <1>2. Here(r) \in Items /\ TextsOf[Here(r)] \in Seq(Request)
    BY <1>1, HereItem DEF TickInv
  <1> QED
    BY <1>1, <1>2 DEF Packet

\* No packet is open again.
NoneReopened == \A p \in Request : stage[p] # "open" => stage'[p] # "open"

\* The steps with which a tick gives up the item it was at.
LEMMA LeaveKeeps ==
  ASSUME TickAssumption, TickInv, NEW r \in Runner, at[r] > 0, NEW n \in 0 .. Len(Item), Leave(r, n),
         UNCHANGED <<text, stage, completed>>,
         \/ UNCHANGED repair
         \/ mode[r] # "pick" /\ Defer(Here(r), seen[r])
  PROVE  TickInv'
  <1>1. /\ at' \in [Runner -> 0 .. Len(Item)] /\ mode' \in [Runner -> Modes]
        /\ seen' \in [Runner -> Repairs] /\ work' \in [Runner -> Nat] /\ mode'[r] = "pick"
        /\ crossed' \subseteq Runner /\ crossed' = crossed \ {r}
        /\ \A q \in Runner \ {r} : /\ at'[q] = at[q] /\ mode'[q] = mode[q] /\ seen'[q] = seen[q]
                                   /\ work'[q] = work[q] /\ Here(q)' = Here(q)
    BY NothingRepaired DEF Leave, TickInv, PacketTickTypeOK, Here, Modes
  <1>2. /\ repair' \in [Items -> Repairs]
        /\ \A i \in Items : i # Here(r) => repair'[i] = repair[i]
    <2>1. Here(r) \in Items /\ Deferred(seen[r]) \in Repairs
      BY HereItem, DeferredGrows DEF TickInv
    <2>2. repair \in [Items -> Repairs]
      BY DEF TickInv, PacketTickTypeOK
    <2> QED
      BY <2>1, <2>2 DEF Defer
  <1>3. PacketTickTypeOK'
    BY <1>1, <1>2 DEF TickInv, PacketTickTypeOK
  <1>4. \A q \in Runner : mode'[q] # "pick" => q # r /\ mode[q] # "pick" /\ at'[q] > 0
    BY <1>1 DEF TickInv, TicksApart
  <1>5. ASSUME NEW q \in Runner, mode'[q] # "pick", q \notin crossed'
        PROVE  /\ seen'[q].attempt = repair'[Here(q)'].attempt
               /\ \A p \in Runner \ {q} : ~WorksOn(p, Here(q))'
    <2>1. /\ q # r /\ mode[q] # "pick" /\ at[q] > 0 /\ Here(q)' = Here(q) /\ seen'[q] = seen[q]
          /\ q \notin crossed /\ Here(q) \in Items
      BY <1>1, <1>4, <1>5, HereItem DEF TickInv, TicksApart
    <2>2. UNCHANGED repair \/ Here(q) # Here(r)
      BY <2>1 DEF WorksOn, TickInv, TicksApart
    <2>3. seen'[q].attempt = repair'[Here(q)'].attempt
      BY <1>2, <2>1, <2>2 DEF TickInv, TicksApart
    <2>4. ASSUME NEW p \in Runner \ {q}, WorksOn(p, Here(q))' PROVE FALSE
      <3>1. p # r /\ WorksOn(p, Here(q))
        BY <1>1, <1>4, <2>1, <2>4 DEF WorksOn
      <3> QED
        BY <2>1, <3>1 DEF TickInv, TicksApart
    <2> QED
      BY <2>3, <2>4
  <1>6. \A q \in Runner : mode'[q] \in {"consume", "execute"} =>
            work'[q] \in 1 .. Len(TextsOf[Here(q)'])
    BY <1>1, <1>4 DEF TickInv, TicksApart
  <1>7. \A q \in Runner : mode'[q] = "execute" => stage'[Packet(q)'] # "open"
    BY <1>1, <1>4 DEF TickInv, TicksApart, Packet
  <1>8. \A q \in crossed' : mode'[q] # "pick"
    BY <1>1 DEF TickInv, TicksApart, PacketTickTypeOK
  <1> QED
    BY <1>3, <1>4, <1>5, <1>6, <1>7, <1>8 DEF TickInv, TicksApart

\* The steps in which a tick goes on with the item it is at.
LEMMA StayKeeps ==
  ASSUME TickAssumption, TickInv, NEW r \in Runner, at[r] > 0, mode[r] # "pick",
         NEW m \in {"fetch", "consume", "execute"}, mode' = [mode EXCEPT ![r] = m],
         NEW k \in Nat, work' = [work EXCEPT ![r] = k],
         m \in {"consume", "execute"} => k \in 1 .. Len(TextsOf[Here(r)]),
         UNCHANGED <<text, repair, at, seen, crossed>>,
         stage' \in [Request -> Stages], completed' \subseteq Request, NoneReopened,
         m = "execute" => stage'[TextsOf[Here(r)][k]] # "open"
  PROVE  TickInv'
  <1>1. /\ mode' \in [Runner -> Modes] /\ work' \in [Runner -> Nat] /\ mode'[r] = m /\ work'[r] = k
        /\ \A q \in Runner \ {r} : mode'[q] = mode[q] /\ work'[q] = work[q]
        /\ \A q \in Runner : Here(q)' = Here(q) /\ (mode'[q] # "pick" <=> mode[q] # "pick")
    BY DEF TickInv, PacketTickTypeOK, Modes, Here
  <1>2. PacketTickTypeOK'
    BY <1>1 DEF TickInv, PacketTickTypeOK
  <1>3. ASSUME NEW q \in Runner, mode'[q] \in {"consume", "execute"}
        PROVE  work'[q] \in 1 .. Len(TextsOf[Here(q)'])
    BY <1>1, <1>3 DEF TickInv, TicksApart
  <1>4. ASSUME NEW q \in Runner, mode'[q] = "execute"
        PROVE  stage'[Packet(q)'] # "open"
    <2>1. CASE q = r
      BY <1>1, <1>4, <2>1 DEF Packet
    <2>2. CASE q # r
      <3>1. mode[q] = "execute" /\ Packet(q)' = Packet(q) /\ stage[Packet(q)] # "open"
        BY <1>1, <1>4, <2>2 DEF Packet, TickInv, TicksApart
      <3>2. Packet(q) \in Request
        BY <3>1, PacketHere
      <3> QED
        BY <3>1, <3>2 DEF NoneReopened
    <2> QED
      BY <2>1, <2>2
  <1>5. \A p \in Runner, i \in Items : WorksOn(p, i)' <=> WorksOn(p, i)
    BY <1>1 DEF WorksOn
  <1>6. ASSUME NEW q \in Runner, mode'[q] # "pick", q \notin crossed'
        PROVE  /\ seen'[q].attempt = repair'[Here(q)'].attempt
               /\ \A p \in Runner \ {q} : ~WorksOn(p, Here(q))'
    <2>1. /\ mode[q] # "pick" /\ q \notin crossed /\ at[q] > 0
          /\ seen[q].attempt = repair[Here(q)].attempt
          /\ \A p \in Runner \ {q} : ~WorksOn(p, Here(q))
      BY <1>1, <1>6 DEF TickInv, TicksApart
    <2>2. Here(q) \in Items
      BY <2>1, HereItem DEF TickInv
    <2> QED
      BY <1>1, <1>5, <2>1, <2>2 DEF WorksOn
  <1>7. /\ \A q \in crossed' : mode'[q] # "pick"
        /\ \A q \in Runner : mode'[q] # "pick" => at'[q] > 0
    BY <1>1 DEF TickInv, TicksApart, PacketTickTypeOK
  <1> QED
    BY <1>2, <1>3, <1>4, <1>6, <1>7 DEF TickInv, TicksApart

\* A tick takes an item that is not in its wait.
Picks(r) ==
    /\ at[r] > 0 /\ mode[r] = "pick" /\ UNCHANGED <<text, stage, completed, repair, at>>
    /\ \/ /\ mode' = [mode EXCEPT ![r] = "fetch"] /\ UNCHANGED work /\ Known(Here(r)) = {}
       \/ \E k \in Known(Here(r)) :
             mode' = [mode EXCEPT ![r] = "consume"] /\ work' = [work EXCEPT ![r] = k]
    /\ seen' = [seen EXCEPT ![r] = repair[Here(r)]]
    /\ LET others == {q \in Runner \ {r} : WorksOn(q, Here(r))}
       IN crossed' = IF others = {} THEN crossed ELSE crossed \cup others \cup {r}

LEMMA PickKinds ==
  ASSUME NEW r \in Runner, PickItem(r)
  PROVE  \/ /\ Advance(r) /\ UNCHANGED <<text, stage, completed, repair>> /\ at[r] > 0
         \/ Picks(r)
  BY DEF PickItem, Picks

LEMMA KnownWork ==
  ASSUME TickAssumption, NEW i \in Items, NEW k \in Known(i)
  PROVE  k \in Nat /\ k \in 1 .. Len(TextsOf[i]) /\ stage[TextsOf[i][k]] # "open"
  BY DEF Known, Pending, TickAssumption

LEMMA PicksKeeps ==
  ASSUME TickAssumption, TickInv, NEW r \in Runner, Picks(r)
  PROVE  TickInv'
  <1> DEFINE others == {q \in Runner \ {r} : WorksOn(q, Here(r))}
  <1>1. /\ at[r] > 0 /\ mode[r] = "pick" /\ UNCHANGED <<text, stage, completed, repair, at>>
        /\ seen' = [seen EXCEPT ![r] = repair[Here(r)]]
        /\ crossed' = IF others = {} THEN crossed ELSE crossed \cup others \cup {r}
    BY DEF Picks
  <1>2. Here(r) \in Items /\ repair[Here(r)] \in Repairs
    BY <1>1, HereItem DEF TickInv
  <1>3. /\ mode' \in [Runner -> Modes] /\ work' \in [Runner -> Nat]
        /\ mode'[r] \in {"fetch", "consume"}
        /\ mode'[r] = "consume" => work'[r] \in 1 .. Len(TextsOf[Here(r)])
        /\ \A q \in Runner \ {r} : mode'[q] = mode[q] /\ work'[q] = work[q]
    BY <1>2, KnownWork DEF Picks, TickInv, PacketTickTypeOK, Modes
  <1>4. /\ seen' \in [Runner -> Repairs] /\ seen'[r] = repair[Here(r)]
        /\ \A q \in Runner \ {r} : seen'[q] = seen[q]
        /\ \A q \in Runner : Here(q)' = Here(q)
        /\ crossed \subseteq crossed' /\ crossed' \subseteq Runner
    BY <1>1, <1>2 DEF TickInv, PacketTickTypeOK, Here
  <1>5. PacketTickTypeOK'
    BY <1>1, <1>3, <1>4 DEF TickInv, PacketTickTypeOK
  <1>6. r \notin crossed
    BY <1>1 DEF TickInv, TicksApart
  <1>7. r \notin crossed' => others = {}
    BY <1>1
  <1>8. \A q \in others : q \in crossed'
    BY <1>1
  <1>9. \A q \in Runner : mode'[q] # "pick" => at'[q] > 0
    BY <1>1, <1>3 DEF TickInv, TicksApart
  <1>10. \A q \in crossed' : mode'[q] # "pick"
    <2>1. \A q \in others : mode[q] # "pick" /\ q # r /\ q \in Runner
      BY DEF WorksOn
    <2>2. \A q \in crossed : mode[q] # "pick" /\ q # r /\ q \in Runner
      BY <1>6 DEF TickInv, TicksApart, PacketTickTypeOK
    <2> QED
      BY <1>1, <1>3, <2>1, <2>2
  <1>11. \A q \in Runner : mode'[q] \in {"consume", "execute"} =>
            work'[q] \in 1 .. Len(TextsOf[Here(q)'])
    BY <1>3, <1>4 DEF TickInv, TicksApart
  <1>12. \A q \in Runner : mode'[q] = "execute" => stage'[Packet(q)'] # "open"
    BY <1>1, <1>3, <1>4 DEF TickInv, TicksApart, Packet
  <1>13. ASSUME NEW q \in Runner, mode'[q] # "pick", q \notin crossed'
         PROVE  /\ seen'[q].attempt = repair'[Here(q)'].attempt
                /\ \A p \in Runner \ {q} : ~WorksOn(p, Here(q))'
    <2>1. CASE q = r
      <3>1. \A p \in Runner \ {r} : ~WorksOn(p, Here(r))
        BY <1>7, <1>13, <2>1
      <3>2. \A p \in Runner \ {r} : WorksOn(p, Here(r))' => WorksOn(p, Here(r))
        BY <1>1, <1>3, <1>4 DEF WorksOn
      <3> QED
        BY <1>1, <1>4, <2>1, <3>1, <3>2
    <2>2. CASE q # r
      <3>1. mode[q] # "pick" /\ q \notin crossed /\ q \notin others /\ at[q] > 0
        BY <1>3, <1>4, <1>8, <1>13, <2>2 DEF TickInv, TicksApart
      <3>2. Here(q) # Here(r)
        BY <2>2, <3>1 DEF WorksOn
      <3>3. /\ seen[q].attempt = repair[Here(q)].attempt
            /\ \A p \in Runner \ {q} : ~WorksOn(p, Here(q))
        BY <3>1 DEF TickInv, TicksApart
      <3>4. ASSUME NEW p \in Runner \ {q}, WorksOn(p, Here(q))' PROVE FALSE
        <4>1. p # r
          BY <1>4, <3>2, <3>4 DEF WorksOn
        <4>2. WorksOn(p, Here(q))
          BY <1>1, <1>3, <1>4, <3>4, <4>1 DEF WorksOn
        <4> QED
          BY <3>3, <4>2
      <3> QED
        BY <1>1, <1>4, <2>2, <3>3, <3>4
    <2> QED
      BY <2>1, <2>2
  <1> QED
    BY <1>5, <1>9, <1>10, <1>11, <1>12, <1>13 DEF TickInv, TicksApart

\* How the steps that advance a packet do it.
Advances(r, from, to) ==
    /\ at[r] > 0 /\ mode[r] \in {"consume", "execute"} /\ to # "open"
    /\ (mode[r] = "execute" \/ stage[Packet(r)] = from) /\ to \in Stages
    /\ stage' = [stage EXCEPT ![Packet(r)] = to] /\ completed' \subseteq Request
    /\ UNCHANGED <<text, repair, at, work, seen, crossed>>

LEMMA StageKinds ==
  ASSUME TickAssumption, TickInv, NEW r \in Runner
  PROVE  /\ ClaimPacket(r) => (/\ Advances(r, "open", "claimed") /\ mode[r] = "consume"
                         /\ mode' = [mode EXCEPT ![r] = "execute"])
         /\ RecordResult(r) => (/\ Advances(r, "claimed", "result") /\ mode[r] = "execute"
                                /\ mode' = [mode EXCEPT ![r] = "consume"])
         /\ Deliver(r) => (/\ Advances(r, "result", "delivered") /\ mode[r] = "consume"
                           /\ mode' = mode)
  <1>1. completed \subseteq Request
    BY DEF TickInv, PacketTickTypeOK
  <1>2. mode[r] \in {"consume", "execute"} => Packet(r) \in Request
    BY PacketHere
  <1>3. ASSUME ClaimPacket(r)
        PROVE  Advances(r, "open", "claimed") /\ mode[r] = "consume"
               /\ mode' = [mode EXCEPT ![r] = "execute"]
    BY <1>1, <1>2, <1>3 DEF ClaimPacket, Advances, Stages
  <1>4. ASSUME RecordResult(r)
        PROVE  Advances(r, "claimed", "result") /\ mode[r] = "execute"
               /\ mode' = [mode EXCEPT ![r] = "consume"]
    BY <1>1, <1>2, <1>4 DEF RecordResult, Advances, Stages
  <1>5. ASSUME Deliver(r)
        PROVE  Advances(r, "result", "delivered") /\ mode[r] = "consume" /\ mode' = mode
    BY <1>1, <1>2, <1>5 DEF Deliver, Advances, Stages
  <1> QED
    BY <1>3, <1>4, <1>5

LEMMA AdvancesKeeps ==
  ASSUME TickAssumption, TickInv, NEW r \in Runner, NEW from, NEW to, Advances(r, from, to),
         NEW m \in {"consume", "execute"}, mode' = [mode EXCEPT ![r] = m]
  PROVE  TickInv'
  <1>1. /\ at[r] > 0 /\ mode[r] # "pick" /\ work[r] \in 1 .. Len(TextsOf[Here(r)])
        /\ Packet(r) \in Request
    BY PacketHere DEF Advances
  <1>2. /\ stage' \in [Request -> Stages] /\ stage'[Packet(r)] # "open" /\ NoneReopened
    BY <1>1 DEF Advances, TickInv, PacketTickTypeOK, NoneReopened
  <1>3. work' = [work EXCEPT ![r] = work[r]] /\ work[r] \in Nat
    BY DEF Advances, TickInv, PacketTickTypeOK
  <1>4. stage'[TextsOf[Here(r)][work[r]]] # "open"
    BY <1>2 DEF Packet
  <1>5. UNCHANGED <<text, repair, at, seen, crossed>> /\ completed' \subseteq Request
    BY DEF Advances
  <1> QED
    BY <1>1, <1>2, <1>3, <1>4, <1>5, StayKeeps

LEMMA TickInvStep ==
  ASSUME TickAssumption PROVE TickInv /\ [PacketTickNext]_tickStateVars => TickInv'
  <1> SUFFICES ASSUME TickInv, [PacketTickNext]_tickStateVars PROVE TickInv'
    OBVIOUS
  <1>1. CASE UNCHANGED tickStateVars
    BY <1>1 DEF tickStateVars, TickInv, PacketTickTypeOK, TicksApart, WorksOn, Here, Packet
  <1>2. CASE WaitPasses
    <2>1. /\ repair' \in [Items -> Repairs]
          /\ \A i \in Items : repair'[i].attempt = repair[i].attempt
      <3> SUFFICES ASSUME NEW i \in Items
                   PROVE  repair'[i] \in Repairs /\ repair'[i].attempt = repair[i].attempt
        BY <1>2 DEF WaitPasses
      <3>1. repair[i] \in Repairs
            /\ repair'[i] = [repair[i] EXCEPT !.wait = IF @ > 0 THEN @ - 1 ELSE 0]
        BY <1>2 DEF WaitPasses, TickInv, PacketTickTypeOK
      <3> QED
        BY <3>1 DEF Repairs, TickAssumption
    <2>2. PacketTickTypeOK'
      BY <1>2, <2>1 DEF WaitPasses, TickInv, PacketTickTypeOK
    <2>3. \A r \in Runner : mode[r] # "pick" => Here(r) \in Items
      BY HereItem DEF TickInv, TicksApart
    <2>4. UNCHANGED <<text, stage, completed, at, mode, work, seen, crossed>>
      BY <1>2 DEF WaitPasses
    <2> QED
      BY <2>1, <2>2, <2>3, <2>4 DEF TickInv, TicksApart, WorksOn, Here, Packet
  <1>3. ASSUME NEW i \in Items, NextText(i) PROVE TickInv'
    BY <1>3 DEF NextText, TickInv, PacketTickTypeOK, TicksApart, WorksOn, Here, Packet, TickAssumption
  <1>4. ASSUME NEW r \in Runner, TickBegins(r) PROVE TickInv'
    <2>1. /\ at' \in [Runner -> 0 .. Len(Item)]
          /\ UNCHANGED <<text, stage, completed, repair, mode, work, seen, crossed>>
          /\ mode[r] = "pick"
          /\ \A q \in Runner \ {r} : at'[q] = at[q]
      BY <1>4 DEF TickBegins, TickInv, PacketTickTypeOK, TicksApart, TickAssumption
    <2>2. \A q \in Runner : mode[q] # "pick" =>
              at'[q] = at[q] /\ Here(q)' = Here(q) /\ Packet(q)' = Packet(q)
      BY <2>1 DEF Here, Packet
    <2>3. \A q \in Runner, i \in Items : WorksOn(q, i)' <=> WorksOn(q, i)
      BY <2>1, <2>2 DEF WorksOn
    <2>4. \A q \in Runner : mode[q] # "pick" => Here(q) \in Items
      BY HereItem DEF TickInv, TicksApart
    <2>5. PacketTickTypeOK'
      BY <2>1 DEF TickInv, PacketTickTypeOK
    <2>6. \A q \in Runner : mode[q] # "pick" => at'[q] > 0
      BY <2>2 DEF TickInv, TicksApart
    <2>7. ASSUME NEW q \in Runner, mode'[q] # "pick", q \notin crossed'
          PROVE  /\ seen'[q].attempt = repair'[Here(q)'].attempt
                 /\ \A p \in Runner \ {q} : ~WorksOn(p, Here(q))'
      <3>1. /\ mode[q] # "pick" /\ q \notin crossed /\ Here(q)' = Here(q) /\ Here(q) \in Items
            /\ seen'[q] = seen[q] /\ repair' = repair
        BY <2>1, <2>2, <2>4, <2>7
      <3>2. /\ seen[q].attempt = repair[Here(q)].attempt
            /\ \A p \in Runner \ {q} : ~WorksOn(p, Here(q))
        BY <3>1 DEF TickInv, TicksApart
      <3> QED
        BY <2>1, <2>2, <3>1, <3>2 DEF WorksOn
    <2>8. /\ \A q \in crossed' : mode'[q] # "pick"
          /\ \A q \in Runner : mode'[q] \in {"consume", "execute"} =>
                work'[q] \in 1 .. Len(TextsOf[Here(q)'])
          /\ \A q \in Runner : mode'[q] = "execute" => stage'[Packet(q)'] # "open"
      BY <2>1, <2>2 DEF TickInv, TicksApart
    <2> QED
      BY <2>1, <2>5, <2>6, <2>7, <2>8 DEF TickInv, TicksApart
  <1>5. ASSUME NEW r \in Runner, Advance(r), UNCHANGED <<text, stage, completed>>, at[r] > 0,
               \/ UNCHANGED repair
               \/ mode[r] # "pick" /\ Defer(Here(r), seen[r])
        PROVE  TickInv'
    <2>1. (IF at[r] = Len(Item) THEN 0 ELSE at[r] + 1) \in 0 .. Len(Item)
      BY DEF TickInv, PacketTickTypeOK, TickAssumption
    <2> QED
      BY <1>5, <2>1, LeaveKeeps DEF Advance
  <1>6. ASSUME NEW r \in Runner, PickItem(r) PROVE TickInv'
    BY <1>5, <1>6, PickKinds, PicksKeeps
  <1>7. ASSUME NEW r \in Runner, FetchItem(r) PROVE TickInv'
    <2>1. /\ at[r] > 0 /\ mode[r] = "fetch" /\ mode' = [mode EXCEPT ![r] = "consume"]
          /\ work' = [work EXCEPT ![r] = text[Here(r)]]
          /\ UNCHANGED <<text, stage, completed, repair, at, seen, crossed>>
      BY <1>7 DEF FetchItem
    <2>2. text[Here(r)] \in 1 .. Len(TextsOf[Here(r)]) /\ text[Here(r)] \in Nat
      BY <2>1, HereItem DEF TickInv, PacketTickTypeOK
    <2>3. stage' \in [Request -> Stages] /\ completed' \subseteq Request /\ NoneReopened
      BY <2>1 DEF TickInv, PacketTickTypeOK, NoneReopened
    <2> QED
      BY <2>1, <2>2, <2>3, StayKeeps
  <1>8. ASSUME NEW r \in Runner, ClaimPacket(r) \/ RecordResult(r) \/ Deliver(r) PROVE TickInv'
    <2>1. CASE ClaimPacket(r)
      BY <2>1, StageKinds, AdvancesKeeps
    <2>2. CASE RecordResult(r)
      BY <2>2, StageKinds, AdvancesKeeps
    <2>3. CASE Deliver(r)
      <3>1. mode' = [mode EXCEPT ![r] = "consume"]
        BY <2>3, StageKinds DEF TickInv, PacketTickTypeOK
      <3> QED
        BY <2>3, <3>1, StageKinds, AdvancesKeeps
    <2> QED
      BY <1>8, <2>1, <2>2, <2>3
  <1>9. ASSUME NEW r \in Runner, Settled(r) \/ ItemFails(r) PROVE TickInv'
    BY <1>5, <1>9 DEF Settled, ItemFails
  <1>10. ASSUME NEW r \in Runner, RunnerDies(r) PROVE TickInv'
    <2>1. 0 \in 0 .. Len(Item)
      BY DEF TickAssumption
    <2> QED
      BY <1>10, <2>1, LeaveKeeps DEF RunnerDies
  <1>11. ASSUME NEW r \in Runner, ItemStep(r) PROVE TickInv'
    BY <1>7, <1>8, <1>9, <1>11 DEF ItemStep
  <1> QED
    BY <1>1, <1>2, <1>3, <1>4, <1>6, <1>10, <1>11 DEF PacketTickNext

LEMMA TickReached == PacketTickSpec => []TickInv
  BY TickAssumption, TickInvInit, TickInvStep, PTL DEF PacketTickSpec

\* A failure is counted from the one before, unless two ticks crossed.
LEMMA BackoffStep ==
  ASSUME TickAssumption, TickInv, PacketTickNext, NEW i \in Items,
         repair'[i].wait > repair[i].wait, ~Crossing(i)
  PROVE  repair'[i].attempt > repair[i].attempt \/ repair'[i].attempt = MaxAttempt
  <1>0. repair[i] \in Repairs
    BY DEF TickInv, PacketTickTypeOK
  <1>1. repair'[i] # repair[i]
    BY <1>0 DEF Repairs, TickAssumption
  <1>2. ~WaitPasses
    <2> SUFFICES ASSUME WaitPasses PROVE FALSE
      OBVIOUS
    <2>1. repair'[i] = [repair[i] EXCEPT !.wait = IF @ > 0 THEN @ - 1 ELSE 0]
      BY DEF WaitPasses
    <2> QED
      BY <1>0, <2>1 DEF Repairs, TickAssumption
  <1>3. PICK r \in Runner : ItemFails(r)
    BY <1>1, <1>2 DEF PacketTickNext, NextText, TickBegins, RunnerDies, PickItem, ItemStep,
                      FetchItem, ClaimPacket, RecordResult, Deliver, Settled
  <1>4. at[r] > 0 /\ mode[r] # "pick" /\ Defer(Here(r), seen[r])
    BY <1>3 DEF ItemFails
  <1>5. Here(r) = i /\ repair'[i] = Deferred(seen[r]) /\ seen[r] \in Repairs
    BY <1>1, <1>4, HereItem DEF Defer, TickInv, PacketTickTypeOK
  <1>6. seen[r].attempt = repair[i].attempt
    BY <1>4, <1>5 DEF TickInv, TicksApart, Crossing
  <1> QED
    BY <1>5, <1>6, DeferredGrows

\* The wait of a request grows while it keeps failing (defer in
\* runConsumerTick), for any items, ticks and deaths of them, and any caps.
THEOREM WaitsGrow == PacketTickSpec => BackoffGrowsUnlessCrossed
  <1> DEFINE Grows == \A i \in Items : repair'[i].wait > repair[i].wait /\ ~Crossing(i) =>
                         \/ repair'[i].attempt > repair[i].attempt
                         \/ repair'[i].attempt = MaxAttempt
  <1>1. TickInv /\ [PacketTickNext]_tickStateVars => [Grows]_tickStateVars
    BY TickAssumption, BackoffStep
  <1> QED
    BY <1>1, TickReached, PTL DEF PacketTickSpec, BackoffGrowsUnlessCrossed

\* Each packet is named once, by one text of one item. (Two items of a policy
\* that name one packet would be attempted by one tick one after the other.)
OneItemPerPacket ==
    \A i, j \in Items : \A k \in 1 .. Len(TextsOf[i]), l \in 1 .. Len(TextsOf[j]) :
        TextsOf[i][k] = TextsOf[j][l] => i = j /\ k = l

\* A tick that is about to claim a packet of a followed issue has found
\* nothing pending there, and nothing is since, unless another tick came.
NothingPending ==
    \A r \in Runner \ crossed :
        /\ \/ mode[r] = "fetch"
           \/ mode[r] = "consume" /\ stage[Packet(r)] = "open"
        /\ Here(r) \in Follows
        => Pending(Here(r)) = {}

\* What a tick does to packets it does to those of its own item.
LEMMA OthersKept ==
  ASSUME TickAssumption, OneItemPerPacket, TickInv, NEW r \in Runner, NEW from, NEW to,
         Advances(r, from, to), NEW j \in Items, j # Here(r)
  PROVE  /\ \A l \in 1 .. Len(TextsOf[j]) : stage'[TextsOf[j][l]] = stage[TextsOf[j][l]]
         /\ Pending(j)' = Pending(j)
  <1>1. /\ Here(r) \in Items /\ work[r] \in 1 .. Len(TextsOf[Here(r)])
        /\ stage' = [stage EXCEPT ![TextsOf[Here(r)][work[r]]] = to]
    BY PacketHere DEF Advances, Packet
  <1>2. \A l \in 1 .. Len(TextsOf[j]) : stage'[TextsOf[j][l]] = stage[TextsOf[j][l]]
    <2> SUFFICES ASSUME NEW l \in 1 .. Len(TextsOf[j])
                 PROVE  stage'[TextsOf[j][l]] = stage[TextsOf[j][l]]
      OBVIOUS
    <2>1. TextsOf[j][l] # TextsOf[Here(r)][work[r]]
      BY <1>1 DEF OneItemPerPacket
    <2>2. TextsOf[j][l] \in Request
      BY DEF TickAssumption
    <2> QED
      BY <1>1, <2>1, <2>2 DEF TickInv, PacketTickTypeOK
  <1>3. {k \in 1 .. Len(TextsOf[j]) : stage'[TextsOf[j][k]] = "result"} = Pending(j)
    BY <1>2 DEF Pending
  <1> QED
    BY <1>2, <1>3 DEF Pending

LEMMA NothingPendingStep ==
  ASSUME TickAssumption, OneItemPerPacket, TickInv, NothingPending,
         [PacketTickNext]_tickStateVars
  PROVE  NothingPending'
  <1>1. CASE UNCHANGED tickStateVars \/ WaitPasses \/ \E i \in Items : NextText(i)
    <2>1. UNCHANGED <<stage, at, mode, work, crossed>>
      BY <1>1 DEF tickStateVars, WaitPasses, NextText
    <2> QED
      BY <2>1 DEF NothingPending, Pending, Here, Packet
  <1>2. ASSUME NEW r \in Runner, TickBegins(r) PROVE NothingPending'
    <2>1. UNCHANGED <<stage, mode, work, crossed>> /\ at[r] = 0 /\ at' = [at EXCEPT ![r] = 1]
      BY <1>2 DEF TickBegins
    <2>2. \A q \in Runner : mode[q] # "pick" => Here(q)' = Here(q) /\ Packet(q)' = Packet(q)
      BY <2>1 DEF TickInv, PacketTickTypeOK, TicksApart, Here, Packet
    <2> QED
      BY <2>1, <2>2 DEF NothingPending, Pending
  <1>3. ASSUME NEW r \in Runner, NEW n, Leave(r, n), UNCHANGED stage PROVE NothingPending'
    <2>1. /\ mode' = [mode EXCEPT ![r] = "pick"] /\ at' = [at EXCEPT ![r] = n]
          /\ work' = [work EXCEPT ![r] = 0] /\ crossed' = crossed \ {r}
      BY <1>3 DEF Leave
    <2>2. mode'[r] = "pick"
      BY <2>1 DEF TickInv, PacketTickTypeOK
    <2>3. \A q \in Runner \ {r} : /\ mode'[q] = mode[q] /\ Here(q)' = Here(q)
                                 /\ Packet(q)' = Packet(q) /\ (q \in crossed' <=> q \in crossed)
      BY <2>1 DEF TickInv, PacketTickTypeOK, Here, Packet
    <2>4. \A i \in Items : Pending(i)' = Pending(i)
      BY <1>3 DEF Pending
    <2>5. \A q \in Runner : mode[q] # "pick" => Here(q) \in Items
      BY HereItem DEF TickInv, TicksApart
    <2>6. ASSUME NEW q \in Runner \ crossed', Here(q)' \in Follows,
                 \/ mode'[q] = "fetch"
                 \/ mode'[q] = "consume" /\ stage'[Packet(q)'] = "open"
          PROVE  Pending(Here(q))' = {}
      <3>1. /\ q # r /\ q \in Runner \ crossed /\ mode'[q] = mode[q] /\ Here(q)' = Here(q)
            /\ Packet(q)' = Packet(q) /\ stage' = stage
        BY <1>3, <2>2, <2>3, <2>6
      <3>2. Pending(Here(q)) = {}
        BY <2>6, <3>1 DEF NothingPending
      <3> QED
        BY <3>1, <3>2 DEF Pending
    <2> QED
      BY <2>6 DEF NothingPending
  <1>4. ASSUME NEW r \in Runner, Picks(r) PROVE NothingPending'
    <2>1. /\ at[r] > 0 /\ UNCHANGED <<at, stage>> /\ crossed \subseteq crossed'
          /\ \/ /\ mode' = [mode EXCEPT ![r] = "fetch"] /\ UNCHANGED work /\ Known(Here(r)) = {}
             \/ \E k \in Known(Here(r)) :
                   mode' = [mode EXCEPT ![r] = "consume"] /\ work' = [work EXCEPT ![r] = k]
      BY <1>4 DEF Picks
    <2>2. Here(r) \in Items
      BY <2>1, HereItem DEF TickInv
    <2>3. \A q \in Runner \ {r} : mode'[q] = mode[q] /\ Here(q)' = Here(q) /\ Packet(q)' = Packet(q)
      <3>1. mode \in [Runner -> Modes] /\ work \in [Runner -> Nat]
        BY DEF TickInv, PacketTickTypeOK
      <3>2. \A q \in Runner \ {r} : mode'[q] = mode[q] /\ work'[q] = work[q] /\ at'[q] = at[q]
        BY <2>1, <3>1
      <3> QED
        BY <3>2 DEF Here, Packet
    <2>4. \A i \in Items : Pending(i)' = Pending(i)
      BY <2>1 DEF Pending
    <2>5. \A q \in Runner : mode[q] # "pick" => Here(q) \in Items
      BY HereItem DEF TickInv, TicksApart
    <2>6. \/ mode'[r] = "fetch" /\ (Here(r) \in Follows => Pending(Here(r)) = {})
          \/ mode'[r] = "consume" /\ stage[Packet(r)'] # "open"
      <3>1. CASE mode' = [mode EXCEPT ![r] = "fetch"] /\ Known(Here(r)) = {}
        BY <3>1 DEF Known, TickInv, PacketTickTypeOK
      <3>2. ASSUME NEW k \in Known(Here(r)),
                   mode' = [mode EXCEPT ![r] = "consume"] /\ work' = [work EXCEPT ![r] = k]
            PROVE  mode'[r] = "consume" /\ stage[Packet(r)'] # "open"
        BY <2>1, <2>2, <3>2, KnownWork DEF TickInv, PacketTickTypeOK, Packet, Here
      <3> QED
        BY <2>1, <3>1, <3>2
    <2>7. Here(r)' = Here(r)
      BY <2>1 DEF Here
    <2>8. ASSUME NEW q \in Runner \ crossed', Here(q)' \in Follows,
                 \/ mode'[q] = "fetch"
                 \/ mode'[q] = "consume" /\ stage'[Packet(q)'] = "open"
          PROVE  Pending(Here(q))' = {}
      <3>1. CASE q = r
        <4>1. Pending(Here(r)) = {} /\ stage' = stage
          BY <2>1, <2>6, <2>7, <2>8, <3>1
        <4> QED
          BY <2>7, <3>1, <4>1 DEF Pending
      <3>2. CASE q # r
        <4>1. /\ q \in Runner \ crossed /\ mode'[q] = mode[q] /\ Here(q)' = Here(q)
              /\ Packet(q)' = Packet(q) /\ stage' = stage
          BY <2>1, <2>3, <2>8, <3>2
        <4>2. Pending(Here(q)) = {}
          BY <2>8, <4>1 DEF NothingPending
        <4> QED
          BY <4>1, <4>2 DEF Pending
      <3> QED
        BY <3>1, <3>2
    <2> QED
      BY <2>8 DEF NothingPending
  <1>5. ASSUME NEW r \in Runner, FetchItem(r) PROVE NothingPending'
    <2>1. /\ mode[r] = "fetch" /\ UNCHANGED <<at, stage, crossed>>
          /\ mode' = [mode EXCEPT ![r] = "consume"]
          /\ work' = [work EXCEPT ![r] = text[Here(r)]]
      BY <1>5 DEF FetchItem
    <2>2. \A q \in Runner \ {r} : mode'[q] = mode[q] /\ Packet(q)' = Packet(q)
      BY <2>1 DEF Packet, Here
    <2>3. \A q \in Runner : Here(q)' = Here(q) /\ Pending(Here(q))' = Pending(Here(q))
      BY <2>1 DEF Here, Pending
    <2> QED
      BY <2>1, <2>2, <2>3 DEF NothingPending
  <1>6. ASSUME NEW r \in Runner, NEW from, NEW to, Advances(r, from, to), NEW m \in Modes,
               mode' = [mode EXCEPT ![r] = m], m = "fetch" => FALSE
        PROVE  NothingPending'
    <2>1. /\ at[r] > 0 /\ mode[r] # "pick" /\ UNCHANGED <<at, work, crossed>> /\ to # "open"
          /\ Packet(r) \in Request /\ stage' = [stage EXCEPT ![Packet(r)] = to]
      BY <1>6, PacketHere DEF Advances
    <2>2. \A q \in Runner : Here(q)' = Here(q) /\ Packet(q)' = Packet(q)
      BY <2>1 DEF Here, Packet
    <2>3. mode'[r] # "fetch" /\ stage'[Packet(r)] # "open"
      BY <1>6, <2>1 DEF TickInv, PacketTickTypeOK
    <2>4. ASSUME NEW q \in Runner \ crossed, q # r, Here(q) \in Follows,
                 mode'[q] = "fetch" \/ (mode'[q] = "consume" /\ stage'[Packet(q)] = "open")
          PROVE  Pending(Here(q))' = {}
      <3>1. mode'[q] = mode[q] /\ mode[q] # "pick" /\ at[q] > 0
        BY <1>6, <2>4 DEF TickInv, PacketTickTypeOK, TicksApart
      <3>2. Here(q) # Here(r) /\ Here(q) \in Items
        BY <2>1, <2>4, <3>1, HereItem DEF TickInv, TicksApart, WorksOn
      <3>3. Pending(Here(q))' = Pending(Here(q))
        <4> DEFINE j == Here(q)
        <4>1. /\ \A l \in 1 .. Len(TextsOf[j]) : stage'[TextsOf[j][l]] = stage[TextsOf[j][l]]
          BY <1>6, <3>2, OthersKept
        <4>2. {k \in 1 .. Len(TextsOf[j]) : stage'[TextsOf[j][k]] = "result"} = Pending(j)
          BY <4>1 DEF Pending
        <4> QED
          BY <2>2, <4>2 DEF Pending
      <3>4. mode[q] = "consume" => stage'[Packet(q)] = stage[Packet(q)]
        BY <1>6, <3>1, <3>2, OthersKept, PacketHere DEF Packet
      <3> QED
        BY <2>4, <3>1, <3>3, <3>4 DEF NothingPending
    <2>5. ASSUME NEW q \in Runner \ crossed', Here(q)' \in Follows,
                 \/ mode'[q] = "fetch"
                 \/ mode'[q] = "consume" /\ stage'[Packet(q)'] = "open"
          PROVE  Pending(Here(q))' = {}
      <3>1. q \in Runner \ crossed /\ Here(q) \in Follows /\ Packet(q)' = Packet(q)
        BY <2>1, <2>2, <2>5
      <3>2. q # r
        BY <2>3, <2>5, <3>1
      <3>3. mode'[q] = "fetch" \/ (mode'[q] = "consume" /\ stage'[Packet(q)] = "open")
        BY <2>5, <3>1
      <3>4. q \in Runner \ crossed /\ q # r /\ Here(q) \in Follows
        BY <3>1, <3>2
      <3> QED
        BY <2>4, <3>3, <3>4
    <2> QED
      BY <2>5 DEF NothingPending
  <1>7. ASSUME NEW r \in Runner, ClaimPacket(r) \/ RecordResult(r) \/ Deliver(r) PROVE NothingPending'
    <2>1. CASE ClaimPacket(r)
      BY <1>6, <2>1, StageKinds DEF Modes
    <2>2. CASE RecordResult(r)
      BY <1>6, <2>2, StageKinds DEF Modes
    <2>3. CASE Deliver(r)
      <3>1. mode' = [mode EXCEPT ![r] = "consume"]
        BY <2>3, StageKinds DEF TickInv, PacketTickTypeOK
      <3> QED
        BY <1>6, <2>3, <3>1, StageKinds DEF Modes
    <2> QED
      BY <1>7, <2>1, <2>2, <2>3
  <1>8. ASSUME NEW r \in Runner, PickItem(r) PROVE NothingPending'
    BY <1>3, <1>4, <1>8, PickKinds DEF Advance
  <1>9. ASSUME NEW r \in Runner, Settled(r) \/ ItemFails(r) \/ RunnerDies(r) PROVE NothingPending'
    BY <1>3, <1>9 DEF Settled, ItemFails, RunnerDies, Advance
  <1>10. ASSUME NEW r \in Runner, ItemStep(r) PROVE NothingPending'
    BY <1>5, <1>7, <1>9, <1>10 DEF ItemStep
  <1> QED
    BY <1>1, <1>2, <1>8, <1>9, <1>10 DEF PacketTickNext

LEMMA NextTextWaits ==
  ASSUME TickAssumption, OneItemPerPacket, TickInv, NothingPending, PacketTickNext,
         NEW i \in Follows, Pending(i) # {}, ~Crossing(i),
         NEW k \in 1 .. Len(TextsOf[i]), stage[TextsOf[i][k]] = "open"
  PROVE  stage'[TextsOf[i][k]] = "open"
  <1> SUFFICES ASSUME stage'[TextsOf[i][k]] # "open" PROVE FALSE
    OBVIOUS
  <1>1. PICK r \in Runner : ClaimPacket(r) \/ RecordResult(r) \/ Deliver(r)
    BY DEF PacketTickNext, WaitPasses, NextText, TickBegins, RunnerDies, PickItem, ItemStep,
           FetchItem, Settled, ItemFails
  <1>2. i \in Items
    BY DEF TickAssumption
  <1>3. \E from, to : Advances(r, from, to) /\ Here(r) = i
    BY <1>1, <1>2, StageKinds, OthersKept
  <1>4. /\ at[r] > 0 /\ work[r] \in 1 .. Len(TextsOf[i]) /\ TextsOf[i][k] = Packet(r)
    <2>1. PICK from, to : Advances(r, from, to) /\ Here(r) = i
      BY <1>3
    <2>2. stage' = [stage EXCEPT ![Packet(r)] = to] /\ at[r] > 0 /\ work[r] \in 1 .. Len(TextsOf[i])
      BY <2>1, PacketHere DEF Advances
    <2>3. TextsOf[i][k] \in Request
      BY <1>2 DEF TickAssumption
    <2> QED
      BY <2>2, <2>3 DEF TickInv, PacketTickTypeOK
  <1>5. mode[r] = "consume" /\ stage[Packet(r)] = "open"
    <2>1. stage[Packet(r)] = "open"
      BY <1>4
    <2>2. mode[r] # "execute"
      BY <2>1 DEF TickInv, TicksApart
    <2> QED
      BY <1>1, <2>1, <2>2, StageKinds
  <1>6. r \notin crossed
    BY <1>3 DEF Crossing
  <1> QED
    BY <1>3, <1>5, <1>6 DEF NothingPending

\* A followed issue whose text is replaced does not take a pending receipt
\* with it (runConsumerTick finishes an executed callback before it reads the
\* next request), for any items, texts, ticks and deaths of them.
THEOREM ReceiptsFirst ==
  ASSUME OneItemPerPacket
  PROVE  PacketTickSpec => ReceiptsBeforeNextText
  <1> DEFINE First == \A i \in Follows : Pending(i) # {} /\ ~Crossing(i) =>
                         \A k \in 1 .. Len(TextsOf[i]) :
                             stage[TextsOf[i][k]] = "open" => stage'[TextsOf[i][k]] = "open"
  <1>1. PacketTickInit => NothingPending
    BY DEF PacketTickInit, NothingPending
  <1>2. TickInv /\ NothingPending /\ [PacketTickNext]_tickStateVars => NothingPending'
    BY TickAssumption, NothingPendingStep
  <1>3. TickInv /\ NothingPending /\ [PacketTickNext]_tickStateVars => [First]_tickStateVars
    BY TickAssumption, NextTextWaits
  <1> QED
    BY <1>1, <1>2, <1>3, TickReached, PTL DEF PacketTickSpec, ReceiptsBeforeNextText

\* What the run states of the tick as a whole.
THEOREM TicksKeep ==
  ASSUME OneItemPerPacket
  PROVE  PacketTickSpec => TickKept
  BY WaitsGrow, ReceiptsFirst DEF TickKept

---------------------------------------------------------------------------
(* The parts together.                                                     *)

MachineInv ==
    /\ TickInv /\ MobileInv /\ PeerInv /\ PortalInv
    /\ WipInv /\ OnBranch /\ upstream \in [Machine -> BOOLEAN]
    /\ SessionInv /\ RolloutTyped /\ LocalInv

LEMMA MachineInvInit == MachineInit => MachineInv
  BY TickAssumption, TickInvInit, MobileInvInit, PeerInvInit, PortalInvInit, WipInvInit, WipTyped,
     SessionInvInit, RolloutTypedInit, LocalInvInit DEF MachineInit, MachineInv

\* Whichever part moves, each part takes a step of its own or none.
LEMMA EachMoves ==
  ASSUME [MachineNext]_machineVars
  PROVE  /\ [PacketTickNext]_tickStateVars /\ [MobileNext]_mobileVars
         /\ [PeerNext]_peerVars /\ [PortalNext]_portalVars
         /\ [WipNext]_wipVars /\ [SessionNext]_sessionVars
         /\ [RolloutNext]_rolloutVars /\ [LocalNext]_localVars
  BY DEF MachineNext, machineVars, handlerVars, nodeViewVars, toolVars

LEMMA MachineInvStep == MachineInv /\ [MachineNext]_machineVars => MachineInv'
  <1> SUFFICES ASSUME MachineInv, [MachineNext]_machineVars PROVE MachineInv'
    OBVIOUS
  <1>1. TickInv' /\ MobileInv'
    BY TickAssumption, EachMoves, TickInvStep, MobileInvStep DEF MachineInv
  <1>2. PeerInv' /\ PortalInv'
    BY EachMoves, PeerInvStep, PortalInvStep DEF MachineInv
  <1>3. WipInv' /\ OnBranch' /\ upstream' \in [Machine -> BOOLEAN]
    BY EachMoves, WipInvStep, OnBranchStep, WipTyped DEF MachineInv
  <1>4. SessionInv' /\ RolloutTyped' /\ LocalInv'
    BY EachMoves, SessionInvStep, RolloutTypedStep, LocalInvStep DEF MachineInv
  <1> QED
    BY <1>1, <1>2, <1>3, <1>4 DEF MachineInv

\* The parts of a machine as the run composes them: whichever of them moves,
\* the others stand still, and all stay within their types. With it the
\* numbers of texts, attempts, commits, keys and edits are those of things
\* that exist, and a rollout under way is at a key of its catalogue.
THEOREM MachineTyped == Spec => []MachineTypeOK
  <1>1. MachineInv => MachineTypeOK
    BY WipTyped DEF MachineInv, MachineTypeOK, TickInv, MobileInv, PeerInv, PortalInv,
                    SessionInv, RolloutTyped, LocalInv
  <1> QED
    BY <1>1, MachineInvInit, MachineInvStep, PTL DEF Spec

=============================================================================
