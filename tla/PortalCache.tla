---------------------------- MODULE PortalCache ----------------------------
(***************************************************************************)
(* The control room served by the node agent (nasa-portal.js). A request   *)
(* for a node fetches its status, then its other views at once, and keeps  *)
(* the pack in a cache file, which is served when the node does not        *)
(* answer. A survey of the fleet probes its nodes one after the other and  *)
(* writes status.json, which is served until a refresh. Requests interleave *)
(* at each await.                                                          *)
(***************************************************************************)
EXTENDS Naturals

CONSTANTS
    Part,      \* the views of a node besides its status
    Hosts,     \* the number of FLEET_NODES
    Visit,     \* requests under way
    MaxDate    \* bound on the clock

ASSUME PortalAssumption == Hosts \in Nat \ {0} /\ MaxDate \in Nat \ {0}

VARIABLES
    time,    \* the clock, from 1
    cache,   \* the cache file of the node asked for
    status,  \* status.json
    visit    \* requests for the one or the other

portalVars == <<time, cache, status, visit>>

\* A file has its date and the time each of its items was read; 0 is an
\* item it does not have.
File(items) == [at : Nat, read : [items -> Nat]]
Empty(items) == [at |-> 0, read |-> [i \in items |-> 0]]
View == Part \cup {"status"}
Host == 1 .. Hosts

\* Types of the variables above.
PortalTypeOK ==
    /\ time \in Nat \ {0} /\ cache \in File(View) /\ status \in File(Host)
    /\ visit \in [Visit -> [step : {"idle", "status", "views", "fleet"}, left : SUBSET (Part \cup Host),
                            pack : File(View), fleet : File(Host), crossed : BOOLEAN]]

NoVisit == [step |-> "idle", left |-> {}, pack |-> Empty(View), fleet |-> Empty(Host),
            crossed |-> FALSE]

PortalInit ==
    /\ time = 1 /\ cache = Empty(View) /\ status = Empty(Host)
    /\ visit = [v \in Visit |-> NoVisit]

\* The request v ends, and with it a file other requests of the same kind
\* are about to write has been written.
Ends(v, steps) ==
    visit' = [w \in Visit |-> IF w = v THEN NoVisit
                              ELSE [visit[w] EXCEPT !.crossed = @ \/ visit[w].step \in steps]]

---------------------------------------------------------------------------
(* buildNodePack.                                                          *)

\* The address of the node is known; the pack is dated before anything is
\* asked.
PackBegins(v) ==
    /\ visit[v].step = "idle"
    /\ visit' = [visit EXCEPT ![v] = [NoVisit EXCEPT !.step = "status", !.pack.at = time]]
    /\ UNCHANGED <<time, cache, status>>

StatusRead(v) ==
    /\ visit[v].step = "status"
    /\ visit' = [visit EXCEPT ![v].step = "views", ![v].pack.read["status"] = time, ![v].left = Part]
    /\ UNCHANGED <<time, cache, status>>

\* Mutant of StatusFails: the pack of a node that does not answer is dropped.
StatusFailsUncached(v) ==
    /\ visit[v].step = "status" /\ cache' = Empty(View) /\ Ends(v, {"status", "views"})
    /\ UNCHANGED <<time, status>>

\* Without a status the cached pack is served as stale, if there is one.
StatusFails(v) ==
    /\ visit[v].step = "status" /\ Ends(v, {})
    /\ UNCHANGED <<time, cache, status>>

\* One of the views is answered, or fails and is left out.
ViewRead(v) ==
    /\ visit[v].step = "views"
    /\ \E p \in visit[v].left, read \in {0, time} :
          visit' = [visit EXCEPT ![v].pack.read[p] = read, ![v].left = @ \ {p}]
    /\ UNCHANGED <<time, cache, status>>

\* With the last one the cache file is replaced, also by a pack with less.
PackDone(v) ==
    /\ visit[v].step = "views" /\ visit[v].left = {}
    /\ cache' = visit[v].pack /\ Ends(v, {"status", "views"})
    /\ UNCHANGED <<time, status>>

---------------------------------------------------------------------------
(* buildFleet and writeStatusJson.                                         *)

\* /nasa/refresh, or a request for status.json while there is none.
SurveyBegins(v) ==
    /\ visit[v].step = "idle"
    /\ visit' = [visit EXCEPT ![v] = [NoVisit EXCEPT !.step = "fleet", !.left = Host, !.fleet.at = time]]
    /\ UNCHANGED <<time, cache, status>>

\* The nodes in order; one that does not answer is shown as down.
ProbeFleetNode(v) ==
    /\ visit[v].step = "fleet"
    /\ \E h \in visit[v].left :
          /\ \A g \in visit[v].left : h <= g
          /\ visit' = [visit EXCEPT ![v].fleet.read[h] = time, ![v].left = @ \ {h}]
    /\ UNCHANGED <<time, cache, status>>

WriteStatusJson(v) ==
    /\ visit[v].step = "fleet" /\ visit[v].left = {}
    /\ status' = visit[v].fleet /\ Ends(v, {"fleet"})
    /\ UNCHANGED <<time, cache>>

---------------------------------------------------------------------------
\* The agent stops; the files stay.
PortalStops ==
    /\ visit' = [v \in Visit |-> NoVisit] /\ UNCHANGED <<time, cache, status>>

PortalClock ==
    /\ time < MaxDate /\ time' = time + 1 /\ UNCHANGED <<cache, status, visit>>

PortalNext ==
    \/ PortalClock \/ PortalStops
    \/ \E v \in Visit :
        \/ PackBegins(v) \/ StatusRead(v) \/ StatusFails(v) \/ ViewRead(v) \/ PackDone(v)
        \/ SurveyBegins(v) \/ ProbeFleetNode(v) \/ WriteStatusJson(v)

PortalSpec == PortalInit /\ [][PortalNext]_portalVars

---------------------------------------------------------------------------
(* Properties.                                                             *)

\* What is kept is never older than it says: every view and every probe is
\* from the date on the file or later, whatever else was being served.
DatedBefore ==
    /\ \A i \in View : cache.read[i] # 0 => cache.at <= cache.read[i]
    /\ \A h \in Host : status.read[h] # 0 => status.at <= status.read[h]

\* A file is replaced by one with an earlier date only at the end of a
\* request during which another one wrote it.
ForwardUnlessOverlapped ==
    cache'.at < cache.at \/ status'.at < status.at =>
        \E v \in Visit : visit[v].crossed /\ visit'[v] = NoVisit

\* What the control room shows of a node that does not answer is as recent
\* as the date it shows.
PackHonest == []DatedBefore /\ [][ForwardUnlessOverlapped]_portalVars

=============================================================================
