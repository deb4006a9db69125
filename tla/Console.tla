------------------------------- MODULE Console -------------------------------
(***************************************************************************)
(* The public view (apps/console): one page that polls the aggregator for  *)
(* its status and its blackboard, and a panel with the public work view.   *)
(* Polls are started by a timer whether or not the last one has ended;     *)
(* they have no timeout and share one AbortController per mounted effect.  *)
(* What the fleet is, is a version that only grows; whether it advertises  *)
(* node agents depends on it. Layout, tokens and numbers are left out.     *)
(***************************************************************************)
EXTENDS Naturals, FiniteSets

CONSTANTS
    MaxVersion,  \* bound on the changes of the fleet
    MaxPoll,     \* bound on the polls
    MaxMount,    \* bound on the mounts of the page's effect
    Missing      \* nothing there yet

ASSUME ConsoleAssumption ==
    MaxVersion \in Nat /\ MaxPoll \in Nat \ {0} /\ MaxMount \in Nat \ {0}

VARIABLES
    fleet,     \* the version of the fleet
    mount,     \* the mounts so far; the last one is not aborted
    poll,      \* the polls, in the order they began
    page,      \* App: what is shown, loading, error
    panel      \* FixBugsFirstView

consoleVars == <<fleet, mount, poll, page, panel>>

FleetVersion == 0 .. MaxVersion
Advertised(v) == v % 2 = 1

\* A body: of a version, or an answer that is not ok.
Body == [ok : {TRUE}, version : FleetVersion] \cup [ok : {FALSE}, version : {0}]
NotOk == [ok |-> FALSE, version |-> 0]

\* by and blind are history: the poll the page shows, and whether an aborted
\* poll ended since the last one began.
ConsoleTypeOK ==
    /\ fleet \in FleetVersion /\ mount \in 1 .. MaxMount
    /\ DOMAIN poll \in {1 .. k : k \in 0 .. MaxPoll}
    /\ \A p \in DOMAIN poll :
          poll[p] \in [open : BOOLEAN, mount : 1 .. MaxMount,
                       status : Body \cup {Missing}, board : Body \cup {Missing}]
    /\ page \in [status : Body \cup {Missing}, board : Body \cup {Missing}, loading : BOOLEAN,
                 error : BOOLEAN, by : 0 .. MaxPoll, blind : BOOLEAN]
    /\ panel \in [open : BOOLEAN, asking : BOOLEAN, result : Body \cup {Missing}, error : BOOLEAN]

ClosedPanel == [open |-> FALSE, asking |-> FALSE, result |-> Missing, error |-> FALSE]

\* The first poll begins with the effect.
ConsoleInit ==
    /\ fleet \in FleetVersion /\ mount = 1
    /\ poll = [p \in {1} |-> [open |-> TRUE, mount |-> 1, status |-> Missing, board |-> Missing]]
    /\ page = [status |-> Missing, board |-> Missing, loading |-> TRUE, error |-> FALSE,
               by |-> 0, blind |-> FALSE]
    /\ panel = ClosedPanel

---------------------------------------------------------------------------
(* Polls.                                                                  *)

BeginPoll(m) ==
    /\ Cardinality(DOMAIN poll) < MaxPoll
    /\ poll' = [p \in 1 .. Cardinality(DOMAIN poll) + 1 |->
                   IF p \in DOMAIN poll THEN poll[p]
                   ELSE [open |-> TRUE, mount |-> m, status |-> Missing, board |-> Missing]]
    /\ page' = [page EXCEPT !.loading = TRUE, !.error = FALSE, !.blind = FALSE]

\* setInterval: the error that was shown is gone when the next poll begins.
Tick == BeginPoll(mount) /\ UNCHANGED <<fleet, mount, panel>>

\* The effect is cleaned up and run again (StrictMode); its state stays.
Remount ==
    /\ mount < MaxMount /\ mount' = mount + 1 /\ BeginPoll(mount + 1)
    /\ UNCHANGED <<fleet, panel>>

OpsReply == {[ok |-> TRUE, version |-> fleet], NotOk}

\* The aggregator answers one of the two requests.
StatusAnswered(p) ==
    /\ poll[p].open /\ poll[p].status = Missing
    /\ \E b \in OpsReply : poll' = [poll EXCEPT ![p].status = b]
    /\ UNCHANGED <<fleet, mount, page, panel>>

BoardAnswered(p) ==
    /\ poll[p].open /\ poll[p].board = Missing
    /\ \E b \in OpsReply : poll' = [poll EXCEPT ![p].board = b]
    /\ UNCHANGED <<fleet, mount, page, panel>>

\* Mutant of Aborted: the signal is not handed to fetch.
AbortedNever(p) == FALSE

Aborted(p) == poll[p].mount # mount

\* Both have answered: only the status is asked whether it is ok, and a
\* later poll may have been shown already.
PollShown(p) ==
    /\ poll[p].open /\ ~Aborted(p) /\ poll[p].status # Missing /\ poll[p].board # Missing
    /\ poll' = [poll EXCEPT ![p].open = FALSE]
    /\ page' = [page EXCEPT !.status = poll[p].status, !.board = poll[p].board, !.by = p,
                            !.loading = FALSE, !.error = @ \/ ~poll[p].status.ok]
    /\ UNCHANGED <<fleet, mount, panel>>

\* One of the two fails: the error of a poll that was not aborted.
PollFails(p) ==
    /\ poll[p].open /\ ~Aborted(p) /\ Missing \in {poll[p].status, poll[p].board}
    /\ poll' = [poll EXCEPT ![p].open = FALSE]
    /\ page' = [page EXCEPT !.loading = FALSE, !.error = TRUE]
    /\ UNCHANGED <<fleet, mount, panel>>

\* AbortError: nothing is shown, but the loading mark goes.
PollAborted(p) ==
    /\ poll[p].open /\ Aborted(p)
    /\ poll' = [poll EXCEPT ![p].open = FALSE]
    /\ page' = [page EXCEPT !.loading = FALSE, !.blind = TRUE]
    /\ UNCHANGED <<fleet, mount, panel>>

FleetChanges ==
    /\ fleet < MaxVersion /\ fleet' = fleet + 1 /\ UNCHANGED <<mount, poll, page, panel>>

---------------------------------------------------------------------------
(* The work panel.                                                         *)

OpenPanel ==
    /\ ~panel.open /\ panel' = [ClosedPanel EXCEPT !.open = TRUE, !.asking = TRUE]
    /\ UNCHANGED <<fleet, mount, poll, page>>

\* Back to the fleet: the request is aborted.
ClosePanel == panel.open /\ panel' = ClosedPanel /\ UNCHANGED <<fleet, mount, poll, page>>

\* A body that is not the dashboard is kept, and rendered, as well.
PanelAnswered ==
    /\ panel.asking
    /\ \E b \in OpsReply :
          panel' = [panel EXCEPT !.asking = FALSE, !.result = b, !.error = ~b.ok]
    /\ UNCHANGED <<fleet, mount, poll, page>>

PanelFails ==
    /\ panel.asking /\ panel' = [panel EXCEPT !.asking = FALSE, !.error = TRUE]
    /\ UNCHANGED <<fleet, mount, poll, page>>

ConsoleNext ==
    \/ Tick \/ Remount \/ FleetChanges
    \/ \E p \in DOMAIN poll :
        StatusAnswered(p) \/ BoardAnswered(p) \/ PollShown(p) \/ PollFails(p) \/ PollAborted(p)
    \/ OpenPanel \/ ClosePanel \/ PanelAnswered \/ PanelFails

ConsoleSpec == ConsoleInit /\ [][ConsoleNext]_consoleVars

---------------------------------------------------------------------------
(* Properties.                                                             *)

\* FleetView: "No operium.node.v1 attractors on blackboard."
SaysNone == ~page.loading /\ (page.board = Missing \/ ~page.board.ok \/ ~Advertised(page.board.version))

\* Without an error on the page, it says there are no node agents only if
\* there were none, if the blackboard's answer was not ok (which is not
\* looked at), or if an aborted poll has just cleared the loading mark.
NoneIsTrue ==
    SaysNone /\ ~page.error =>
        \/ page.blind
        \/ page.board # Missing /\ (page.board.ok => ~Advertised(page.board.version))

\* "No open bugs reported." is only said with the error beside it or of a
\* projection without any.
NoBugsIsTrue ==
    panel.open /\ panel.result # Missing /\ ~panel.result.ok => panel.error

\* What is shown is replaced by something older only by a poll that
\* overlapped the one shown, never by one of a page that was left.
OlderOnlyByOverlap ==
    page'.by < page.by => poll[page'.by].mount = mount /\ poll[page.by].mount = mount

\* The page is honest about what it knows.
ConsoleHonest ==
    /\ [](NoneIsTrue /\ NoBugsIsTrue) /\ [][OlderOnlyByOverlap]_consoleVars

=============================================================================
