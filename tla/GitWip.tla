------------------------------- MODULE GitWip -------------------------------
(***************************************************************************)
(* Handing work in progress from one machine to another through a branch   *)
(* wip/<topic> of the shared remote: `operium handoff wip` and `operium    *)
(* resume wip`, on clones that people keep editing meanwhile.              *)
(*                                                                         *)
(* A branch is the set of changes its commits carry, and {} before it is   *)
(* made. Nothing is rewritten, so one branch is ahead of another when it   *)
(* has changes the other lacks, and a fast-forward is a superset. Between  *)
(* two git commands of a call other machines push, and the user of the     *)
(* machine edits files.                                                    *)
(***************************************************************************)
EXTENDS FiniteSets

CONSTANTS
    Machine,
    Work,       \* changes that are made once, somewhere
    SecretLike, \* the ones in paths that detectSecretLikePaths names
    Base        \* what main carries

ASSUME WipAssumption ==
    SecretLike \subseteq Work /\ IsFiniteSet(Work) /\ Base \notin Work

\* A branch that exists carries what main does.
NoBranch == {}
Branches == {NoBranch} \cup {ws \cup {Base} : ws \in SUBSET Work}

VARIABLES
    tree,      \* uncommitted changes of a clone
    local,     \* its branch wip/<topic>, or NoBranch
    tracked,   \* its origin/wip/<topic>, as of its last fetch
    upstream,  \* its branch has an upstream
    origin,    \* the branch on the remote
    doing,     \* what its command is about to do, if it is a resume that hands
               \* off first (--auto-handoff-first), and if the handoff does
               \* not push (--no-push)
    made       \* changes made so far

wipVars == <<tree, local, tracked, upstream, origin, doing, made>>

WipSteps == {"none", "h-fetch", "h-switch", "h-stage", "h-push",
             "r-fetch", "r-pull"}

\* Types of the variables above.
WipTypeOK ==
    /\ tree \in [Machine -> SUBSET Work]
    /\ local \in [Machine -> Branches]
    /\ tracked \in [Machine -> Branches]
    /\ upstream \in [Machine -> BOOLEAN] /\ origin \in Branches
    /\ doing \in [Machine -> [step : WipSteps, chained : BOOLEAN, keep : BOOLEAN]]
    /\ made \subseteq Work

Resting == [step |-> "none", chained |-> FALSE, keep |-> FALSE]

WipInit ==
    /\ tree = [m \in Machine |-> {}]
    /\ local = [m \in Machine |-> NoBranch] /\ tracked = [m \in Machine |-> NoBranch]
    /\ upstream = [m \in Machine |-> FALSE] /\ origin = NoBranch
    /\ doing = [m \in Machine |-> Resting]
    /\ made = {}

clones == <<tree, local, upstream>>

Starts(m, step, chained, keep) ==
    /\ doing[m] = Resting
    /\ doing' = [doing EXCEPT ![m] = [step |-> step, chained |-> chained, keep |-> keep]]
Proceeds(m, from, to) ==
    /\ doing[m].step = from /\ doing' = [doing EXCEPT ![m].step = to]
Stops(m) == doing' = [doing EXCEPT ![m] = Resting]

\* What a fetch stores; a remote branch that is gone stays (no --prune), and
\* this one is never deleted.
Fetched(m) == tracked' = [tracked EXCEPT ![m] = origin]

---------------------------------------------------------------------------
(* handoffWip.                                                             *)

\* The changes of the working tree that no handoff may take along.
Blocked(paths) == paths \cap SecretLike

HandoffBegins(m) ==
    /\ Blocked(tree[m]) = {}
    /\ \E noPush \in BOOLEAN : Starts(m, "h-fetch", FALSE, noPush)
    /\ UNCHANGED <<clones, tracked, origin, made>>

HandoffFetch(m) ==
    /\ Proceeds(m, "h-fetch", "h-switch") /\ Fetched(m)
    /\ UNCHANGED <<clones, origin, made>>

\* To the branch: the local one, else one that tracks the remote's, else a
\* new one. The working tree comes along.
Switched(m) ==
    IF local[m] # NoBranch THEN local[m]
    ELSE IF tracked[m] # NoBranch THEN tracked[m] ELSE {Base}

\* remote_wip_ahead, as of the fetch.
Behind(m) == tracked[m] \ Switched(m)

SwitchAndCompare(m) ==
    /\ doing[m].step = "h-switch"
    /\ IF Behind(m) # {} THEN Stops(m) ELSE Proceeds(m, "h-switch", "h-stage")
    /\ local' = [local EXCEPT ![m] = Switched(m)]
    /\ upstream' = [upstream EXCEPT ![m] = @ \/ (local[m] = NoBranch /\ tracked[m] # NoBranch)]
    /\ UNCHANGED <<tree, tracked, origin, made>>

\* git add -A, the second look at what is staged, git commit. Nothing is
\* committed if a path is blocked, and nothing but what is staged.
CommitStaged(m) ==
    /\ doing[m].step = "h-stage"
    /\ IF Blocked(tree[m]) # {} THEN Stops(m) /\ UNCHANGED <<tree, local>>
       ELSE /\ local' = [local EXCEPT ![m] = @ \cup tree[m]]
            /\ tree' = [tree EXCEPT ![m] = {}]
            /\ IF ~doing[m].keep THEN Proceeds(m, "h-stage", "h-push")
               ELSE IF doing[m].chained THEN Proceeds(m, "h-stage", "r-fetch") ELSE Stops(m)
    /\ UNCHANGED <<upstream, tracked, origin, made>>

\* Mutant of PushWip: git push --force.
PushForced(m) ==
    /\ doing[m].step = "h-push" /\ Stops(m)
    /\ origin' = local[m] /\ tracked' = [tracked EXCEPT ![m] = local[m]]
    /\ upstream' = [upstream EXCEPT ![m] = TRUE]
    /\ UNCHANGED <<tree, local, made>>

\* git push -u: refused if the remote has moved on; the commit stays.
PushWip(m) ==
    /\ doing[m].step = "h-push"
    /\ IF origin \subseteq local[m]
       THEN /\ origin' = local[m] /\ tracked' = [tracked EXCEPT ![m] = local[m]]
            /\ upstream' = [upstream EXCEPT ![m] = TRUE]
            /\ IF doing[m].chained THEN Proceeds(m, "h-push", "r-fetch") ELSE Stops(m)
       ELSE Stops(m) /\ UNCHANGED <<origin, tracked, upstream>>
    /\ UNCHANGED <<tree, local, made>>

---------------------------------------------------------------------------
(* resumeWip.                                                              *)

\* A dirty tree is refused, or handed off first.
ResumeBegins(m) ==
    /\ \/ tree[m] = {} /\ Starts(m, "r-fetch", FALSE, FALSE)
       \/ /\ tree[m] # {} /\ Blocked(tree[m]) = {}
          /\ \E noPush \in BOOLEAN : Starts(m, "h-fetch", TRUE, noPush)
    /\ UNCHANGED <<clones, tracked, origin, made>>

\* remote_wip_branch_not_found, if there is none; else to the branch.
FetchAndSwitch(m) ==
    /\ doing[m].step = "r-fetch" /\ Fetched(m)
    /\ IF origin = NoBranch
       THEN Stops(m) /\ UNCHANGED <<local, upstream>>
       ELSE /\ Proceeds(m, "r-fetch", "r-pull")
            /\ local' = IF local[m] # NoBranch THEN local ELSE [local EXCEPT ![m] = origin]
            /\ upstream' = [upstream EXCEPT ![m] = @ \/ local[m] = NoBranch]
    /\ UNCHANGED <<tree, origin, made>>

\* git pull --ff-only fetches again; it throws without an upstream or when
\* the branches have parted.
PullFastForward(m) ==
    /\ doing[m].step = "r-pull" /\ Stops(m)
    /\ IF upstream[m] THEN Fetched(m) ELSE UNCHANGED tracked
    /\ local' = IF upstream[m] /\ local[m] \subseteq origin
                THEN [local EXCEPT ![m] = origin] ELSE local
    /\ UNCHANGED <<tree, upstream, origin, made>>

\* Any git command may fail and end the call where it is.
GitFails(m) ==
    /\ doing[m].step # "none" /\ Stops(m)
    /\ UNCHANGED <<clones, tracked, origin, made>>

\* The user changes a file, also while a command runs.
Edits(m) ==
    /\ \E w \in Work \ made :
          /\ made' = made \cup {w} /\ tree' = [tree EXCEPT ![m] = @ \cup {w}]
    /\ UNCHANGED <<local, upstream, tracked, origin, doing>>

WipNext ==
    \E m \in Machine :
        \/ HandoffBegins(m) \/ HandoffFetch(m) \/ SwitchAndCompare(m)
        \/ CommitStaged(m) \/ PushWip(m) \/ ResumeBegins(m) \/ FetchAndSwitch(m)
        \/ PullFastForward(m) \/ GitFails(m) \/ Edits(m)

WipSpec == WipInit /\ [][WipNext]_wipVars

---------------------------------------------------------------------------
(* Properties.                                                             *)

Parted(m) ==
    /\ local[m] # NoBranch
    /\ ~(local[m] \subseteq origin) /\ ~(origin \subseteq local[m])

\* No secret-like change is ever committed, whatever appears in the working
\* tree between the first look and the commit.
NoSecretCommitted ==
    \A m \in Machine : Blocked(local[m]) = {}

\* What has reached the remote stays there, whoever pushes next; and once a
\* clone and the remote have parted, no handoff and no resume of that clone
\* or of any other brings them together again: it takes a person to merge.
PublishedKeptPartedForGood ==
    [][/\ origin \subseteq origin'
       /\ \A m \in Machine : Parted(m) => Parted(m)']_wipVars

\* What a handoff keeps: secrets out, and in what is published.
WipKept == []NoSecretCommitted /\ PublishedKeptPartedForGood

=============================================================================
