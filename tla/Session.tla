------------------------------ MODULE Session ------------------------------
(***************************************************************************)
(* Suspending a working session: `operium pause`, `checkpoint` and `next`  *)
(* scan the repositories of the workspace, push what is ahead, write the   *)
(* anchor RESUME-SESSION.md that names their commits, publish it, and hand *)
(* the question "which issue?" to a continuation when it cannot be         *)
(* inferred. The human and an agent may do so at once, and both go on      *)
(* committing, and switching branches meanwhile.                           *)
(*                                                                         *)
(* A step is what runs between two awaits, but the scan is one: what its   *)
(* git commands read of the repositories is of one moment. The commits of  *)
(* a branch are numbered from 1; the remotes hold a prefix.                *)
(***************************************************************************)
EXTENDS Naturals, FiniteSets

CONSTANTS
    Repo,        \* repositories of the workspace but the anchor's own
    Branch,
    Upstream,    \* the branches with an upstream, as <<repository, branch>>
    IssueOf,     \* the issue a branch's name carries, or NoIssue
    Caller,      \* processes pausing
    Option,      \* option sets they are started with
    Issue,
    Cont,        \* ids of continuations
    MaxCommit,   \* bound on the commits of a branch
    NoIssue, NoCont, NoAnchor

Options == [issue : Issue \cup {NoIssue}, cont : Cont \cup {NoCont},
            push : BOOLEAN, dry : BOOLEAN, ask : BOOLEAN]

ASSUME SessionAssumption ==
    /\ IssueOf \in [Branch -> Issue \cup {NoIssue}] /\ Option \in (SUBSET Options) \ {{}}
    /\ Upstream \subseteq Repo \X Branch
    /\ NoIssue \notin Issue /\ NoCont \notin Cont /\ MaxCommit \in Nat

VARIABLES
    branch,     \* the branch a repository is on
    head,       \* commits of its branches
    remote,     \* how many of them the remote has
    anchor,     \* the anchor's file
    staged,     \* the anchor in the index of its repository
    committed,  \* the anchor as main of its repository has it
    published,  \* the anchor as the remote has it
    cont,       \* continuations: status and decisions taken
    contended,    \* those that two pauses held at once
    pause       \* the call of each process

repoVars == <<branch, head, remote>>
anchorVars == <<anchor, staged, committed, published>>
sessionVars == <<repoVars, anchorVars, cont, contended, pause>>

\* A repository is at commit n of a branch, and nothing says that the commit
\* may be missing on its remote.
Claim == Repo \X Branch \X Nat
Anchors == [issue : Issue, claims : SUBSET Claim]
PauseSteps == {"idle", "scan", "push", "decide", "stage", "commit", "publish", "resolve"}

\* Types of the variables above.
SessionTypeOK ==
    /\ branch \in [Repo -> Branch]
    /\ head \in [Repo -> [Branch -> Nat]] /\ remote \in [Repo -> [Branch -> Nat]]
    /\ {anchor, staged, committed, published} \subseteq Anchors \cup {NoAnchor}
    /\ cont \in [Cont -> [status : {"none", "active", "resolved"}, decisions : Nat]]
    /\ contended \subseteq Cont
    /\ pause \in [Caller -> [step : PauseSteps, opt : Option,
                             prior : Issue \cup {NoIssue}, named : SUBSET Issue,
                             todo : SUBSET Repo, claims : SUBSET Claim]]

NotPausing == [step |-> "idle", opt |-> CHOOSE o \in Option : TRUE, prior |-> NoIssue,
               named |-> {}, todo |-> {}, claims |-> {}]

SessionInit ==
    /\ branch \in [Repo -> Branch]
    /\ head = [r \in Repo |-> [b \in Branch |-> 0]] /\ remote = head
    /\ anchor = NoAnchor /\ staged = NoAnchor
    /\ committed = NoAnchor /\ published = NoAnchor
    /\ cont = [k \in Cont |-> [status |-> "none", decisions |-> 0]] /\ contended = {}
    /\ pause = [c \in Caller |-> NotPausing]

On(c, step) == pause[c].step = step
Set(c, call) == pause' = [pause EXCEPT ![c] = call]
PauseEnds(c) == Set(c, NotPausing)
Then(c, step) == Set(c, [pause[c] EXCEPT !.step = step])

---------------------------------------------------------------------------
(* pauseSession.                                                           *)

\* Mutant of Loads: the status is not looked at.
LoadsAny(k) == cont[k].status # "none"

\* loadContinuation, and the check of its status.
Loads(k) == cont[k].status = "active"

Holders(k) == {c \in Caller : pause[c].step # "idle" /\ pause[c].opt.cont = k}

\* The anchor is read for its issue, in case none is given, and the
\* continuation for its status.
StartPause(c, opt) ==
    /\ On(c, "idle") /\ (opt.cont # NoCont => Loads(opt.cont))
    /\ Set(c, [NotPausing EXCEPT !.step = "scan", !.opt = opt,
                  !.prior = IF anchor = NoAnchor \/ opt.issue # NoIssue THEN NoIssue
                            ELSE anchor.issue])
    /\ contended' = contended \cup {k \in {opt.cont} \cap Cont : Holders(k) # {}}
    /\ UNCHANGED <<repoVars, anchorVars, cont>>

\* getGitRepoStatus: without an upstream a branch is ahead of nothing.
Tracked(r) == <<r, branch[r]>> \in Upstream
Ahead(r) == Tracked(r) /\ head[r][branch[r]] > remote[r][branch[r]]

\* The scan of all repositories, unless a secret-like path ends the call:
\* what is ahead is to be pushed, or reported if pushing is off. Of a branch
\* without an upstream nothing is known, pushed or reported.
Scan(c) ==
    /\ On(c, "scan")
    /\ LET ahead == {r \in Repo : Ahead(r)}
           pushing == pause[c].opt.push /\ ~pause[c].opt.dry
           silent == {r \in Repo : Tracked(r) /\ head[r][branch[r]] > 0} \ (IF pushing THEN {} ELSE ahead)
       IN Set(c, [pause[c] EXCEPT
              !.step = "push",
              !.todo = IF pushing THEN ahead ELSE {},
              !.named = IF pause[c].opt.issue = NoIssue
                        THEN {IssueOf[branch[r]] : r \in Repo} \ {NoIssue} ELSE {},
              !.claims = {<<r, branch[r], head[r][branch[r]]>> : r \in silent}])
    /\ UNCHANGED <<repoVars, anchorVars, cont, contended>>

\* The claims without those of r on other branches than bs.
ClaimsOn(c, r, bs) == {claim \in pause[c].claims : claim[1] = r => claim[2] \in bs}

\* git push of whatever branch the repository is on by now.
Pushed(c, r) ==
    /\ Tracked(r)
    /\ remote' = [remote EXCEPT ![r][branch[r]] = head[r][branch[r]]]
    /\ Set(c, [pause[c] EXCEPT !.todo = @ \ {r}, !.claims = ClaimsOn(c, r, {branch[r]})])

\* Mutant of PushRefused: the refusal is not reported.
PushUnreported(c, r) ==
    Set(c, [pause[c] EXCEPT !.todo = @ \ {r}]) /\ UNCHANGED remote

\* It is refused or fails, and reported in unpushed_alerts.
PushRefused(c, r) ==
    /\ Set(c, [pause[c] EXCEPT !.todo = @ \ {r}, !.claims = ClaimsOn(c, r, {})])
    /\ UNCHANGED remote

PushRepo(c, r) ==
    /\ On(c, "push") /\ r \in pause[c].todo
    /\ Pushed(c, r) \/ PushRefused(c, r)
    /\ UNCHANGED <<branch, head, anchorVars, cont, contended>>

\* The mesh is probed and told to fetch, which leaves nothing behind here.
NotifyMesh(c) ==
    /\ On(c, "push") /\ pause[c].todo = {} /\ Then(c, "decide")
    /\ UNCHANGED <<repoVars, anchorVars, cont, contended>>

\* inferSessionIssue: the earlier anchor's issue, else the one that the
\* branches name.
Decisions(c) ==
    IF pause[c].opt.issue # NoIssue THEN {pause[c].opt.issue}
    ELSE IF pause[c].opt.ask THEN {}
    ELSE IF pause[c].prior # NoIssue THEN {pause[c].prior}
    ELSE IF Cardinality(pause[c].named) = 1 THEN pause[c].named ELSE {}

\* No issue: a continuation with a fresh id is written, in a dry run too.
EmitContinuation(c) ==
    /\ On(c, "decide") /\ Decisions(c) = {}
    /\ \E k \in Cont : cont[k].status = "none" /\ cont' = [cont EXCEPT ![k].status = "active"]
    /\ PauseEnds(c)
    /\ UNCHANGED <<repoVars, anchorVars, contended>>

\* The anchor's file is written over whatever it says by now; what follows
\* needs only the options.
WriteAnchor(c) ==
    /\ On(c, "decide") /\ ~pause[c].opt.dry
    /\ \E i \in Decisions(c) : anchor' = [issue |-> i, claims |-> pause[c].claims]
    /\ Set(c, [NotPausing EXCEPT !.step = "stage", !.opt = pause[c].opt])
    /\ UNCHANGED <<repoVars, staged, committed, published, cont, contended>>

DryRunEnds(c) ==
    /\ On(c, "decide") /\ pause[c].opt.dry /\ Decisions(c) # {} /\ PauseEnds(c)
    /\ UNCHANGED <<repoVars, anchorVars, cont, contended>>

\* git add of the file as it is by now. This and the two steps after it may
\* fail, and then nothing is said.
StageAnchor(c) ==
    /\ On(c, "stage") /\ Then(c, "commit")
    /\ staged' \in {anchor, staged}
    /\ UNCHANGED <<repoVars, anchor, committed, published, cont, contended>>

\* git commit, which takes along whatever else is staged.
CommitAnchor(c) ==
    /\ On(c, "commit") /\ Then(c, IF pause[c].opt.push THEN "publish" ELSE "resolve")
    /\ committed' \in {staged, committed}
    /\ UNCHANGED <<repoVars, anchor, staged, published, cont, contended>>

PublishAnchor(c) ==
    /\ On(c, "publish") /\ Then(c, "resolve")
    /\ published' \in {committed, published}
    /\ UNCHANGED <<repoVars, anchor, staged, committed, cont, contended>>

\* resolveContinuation, which does not look at the status again.
Resolve(c) ==
    /\ On(c, "resolve") /\ PauseEnds(c)
    /\ cont' = IF pause[c].opt.cont = NoCont THEN cont
               ELSE [cont EXCEPT ![pause[c].opt.cont] =
                        [status |-> "resolved", decisions |-> @.decisions + 1]]
    /\ UNCHANGED <<repoVars, anchorVars, contended>>

---------------------------------------------------------------------------
(* checkpoint and next.                                                    *)

\* A pause and then a look at the mesh and the gate, which changes nothing:
\* a blocked gate makes the answer ok: false after the anchor was sealed.
Checkpoint(c, opt) == opt.cont = NoCont /\ StartPause(c, opt)

\* What status says a workspace is ahead by: it reads repo.ahead, which
\* getGitRepoStatus reports under sync.
StatusAhead == 0

\* planNextSteps: the first of its rules that applies.
TopStep(gateBlocked, dirty) ==
    IF gateBlocked THEN "fbf_blocker"
    ELSE IF StatusAhead > 0 THEN "mesh_sync"
    ELSE IF dirty THEN "test" ELSE "checkpoint"

\* executeNextStep; the steps but the last only print or run tests.
NextStep(c, opt) ==
    \E gateBlocked, dirty \in BOOLEAN :
        TopStep(gateBlocked, dirty) = "checkpoint" /\ Checkpoint(c, opt)

---------------------------------------------------------------------------
(* People and agents at work, and faults.                                  *)

PauseDies(c) ==
    /\ pause[c].step # "idle" /\ PauseEnds(c)
    /\ UNCHANGED <<repoVars, anchorVars, cont, contended>>

CommitWork(r) ==
    /\ head[r][branch[r]] < MaxCommit /\ head' = [head EXCEPT ![r][branch[r]] = @ + 1]
    /\ UNCHANGED <<branch, remote, anchorVars, cont, contended, pause>>

SwitchBranch(r) ==
    /\ branch' \in {[branch EXCEPT ![r] = b] : b \in Branch \ {branch[r]}}
    /\ UNCHANGED <<head, remote, anchorVars, cont, contended, pause>>

SessionNext ==
    \/ \E r \in Repo : CommitWork(r) \/ SwitchBranch(r)
    \/ \E c \in Caller :
        \/ \E opt \in Option : StartPause(c, opt) \/ Checkpoint(c, opt) \/ NextStep(c, opt)
        \/ \E r \in Repo : PushRepo(c, r)
        \/ Scan(c) \/ NotifyMesh(c) \/ EmitContinuation(c) \/ WriteAnchor(c)
        \/ DryRunEnds(c) \/ StageAnchor(c) \/ CommitAnchor(c) \/ PublishAnchor(c) \/ Resolve(c) \/ PauseDies(c)

SessionSpec == SessionInit /\ [][SessionNext]_sessionVars

---------------------------------------------------------------------------
(* Properties.                                                             *)

\* A published anchor names commits that the remotes have, except of the
\* repositories that the pause reported as not pushed, of a branch that has
\* no upstream, and of one that was left between scan and push.
AnchorReachable ==
    published # NoAnchor =>
        \A claim \in published.claims : claim[3] <= remote[claim[1]][claim[2]]

\* A continuation is decided twice only if two pauses held it at once: the
\* status is checked when it is loaded, awaits before it is written.
DecidedOnceUnlessCrossed ==
    \A k \in Cont : cont[k].decisions > 1 => k \in contended

PauseHonest == AnchorReachable /\ DecidedOnceUnlessCrossed

=============================================================================
