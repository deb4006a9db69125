----------------------------- MODULE WorkProofs -----------------------------
(***************************************************************************)
(* Proofs about the tools people and agents work with: the handoff of work *)
(* in progress, the pause of a session, the rollout of keys and the        *)
(* rewriting of local files, for any machines, callers, operators and      *)
(* processes, and every value of the bounds.                               *)
(***************************************************************************)
EXTENDS GitWip, Session, SecretRollout, LocalFiles, TLAPS

---------------------------------------------------------------------------
(* GitWip. A change is made once: until it is pushed, only the clone it    *)
(* was made in has it.                                                     *)

Carried == {NoBranch} \cup {ws \cup {Base} : ws \in SUBSET made}

WipInv ==
    /\ made \subseteq Work
    /\ tree \in [Machine -> SUBSET made]
    /\ local \in [Machine -> Carried] /\ tracked \in [Machine -> Carried]
    /\ origin \in Carried
    /\ \A m \in Machine :
         /\ tracked[m] \subseteq origin
         /\ tree[m] \cap origin = {}
         /\ \A n \in Machine :
              /\ tree[m] \cap local[n] = {}
              /\ m # n => tree[m] \cap tree[n] = {}
              /\ m # n => local[m] \cap local[n] \subseteq origin \cup {Base}

\* A handoff that commits or pushes has switched to the branch.
OnBranch ==
    /\ doing \in [Machine -> [step : WipSteps, chained : BOOLEAN, keep : BOOLEAN]]
    /\ \A m \in Machine : doing[m].step \in {"h-stage", "h-push"} => local[m] # NoBranch

LEMMA WipInvInit == WipInit => WipInv /\ OnBranch
  <1>1. WipInit => WipInv
    BY WipAssumption DEF WipInit, WipInv, Carried, NoBranch
  <1>2. WipInit => OnBranch
    BY DEF WipInit, OnBranch, Resting, WipSteps
  <1> QED
    BY <1>1, <1>2

\* The command of m goes to the step `to`, and no other command moves.
DoingMoves(m, to) ==
    /\ doing' \in [Machine -> [step : WipSteps, chained : BOOLEAN, keep : BOOLEAN]]
    /\ doing'[m].step = to
    /\ \A n \in Machine : n # m => doing'[n] = doing[n]

LEMMA Moves ==
    ASSUME OnBranch, NEW m \in Machine
    PROVE  /\ \A to \in WipSteps : \A c, k \in BOOLEAN : Starts(m, to, c, k) => DoingMoves(m, to)
           /\ \A from : \A to \in WipSteps : Proceeds(m, from, to) => DoingMoves(m, to)
           /\ Stops(m) => DoingMoves(m, "none")
  <1>1. ASSUME NEW to \in WipSteps, NEW c \in BOOLEAN, NEW k \in BOOLEAN, Starts(m, to, c, k)
        PROVE  DoingMoves(m, to)
    BY <1>1 DEF OnBranch, Starts, DoingMoves
  <1>2. ASSUME NEW from, NEW to \in WipSteps, Proceeds(m, from, to)
        PROVE  DoingMoves(m, to)
    BY <1>2 DEF OnBranch, Proceeds, DoingMoves
  <1>3. ASSUME Stops(m)
        PROVE  DoingMoves(m, "none")
    BY <1>3 DEF OnBranch, Stops, Resting, WipSteps, DoingMoves
  <1> QED
    BY <1>1, <1>2, <1>3

\* A command that is elsewhere, or finds the branch there, disturbs nothing.
LEMMA MovesOn ==
    ASSUME OnBranch, NEW m \in Machine, NEW to, DoingMoves(m, to),
           \A n \in Machine : local[n] # NoBranch => local'[n] # NoBranch,
           to \in {"h-stage", "h-push"} => local'[m] # NoBranch
    PROVE  OnBranch'
  BY DEF OnBranch, DoingMoves, NoBranch

LEMMA OnBranchStep ==
    ASSUME WipInv, OnBranch, [WipNext]_wipVars
    PROVE  OnBranch'
  <1> USE DEF clones, wipVars
  <1>0. {"none", "h-fetch", "h-switch", "h-stage", "h-push", "r-fetch", "r-pull"} \subseteq WipSteps
    BY DEF WipSteps
  <1>1. ASSUME NEW m \in Machine, HandoffBegins(m) \/ ResumeBegins(m)
        PROVE  OnBranch'
    <2>1. local' = local /\ \E to \in {"h-fetch", "r-fetch"} : DoingMoves(m, to)
      BY <1>0, <1>1, Moves DEF HandoffBegins, ResumeBegins
    <2> QED
      BY <2>1, MovesOn
  <1>2. ASSUME NEW m \in Machine, HandoffFetch(m) \/ GitFails(m)
        PROVE  OnBranch'
    <2>1. local' = local /\ \E to \in {"h-switch", "none"} : DoingMoves(m, to)
      BY <1>0, <1>2, Moves DEF HandoffFetch, GitFails
    <2> QED
      BY <2>1, MovesOn
  <1>3. ASSUME NEW m \in Machine, SwitchAndCompare(m)
        PROVE  OnBranch'
    <2>1. Switched(m) # NoBranch
      BY DEF Switched, NoBranch
    <2>2. \A n \in Machine : local'[n] = IF n = m THEN Switched(m) ELSE local[n]
      BY <1>3 DEF SwitchAndCompare, WipInv
    <2>3. \E to \in {"none", "h-stage"} : DoingMoves(m, to)
      BY <1>0, <1>3, Moves DEF SwitchAndCompare
    <2> QED
      BY <2>1, <2>2, <2>3, MovesOn
  <1>4. ASSUME NEW m \in Machine, CommitStaged(m)
        PROVE  OnBranch'
    <2>1. \A n \in Machine : local[n] \subseteq local'[n]
      BY <1>4 DEF CommitStaged, WipInv
    <2>2. local[m] # NoBranch
      BY <1>4 DEF CommitStaged, OnBranch
    <2>3. \E to \in {"none", "h-push", "r-fetch"} : DoingMoves(m, to)
      BY <1>0, <1>4, Moves DEF CommitStaged
    <2> QED
      BY <2>1, <2>2, <2>3, MovesOn DEF NoBranch
  <1>5. ASSUME NEW m \in Machine, PushWip(m)
        PROVE  OnBranch'
    <2>1. local' = local /\ \E to \in {"none", "r-fetch"} : DoingMoves(m, to)
      BY <1>0, <1>5, Moves DEF PushWip
    <2> QED
      BY <2>1, MovesOn
  <1>6. ASSUME NEW m \in Machine, FetchAndSwitch(m)
        PROVE  OnBranch'
    <2>1. \A n \in Machine : local[n] # NoBranch => local'[n] # NoBranch
      BY <1>6 DEF FetchAndSwitch, WipInv
    <2>2. \E to \in {"none", "r-pull"} : DoingMoves(m, to)
      BY <1>0, <1>6, Moves DEF FetchAndSwitch
    <2> QED
      BY <2>1, <2>2, MovesOn
  <1>7. ASSUME NEW m \in Machine, PullFastForward(m)
        PROVE  OnBranch'
    <2>1. \A n \in Machine : local[n] # NoBranch => local'[n] # NoBranch
      BY <1>7 DEF PullFastForward, WipInv, NoBranch
    <2>2. DoingMoves(m, "none")
      BY <1>7, Moves DEF PullFastForward
    <2> QED
      BY <2>1, <2>2, MovesOn
  <1>8. CASE UNCHANGED <<local, doing>>
    BY <1>8 DEF OnBranch
  <1>9. ASSUME NEW m \in Machine, Edits(m)
        PROVE  OnBranch'
    BY <1>8, <1>9 DEF Edits
  <1> QED
    BY <1>1, <1>2, <1>3, <1>4, <1>5, <1>6, <1>7, <1>8, <1>9 DEF WipNext

\* What a clone switches to carries nothing that is not published already.
LEMMA SwitchedCarried ==
    ASSUME WipInv, NEW m \in Machine
    PROVE  /\ Switched(m) \in Carried
           /\ local[m] # NoBranch => Switched(m) = local[m]
           /\ local[m] = NoBranch => Switched(m) \subseteq origin \cup {Base}
  <1>1. {Base} \in Carried
    <2>1. {Base} = {} \cup {Base} /\ {} \in SUBSET made
      OBVIOUS
    <2> QED
      BY <2>1 DEF Carried
  <1> QED
    BY <1>1 DEF WipInv, Switched

\* A clone that takes up published changes keeps all of this.
LEMMA WipTakes ==
    ASSUME WipInv, NEW m \in Machine, NEW line \in Carried,
           line \subseteq local[m] \cup origin \cup {Base},
           local' = [local EXCEPT ![m] = line], tracked' \in [Machine -> Carried],
           \A n \in Machine : tracked'[n] \subseteq origin, UNCHANGED <<tree, origin, made>>
    PROVE  WipInv'
  <1>1. \A n \in Machine : local'[n] = IF n = m THEN line ELSE local[n]
    BY DEF WipInv
  <1>2. \A n \in Machine : Base \notin tree[n]
    BY WipAssumption DEF WipInv
  <1>3. local' \in [Machine -> Carried]
    BY DEF WipInv
  <1>4. Carried' = Carried
    BY DEF Carried, NoBranch
  <1>5. \A n, o \in Machine : tree[n] \cap local'[o] = {}
    BY <1>1, <1>2 DEF WipInv
  <1>6. \A n, o \in Machine : n # o => local'[n] \cap local'[o] \subseteq origin \cup {Base}
    BY <1>1 DEF WipInv
  <1> QED
    BY <1>3, <1>4, <1>5, <1>6 DEF WipInv

LEMMA WipFetches ==
    ASSUME WipInv, NEW m \in Machine, Fetched(m)
    PROVE  tracked' \in [Machine -> Carried] /\ \A n \in Machine : tracked'[n] \subseteq origin
  BY DEF WipInv, Fetched

LEMMA WipStill ==
    ASSUME WipInv, UNCHANGED <<tree, local, tracked, origin, made>>
    PROVE  WipInv'
  BY DEF WipInv, Carried, NoBranch

LEMMA WipInvStep ==
    ASSUME WipInv, OnBranch, [WipNext]_wipVars
    PROVE  WipInv'
  <1> USE DEF clones, wipVars
  <1>1. ASSUME NEW m \in Machine, HandoffBegins(m) \/ ResumeBegins(m) \/ GitFails(m)
        PROVE  WipInv'
    BY <1>1, WipStill DEF HandoffBegins, ResumeBegins, GitFails
  <1>2. ASSUME NEW m \in Machine, HandoffFetch(m)
        PROVE  WipInv'
    <2>1. UNCHANGED <<tree, local, origin, made>>
      BY <1>2 DEF HandoffFetch
    <2>2. Carried' = Carried
      BY <2>1 DEF Carried, NoBranch
    <2> QED
      BY <1>2, <2>1, <2>2, WipFetches DEF HandoffFetch, WipInv
  <1>3. ASSUME NEW m \in Machine, SwitchAndCompare(m)
        PROVE  WipInv'
    <2>1. Switched(m) \subseteq local[m] \cup origin \cup {Base}
      BY SwitchedCarried
    <2> QED
      BY <1>3, <2>1, SwitchedCarried, WipTakes DEF SwitchAndCompare, WipInv
  <1>4. ASSUME NEW m \in Machine, CommitStaged(m)
        PROVE  WipInv'
    <2>1. CASE Blocked(tree[m]) # {}
      BY <1>4, <2>1, WipStill DEF CommitStaged
    <2>2. CASE Blocked(tree[m]) = {}
      <3>1. /\ local' = [local EXCEPT ![m] = @ \cup tree[m]]
            /\ tree' = [tree EXCEPT ![m] = {}] /\ UNCHANGED <<tracked, origin, made>>
        BY <1>4, <2>2 DEF CommitStaged
      <3>2. \A n \in Machine : /\ local'[n] = IF n = m THEN local[m] \cup tree[m] ELSE local[n]
                               /\ tree'[n] = IF n = m THEN {} ELSE tree[n]
        BY <3>1 DEF WipInv
      <3>3. Carried' = Carried
        BY <3>1 DEF Carried, NoBranch
      <3>4. tree' \in [Machine -> SUBSET made]
        BY <3>1 DEF WipInv
      <3>5. local' \in [Machine -> Carried]
        <4>1. local[m] \cup tree[m] \in Carried
          <5>1. PICK ws \in SUBSET made : local[m] = ws \cup {Base}
            BY <1>4 DEF CommitStaged, OnBranch, WipInv, Carried
          <5>2. ws \cup tree[m] \in SUBSET made /\ local[m] \cup tree[m] = (ws \cup tree[m]) \cup {Base}
            BY <5>1 DEF WipInv
          <5> QED
            BY <5>2 DEF Carried
        <4> QED
          BY <3>1, <4>1 DEF WipInv
      <3>6. \A n, o \in Machine : tree'[n] \cap local'[o] = {}
        BY <3>2 DEF WipInv
      <3>7. \A n, o \in Machine : n # o => tree'[n] \cap tree'[o] = {}
        BY <3>2 DEF WipInv
      <3>8. \A n, o \in Machine : n # o => local'[n] \cap local'[o] \subseteq origin \cup {Base}
        BY <3>2 DEF WipInv
      <3> QED
        BY <3>1, <3>2, <3>3, <3>4, <3>5, <3>6, <3>7, <3>8 DEF WipInv
    <2> QED
      BY <2>1, <2>2
  <1>5. ASSUME NEW m \in Machine, PushWip(m)
        PROVE  WipInv'
    <2>1. CASE origin \subseteq local[m]
      <3>1. /\ origin' = local[m] /\ tracked' = [tracked EXCEPT ![m] = local[m]]
            /\ UNCHANGED <<tree, local, made>>
        BY <1>5, <2>1 DEF PushWip
      <3>2. Carried' = Carried
        BY <3>1 DEF Carried, NoBranch
      <3>3. \A n \in Machine : tracked'[n] = IF n = m THEN local[m] ELSE tracked[n]
        BY <3>1 DEF WipInv
      <3>4. tracked' \in [Machine -> Carried] /\ origin' \in Carried
        BY <3>1 DEF WipInv
      <3> QED
        BY <2>1, <3>1, <3>2, <3>3, <3>4 DEF WipInv
    <2>2. CASE ~(origin \subseteq local[m])
      BY <1>5, <2>2, WipStill DEF PushWip
    <2> QED
      BY <2>1, <2>2
  <1>6. ASSUME NEW m \in Machine, FetchAndSwitch(m)
        PROVE  WipInv'
    <2>1. local' = [local EXCEPT ![m] = local[m]] \/ local' = [local EXCEPT ![m] = origin]
      BY <1>6 DEF FetchAndSwitch, WipInv
    <2>2. local[m] \in Carried /\ origin \in Carried
      BY DEF WipInv
    <2>3. UNCHANGED <<tree, origin, made>>
      BY <1>6 DEF FetchAndSwitch
    <2>4. tracked' \in [Machine -> Carried] /\ \A n \in Machine : tracked'[n] \subseteq origin
      BY <1>6, WipFetches DEF FetchAndSwitch
    <2> QED
      BY <2>1, <2>2, <2>3, <2>4, WipTakes
  <1>7. ASSUME NEW m \in Machine, PullFastForward(m)
        PROVE  WipInv'
    <2>1. local' = [local EXCEPT ![m] = local[m]] \/ local' = [local EXCEPT ![m] = origin]
      BY <1>7 DEF PullFastForward, WipInv
    <2>2. local[m] \in Carried /\ origin \in Carried
      BY DEF WipInv
    <2>3. UNCHANGED <<tree, origin, made>>
      BY <1>7 DEF PullFastForward
    <2>4. tracked' \in [Machine -> Carried] /\ \A n \in Machine : tracked'[n] \subseteq origin
      BY <1>7, WipFetches DEF PullFastForward, WipInv
    <2> QED
      BY <2>1, <2>2, <2>3, <2>4, WipTakes
  <1>8. ASSUME NEW m \in Machine, Edits(m)
        PROVE  WipInv'
    <2>1. PICK w \in Work \ made : made' = made \cup {w} /\ tree' = [tree EXCEPT ![m] = @ \cup {w}]
      BY <1>8 DEF Edits
    <2>2. UNCHANGED <<local, tracked, origin>>
      BY <1>8 DEF Edits
    <2>3. \A n \in Machine : tree'[n] = IF n = m THEN tree[m] \cup {w} ELSE tree[n]
      BY <2>1 DEF WipInv
    <2>4. Carried \subseteq Carried'
      BY <2>1 DEF Carried, NoBranch
    <2>5. \A line \in Carried : w \notin line
      BY <2>1, WipAssumption DEF Carried, NoBranch
    <2>6. tree' \in [Machine -> SUBSET made'] /\ made' \subseteq Work
      BY <2>1 DEF WipInv
    <2>7. w \notin origin /\ \A n \in Machine : w \notin local[n] /\ w \notin tree[n]
      BY <2>1, <2>5 DEF WipInv
    <2>8. local' \in [Machine -> Carried'] /\ tracked' \in [Machine -> Carried'] /\ origin' \in Carried'
      BY <2>2, <2>4 DEF WipInv
    <2> QED
      BY <2>2, <2>3, <2>6, <2>7, <2>8 DEF WipInv
  <1>9. CASE UNCHANGED wipVars
    BY <1>9, WipStill
  <1> QED
    BY <1>1, <1>2, <1>3, <1>4, <1>5, <1>6, <1>7, <1>8, <1>9 DEF WipNext

LEMMA WipReached == WipSpec => [](WipInv /\ OnBranch)
  BY WipInvInit, WipInvStep, OnBranchStep, PTL DEF WipSpec

\* The types of a clone follow, with that of its upstream.
LEMMA WipTyped ==
  /\ WipInit => upstream \in [Machine -> BOOLEAN]
  /\ upstream \in [Machine -> BOOLEAN] /\ [WipNext]_wipVars => upstream' \in [Machine -> BOOLEAN]
  /\ WipInv /\ OnBranch /\ upstream \in [Machine -> BOOLEAN] => WipTypeOK
  <1>1. WipInit => upstream \in [Machine -> BOOLEAN]
    BY DEF WipInit
  <1>2. ASSUME upstream \in [Machine -> BOOLEAN], [WipNext]_wipVars
        PROVE  upstream' \in [Machine -> BOOLEAN]
    BY <1>2 DEF WipNext, wipVars, clones, HandoffBegins, HandoffFetch, SwitchAndCompare,
                CommitStaged, PushWip, ResumeBegins, FetchAndSwitch, PullFastForward, GitFails, Edits
  <1>3. ASSUME WipInv, OnBranch, upstream \in [Machine -> BOOLEAN]
        PROVE  WipTypeOK
    <2>1. Carried \subseteq Branches
      BY <1>3 DEF WipInv, Carried, Branches
    <2> QED
      BY <1>3, <2>1 DEF WipInv, OnBranch, WipTypeOK
  <1> QED
    BY <1>1, <1>2, <1>3

\* The branches a handoff commits to carry no secret-like change: what is
\* staged is looked at right before.
WipClean ==
    /\ \A m \in Machine : Blocked(local[m]) = {} /\ Blocked(tracked[m]) = {}
    /\ Blocked(origin) = {}

LEMMA WipCleanStep ==
    ASSUME WipInv, WipClean, [WipNext]_wipVars
    PROVE  WipClean'
  <1> USE DEF clones, wipVars, Blocked
  <1>0. Base \notin SecretLike
    BY WipAssumption
  <1>1. ASSUME NEW m \in Machine, HandoffBegins(m) \/ ResumeBegins(m) \/ GitFails(m) \/ Edits(m)
        PROVE  WipClean'
    BY <1>1 DEF HandoffBegins, ResumeBegins, GitFails, Edits, WipClean
  <1>2. ASSUME NEW m \in Machine, HandoffFetch(m)
        PROVE  WipClean'
    BY <1>2 DEF HandoffFetch, Fetched, WipClean, WipInv
  <1>3. ASSUME NEW m \in Machine, SwitchAndCompare(m)
        PROVE  WipClean'
    BY <1>0, <1>3 DEF SwitchAndCompare, Switched, WipClean, WipInv
  <1>4. ASSUME NEW m \in Machine, CommitStaged(m)
        PROVE  WipClean'
    BY <1>4 DEF CommitStaged, WipClean, WipInv
  <1>5. ASSUME NEW m \in Machine, PushWip(m)
        PROVE  WipClean'
    BY <1>5 DEF PushWip, WipClean, WipInv
  <1>6. ASSUME NEW m \in Machine, FetchAndSwitch(m)
        PROVE  WipClean'
    BY <1>6 DEF FetchAndSwitch, Fetched, WipClean, WipInv
  <1>7. ASSUME NEW m \in Machine, PullFastForward(m)
        PROVE  WipClean'
    BY <1>7 DEF PullFastForward, Fetched, WipClean, WipInv
  <1>8. CASE UNCHANGED wipVars
    BY <1>8 DEF WipClean
  <1> QED
    BY <1>1, <1>2, <1>3, <1>4, <1>5, <1>6, <1>7, <1>8 DEF WipNext

\* Whatever machines, edits, failures and races there are, no branch of any
\* clone ever carries a secret-like change.
THEOREM NoSecretEver == WipSpec => []NoSecretCommitted
  <1>1. WipInit => WipClean
    BY DEF WipInit, WipClean, Blocked, NoBranch
  <1>2. WipClean => NoSecretCommitted
    BY DEF WipClean, NoSecretCommitted
  <1> QED
    BY <1>1, <1>2, WipReached, WipCleanStep, PTL DEF WipSpec

LEMMA PartedStays ==
    ASSUME WipInv, OnBranch, [WipNext]_wipVars
    PROVE  origin \subseteq origin' /\ \A m \in Machine : Parted(m) => Parted(m)'
  <1> USE DEF clones, wipVars
  <1>0. origin # NoBranch => Base \in origin
    BY DEF WipInv, Carried
  <1>1. ASSUME NEW m \in Machine,
               HandoffBegins(m) \/ ResumeBegins(m) \/ GitFails(m) \/ Edits(m) \/ HandoffFetch(m)
        PROVE  UNCHANGED <<local, origin>>
    BY <1>1 DEF HandoffBegins, ResumeBegins, GitFails, Edits, HandoffFetch
  <1>2. ASSUME NEW m \in Machine, SwitchAndCompare(m)
        PROVE  origin' = origin /\ \A n \in Machine : Parted(n) => local'[n] = local[n]
    BY <1>2, SwitchedCarried DEF SwitchAndCompare, Parted, WipInv
  <1>3. ASSUME NEW m \in Machine, FetchAndSwitch(m)
        PROVE  origin' = origin /\ \A n \in Machine : Parted(n) => local'[n] = local[n]
    BY <1>3 DEF FetchAndSwitch, Parted, WipInv
  <1>4. ASSUME NEW m \in Machine, PullFastForward(m)
        PROVE  origin' = origin /\ \A n \in Machine : Parted(n) => local'[n] = local[n]
    BY <1>4 DEF PullFastForward, Parted, WipInv
  <1>5. ASSUME NEW m \in Machine, CommitStaged(m)
        PROVE  origin' = origin /\ \A n \in Machine : Parted(n) => Parted(n)'
    <2>1. origin' = origin
      BY <1>5 DEF CommitStaged
    <2>2. \A n \in Machine : local'[n] = local[n] \/ local'[n] = local[n] \cup tree[n]
      BY <1>5 DEF CommitStaged, WipInv
    <2>3. \A n \in Machine : tree[n] \cap origin = {}
      BY DEF WipInv
    <2> QED
      BY <2>1, <2>2, <2>3 DEF Parted, NoBranch
  <1>6. ASSUME NEW m \in Machine, PushWip(m)
        PROVE  origin \subseteq origin' /\ \A n \in Machine : Parted(n) => Parted(n)'
    <2>1. CASE ~(origin \subseteq local[m])
      BY <1>6, <2>1 DEF PushWip, Parted
    <2>2. CASE origin \subseteq local[m]
      <3>1. origin' = local[m] /\ local' = local
        BY <1>6, <2>2 DEF PushWip
      <3>2. ASSUME NEW n \in Machine, Parted(n)
            PROVE  Parted(n)'
        <4>1. n # m /\ origin # NoBranch
          BY <2>2, <3>2 DEF Parted, NoBranch
        <4>2. PICK w \in local[n] : w \notin origin
          BY <3>2 DEF Parted
        <4>3. w \notin local[m]
          BY <1>0, <4>1, <4>2 DEF WipInv
        <4> QED
          BY <2>2, <3>1, <3>2, <4>2, <4>3 DEF Parted
      <3> QED
        BY <2>2, <3>1, <3>2
    <2> QED
      BY <2>1, <2>2
  <1>7. CASE UNCHANGED <<local, origin>>
    BY <1>7 DEF Parted
  <1>8. ASSUME origin' = origin, \A n \in Machine : Parted(n) => local'[n] = local[n]
        PROVE  origin \subseteq origin' /\ \A n \in Machine : Parted(n) => Parted(n)'
    BY <1>8 DEF Parted
  <1> QED
    BY <1>1, <1>2, <1>3, <1>4, <1>5, <1>6, <1>7, <1>8 DEF WipNext

\* What was pushed stays on the remote, and a clone that has parted from it is
\* not brought together with it by any handoff or resume, for any number of
\* machines and changes: an unpushed change is in one clone only.
THEOREM PublishedStays == WipSpec => PublishedKeptPartedForGood
  <1>1. ASSUME WipInv, OnBranch, [WipNext]_wipVars
        PROVE  [/\ origin \subseteq origin'
                /\ \A m \in Machine : Parted(m) => Parted(m)']_wipVars
    BY <1>1, PartedStays
  <1> QED
    BY <1>1, WipReached, PTL DEF WipSpec, PublishedKeptPartedForGood

---------------------------------------------------------------------------
(* SecretRollout.                                                          *)

RolloutFields == {"step", "next", "wanted", "restart", "restarts"}

\* A procedure that is not under way is not going to restart anything.
RolloutInv ==
    /\ rollout = [o \in Operator |-> rollout[o]]
    /\ \A o \in Operator :
         /\ DOMAIN rollout[o] = RolloutFields /\ rollout[o] = [f \in RolloutFields |-> rollout[o][f]]
         /\ rollout[o].step = "idle" => rollout[o].restarts = {}
    /\ StaleOnlyIfDropped

\* What one step does to the procedure of o: it ends up going to restart the
\* services `restarts`.
OneMoves(o, restarts) ==
    /\ rollout' = [q \in Operator |-> rollout'[q]]
    /\ DOMAIN rollout'[o] = RolloutFields
    /\ rollout'[o] = [f \in RolloutFields |-> rollout'[o][f]]
    /\ rollout'[o].restarts = restarts
    /\ rollout'[o].step = "idle" => restarts = {}
    /\ \A q \in Operator : q # o => rollout'[q] = rollout[q]

LEMMA NextKeyMoves ==
    ASSUME RolloutInv, NEW o \in Operator, NEW restarts, NextKey(o, restarts)
    PROVE  OneMoves(o, restarts)
  BY DEF RolloutInv, NextKey, OneMoves, RolloutFields

LEMMA RolloutEndsMoves ==
    ASSUME RolloutInv, NEW o \in Operator, RolloutEnds(o)
    PROVE  OneMoves(o, {})
  BY DEF RolloutInv, RolloutEnds, OneMoves, RolloutFields, NoRollout

LEMMA RolloutInvStep ==
    ASSUME RolloutInv, [RolloutNext]_rolloutVars
    PROVE  RolloutInv'
  <1> USE DEF rolloutVars
  <1>0. ASSUME NEW o \in Operator, NEW restarts, OneMoves(o, restarts),
               \A pair \in unread' :
                  \/ pair \in dropped' \/ pair[2] \in restarts
                  \/ pair \in unread /\ pair[2] \notin rollout[o].restarts
                        /\ (pair \in dropped => pair \in dropped')
        PROVE  RolloutInv'
    <2>1. \A q \in Operator : q # o => rollout'[q] = rollout[q]
      BY <1>0 DEF OneMoves
    <2>2. StaleOnlyIfDropped'
      BY <1>0, <2>1 DEF RolloutInv, StaleOnlyIfDropped, OneMoves
    <2> QED
      BY <1>0, <2>1, <2>2 DEF RolloutInv, OneMoves
  <1>1. ASSUME NEW o \in Operator, ReadSot(o)
        PROVE  RolloutInv'
    <2>1. UNCHANGED <<unread, dropped>> /\ rollout[o].restarts = {}
      BY <1>1 DEF ReadSot, Doing, RolloutInv
    <2>2. OneMoves(o, {})
      BY <1>1 DEF ReadSot, RolloutInv, OneMoves, RolloutFields, NoRollout
    <2> QED
      BY <1>0, <2>1, <2>2 DEF RolloutInv, StaleOnlyIfDropped
  <1>2. ASSUME NEW o \in Operator, VerifyKey(o)
        PROVE  RolloutInv'
    <2>1. UNCHANGED <<unread, dropped>>
      BY <1>2 DEF VerifyKey
    <2>2. OneMoves(o, rollout[o].restarts)
      <3>1. CASE NextKey(o, rollout[o].restarts)
        BY <3>1, NextKeyMoves
      <3>2. CASE rollout' = [rollout EXCEPT ![o].step = "write"]
        BY <3>2 DEF RolloutInv, OneMoves, RolloutFields
      <3> QED
        BY <1>2, <3>1, <3>2 DEF VerifyKey
    <2> QED
      BY <1>0, <2>1, <2>2
  <1>3. ASSUME NEW o \in Operator, WriteKey(o)
        PROVE  RolloutInv'
    <2>1. OneMoves(o, rollout[o].restarts \cup ServicesOf[Task(o)])
      BY <1>3, NextKeyMoves DEF WriteKey, ToRestart
    <2>2. dropped' = dropped
      BY <1>3 DEF WriteKey
    <2>3. \A pair \in unread' : pair \in unread \/ pair[2] \in ServicesOf[Task(o)]
      BY <1>3 DEF WriteKey, Written, Readers
    <2> QED
      BY <1>0, <2>1, <2>2, <2>3
  <1>4. ASSUME NEW o \in Operator, WriteFails(o)
        PROVE  RolloutInv'
    <2>1. OneMoves(o, rollout[o].restarts)
      BY <1>4, NextKeyMoves DEF WriteFails
    <2>2. unread' \subseteq unread \cup Readers(Task(o))
      BY <1>4 DEF WriteFails, Written
    <2>3. dropped' = dropped \cup (unread' \cap Readers(Task(o)))
      BY <1>4 DEF WriteFails
    <2> QED
      BY <1>0, <2>1, <2>2, <2>3
  <1>5. ASSUME NEW o \in Operator, Restart(o)
        PROVE  RolloutInv'
    <2>1. OneMoves(o, {})
      BY <1>5, RolloutEndsMoves DEF Restart
    <2>2. /\ unread' = {pair \in unread : pair[2] \notin rollout[o].restarts}
          /\ dropped' = {pair \in dropped : pair[2] \notin rollout[o].restarts}
      BY <1>5 DEF Restart, Started
    <2> QED
      BY <1>0, <2>1, <2>2
  <1>6. ASSUME NEW o \in Operator, NotRestarted(o) \/ RolloutDies(o)
        PROVE  RolloutInv'
    <2>1. OneMoves(o, {})
      BY <1>6, RolloutEndsMoves DEF NotRestarted, RolloutDies
    <2>2. unread' = unread
          /\ dropped' = dropped \cup {pair \in unread : pair[2] \in rollout[o].restarts}
      BY <1>6 DEF NotRestarted, RolloutDies, Dropped
    <2> QED
      BY <1>0, <2>1, <2>2
  <1>7. ASSUME NEW s \in Service, ServiceRestarts(s)
        PROVE  RolloutInv'
    BY <1>7 DEF ServiceRestarts, Started, RolloutInv, StaleOnlyIfDropped
  <1>8. ASSUME NEW k \in Key, Rotate(k)
        PROVE  RolloutInv'
    BY <1>8 DEF Rotate, RolloutInv, StaleOnlyIfDropped
  <1>9. CASE UNCHANGED rolloutVars
    BY <1>9 DEF RolloutInv, StaleOnlyIfDropped
  <1> QED
    BY <1>1, <1>2, <1>3, <1>4, <1>5, <1>6, <1>7, <1>8, <1>9 DEF RolloutNext

\* For any catalogue, files, services, operators, failures and rotations: a
\* service that works with an old key is about to be restarted, or somebody
\* gave its restart up.
THEOREM StaleAccounted == RolloutSpec => []StaleOnlyIfDropped
  <1>1. RolloutInit => RolloutInv
    <2> SUFFICES ASSUME RolloutInit PROVE RolloutInv
      OBVIOUS
    <2>1. rollout = [o \in Operator |-> rollout[o]]
      BY DEF RolloutInit
    <2>2. ASSUME NEW o \in Operator
          PROVE  /\ DOMAIN rollout[o] = RolloutFields
                 /\ rollout[o] = [f \in RolloutFields |-> rollout[o][f]]
                 /\ rollout[o].restarts = {}
      <3>1. rollout[o] = NoRollout
        BY DEF RolloutInit
      <3>2. /\ DOMAIN NoRollout = RolloutFields /\ NoRollout.restarts = {}
            /\ NoRollout = [f \in RolloutFields |-> NoRollout[f]]
        BY DEF RolloutFields, NoRollout
      <3> HIDE DEF NoRollout
      <3> QED
        BY <3>1, <3>2
    <2>3. StaleOnlyIfDropped
      BY DEF RolloutInit, StaleOnlyIfDropped
    <2> QED
      BY <2>1, <2>2, <2>3 DEF RolloutInv
  <1>2. RolloutInv => StaleOnlyIfDropped
    BY DEF RolloutInv
  <1> QED
    BY <1>1, <1>2, RolloutInvStep, PTL DEF RolloutSpec

RolloutRec == [step : RolloutSteps, next : Nat, wanted : [Key -> Nat], restart : BOOLEAN,
               restarts : SUBSET Service]

\* A procedure under way is at a key of the catalogue.
RolloutTyped ==
    /\ RolloutTypeOK
    /\ \A o \in Operator : rollout[o].step # "idle" => rollout[o].next \in 1 .. Len(Catalog)

LEMMA NoRolloutTyped == NoRollout \in RolloutRec /\ NoRollout.step = "idle"
  BY DEF NoRollout, RolloutRec, RolloutSteps

LEMMA RolloutTypedInit == RolloutInit => RolloutTyped
  <1> SUFFICES ASSUME RolloutInit PROVE RolloutTyped
    OBVIOUS
  <1>1. rollout \in [Operator -> RolloutRec] /\ \A o \in Operator : rollout[o].step = "idle"
    BY NoRolloutTyped DEF RolloutInit
  <1>2. sot \in [Key -> Nat] /\ copy \in [Target -> [Key -> Nat]]
    BY DEF RolloutInit
  <1>3. unread = {} /\ dropped = {}
    BY DEF RolloutInit
  <1> QED
    BY <1>1, <1>2, <1>3 DEF RolloutTyped, RolloutTypeOK, RolloutRec

\* The procedure of o becomes `one`, which is typed.
LEMMA RolloutMoves ==
  ASSUME RolloutTyped, NEW o \in Operator, NEW one \in RolloutRec,
         rollout' = [rollout EXCEPT ![o] = one],
         one.step # "idle" => one.next \in 1 .. Len(Catalog),
         sot' \in [Key -> Nat], copy' \in [Target -> [Key -> Nat]],
         unread' \subseteq Key \X Service, dropped' \subseteq Key \X Service
  PROVE  RolloutTyped'
  <1>1. rollout \in [Operator -> RolloutRec]
    BY DEF RolloutTyped, RolloutTypeOK, RolloutRec
  <1>2. /\ rollout' \in [Operator -> RolloutRec]
        /\ \A q \in Operator : rollout'[q] = IF q = o THEN one ELSE rollout[q]
    BY <1>1
  <1>3. RolloutTypeOK'
    BY <1>2 DEF RolloutTypeOK, RolloutRec
  <1> QED
    BY <1>2, <1>3 DEF RolloutTyped

LEMMA RolloutStill ==
  ASSUME RolloutTyped
  PROVE  /\ sot \in [Key -> Nat] /\ copy \in [Target -> [Key -> Nat]]
         /\ unread \subseteq Key \X Service /\ dropped \subseteq Key \X Service
         /\ \A o \in Operator :
              /\ rollout[o] \in RolloutRec
              /\ rollout[o].step \in RolloutSteps /\ rollout[o].next \in Nat
              /\ rollout[o].wanted \in [Key -> Nat] /\ rollout[o].restart \in BOOLEAN
              /\ rollout[o].restarts \subseteq Service
              /\ rollout[o].step # "idle" => rollout[o].next \in 1 .. Len(Catalog)
  BY DEF RolloutTyped, RolloutTypeOK, RolloutRec

LEMMA NextKeyTyped ==
  ASSUME RolloutTyped, NEW o \in Operator, rollout[o].step # "idle",
         NEW restarts \in SUBSET Service, NextKey(o, restarts),
         sot' \in [Key -> Nat], copy' \in [Target -> [Key -> Nat]],
         unread' \subseteq Key \X Service, dropped' \subseteq Key \X Service
  PROVE  RolloutTyped'
  <1> DEFINE last == rollout[o].next = Len(Catalog)
             one == [rollout[o] EXCEPT !.restarts = restarts,
                                       !.step = IF last THEN "restart" ELSE "verify",
                                       !.next = IF last THEN @ ELSE @ + 1]
  <1>1. rollout' = [rollout EXCEPT ![o] = one]
    <2>1. rollout \in [Operator -> RolloutRec]
      BY DEF RolloutTyped, RolloutTypeOK, RolloutRec
    <2> QED
      BY <2>1 DEF NextKey, RolloutRec
  <1>2. rollout[o].next \in 1 .. Len(Catalog) /\ Len(Catalog) \in Nat
    BY RolloutStill, RolloutAssumption
  <1>3. one.next \in 1 .. Len(Catalog) /\ one \in RolloutRec
    <2>1. rollout[o] \in RolloutRec
      BY RolloutStill
    <2>2. PICK next : next = IF last THEN rollout[o].next ELSE rollout[o].next + 1
      OBVIOUS
    <2>3. next \in 1 .. Len(Catalog) /\ next \in Nat
      BY <1>2, <2>2
    <2>4. PICK step \in RolloutSteps : step = IF last THEN "restart" ELSE "verify"
      BY DEF RolloutSteps
    <2>5. one = [rollout[o] EXCEPT !.restarts = restarts, !.step = step, !.next = next]
      BY <2>2, <2>4
    <2> HIDE DEF one, last
    <2> QED
      BY <2>1, <2>3, <2>5 DEF RolloutRec
  <1> HIDE DEF one
  <1> QED
    BY <1>1, <1>3, RolloutMoves

LEMMA EndsTyped ==
  ASSUME RolloutTyped, NEW o \in Operator, RolloutEnds(o),
         sot' \in [Key -> Nat], copy' \in [Target -> [Key -> Nat]],
         unread' \subseteq Key \X Service, dropped' \subseteq Key \X Service
  PROVE  RolloutTyped'
  <1>1. rollout' = [rollout EXCEPT ![o] = NoRollout]
    BY DEF RolloutEnds
  <1> QED
    BY <1>1, NoRolloutTyped, RolloutMoves

LEMMA TaskTyped ==
  ASSUME RolloutTyped, NEW o \in Operator, rollout[o].step # "idle"
  PROVE  /\ Task(o) \in Key /\ Value(o) \in Nat /\ Readers(Task(o)) \subseteq Key \X Service
         /\ ServicesOf[Task(o)] \subseteq Service
  <1>1. Task(o) \in Key
    BY RolloutStill DEF Task, Key
  <1>2. Value(o) \in Nat
    BY <1>1, RolloutStill DEF Value
  <1>3. ServicesOf[Task(o)] \subseteq Service
    BY <1>1, RolloutAssumption
  <1> QED
    BY <1>1, <1>2, <1>3 DEF Readers

LEMMA WrittenTyped ==
  ASSUME RolloutTyped, NEW o \in Operator, rollout[o].step # "idle", NEW n, Written(o, n)
  PROVE  copy' \in [Target -> [Key -> Nat]] /\ unread' \subseteq Key \X Service
  <1>1. copy \in [Target -> [Key -> Nat]] /\ unread \subseteq Key \X Service
    BY RolloutStill
  <1>2. Task(o) \in Key /\ Value(o) \in Nat /\ Readers(Task(o)) \subseteq Key \X Service
    BY TaskTyped
  <1>3. \A t \in Target : [copy[t] EXCEPT ![Task(o)] = Value(o)] \in [Key -> Nat]
    BY <1>1, <1>2
  <1>4. copy' \in [Target -> [Key -> Nat]]
    BY <1>1, <1>3 DEF Written
  <1>5. unread' \subseteq unread \cup Readers(Task(o))
    BY DEF Written
  <1> QED
    BY <1>1, <1>2, <1>4, <1>5

LEMMA RolloutTypedStep == RolloutTyped /\ [RolloutNext]_rolloutVars => RolloutTyped'
  <1> SUFFICES ASSUME RolloutTyped, [RolloutNext]_rolloutVars PROVE RolloutTyped'
    OBVIOUS
  <1>0. /\ sot \in [Key -> Nat] /\ copy \in [Target -> [Key -> Nat]]
        /\ unread \subseteq Key \X Service /\ dropped \subseteq Key \X Service
    BY RolloutStill
  <1>1. ASSUME NEW o \in Operator, ReadSot(o) PROVE RolloutTyped'
    <2>1. PICK restart \in BOOLEAN :
            rollout' = [rollout EXCEPT ![o] =
              [NoRollout EXCEPT !.step = "verify", !.next = 1, !.wanted = sot, !.restart = restart]]
      BY <1>1 DEF ReadSot
    <2>2. UNCHANGED <<sot, copy, unread, dropped>>
      BY <1>1 DEF ReadSot
    <2> DEFINE one == [NoRollout EXCEPT !.step = "verify", !.next = 1, !.wanted = sot,
                                        !.restart = restart]
    <2>3. one \in RolloutRec /\ one.next = 1
      BY <1>0, NoRolloutTyped DEF RolloutRec, RolloutSteps
    <2>4. 1 \in 1 .. Len(Catalog)
      BY RolloutAssumption
    <2>5. rollout' = [rollout EXCEPT ![o] = one]
      BY <2>1
    <2> HIDE DEF one
    <2> QED
      BY <1>0, <2>2, <2>3, <2>4, <2>5, RolloutMoves
  <1>2. ASSUME NEW o \in Operator, VerifyKey(o) PROVE RolloutTyped'
    <2>1. rollout[o].step = "verify" /\ UNCHANGED <<sot, copy, unread, dropped>>
      BY <1>2 DEF VerifyKey, Doing
    <2>2. CASE NextKey(o, rollout[o].restarts)
      BY <1>0, <2>1, <2>2, RolloutStill, NextKeyTyped
    <2>3. CASE rollout' = [rollout EXCEPT ![o].step = "write"]
      <3> DEFINE one == [rollout[o] EXCEPT !.step = "write"]
      <3>1. rollout' = [rollout EXCEPT ![o] = one]
        BY <2>3
      <3>2. one \in RolloutRec /\ one.next = rollout[o].next
        BY RolloutStill DEF RolloutRec, RolloutSteps
      <3> HIDE DEF one
      <3> QED
        BY <1>0, <2>1, <3>1, <3>2, RolloutStill, RolloutMoves
    <2> QED
      BY <1>2, <2>2, <2>3 DEF VerifyKey
  <1>3. ASSUME NEW o \in Operator, WriteKey(o) PROVE RolloutTyped'
    <2>1. rollout[o].step = "write" /\ UNCHANGED <<sot, dropped>>
      BY <1>3 DEF WriteKey, Doing
    <2>2. copy' \in [Target -> [Key -> Nat]] /\ unread' \subseteq Key \X Service
      BY <1>3, <2>1, WrittenTyped DEF WriteKey
    <2>3. rollout[o].restarts \cup ToRestart(o) \in SUBSET Service
      BY <2>1, RolloutStill, TaskTyped DEF ToRestart
    <2>4. NextKey(o, rollout[o].restarts \cup ToRestart(o))
      BY <1>3 DEF WriteKey
    <2> QED
      BY <1>0, <2>1, <2>2, <2>3, <2>4, NextKeyTyped
  <1>4. ASSUME NEW o \in Operator, WriteFails(o) PROVE RolloutTyped'
    <2>1. rollout[o].step = "write" /\ UNCHANGED sot
      BY <1>4 DEF WriteFails, Doing
    <2>2. copy' \in [Target -> [Key -> Nat]] /\ unread' \subseteq Key \X Service
      BY <1>4, <2>1, WrittenTyped DEF WriteFails
    <2>3. dropped' \subseteq Key \X Service
      BY <1>0, <1>4, <2>2 DEF WriteFails
    <2>4. NextKey(o, rollout[o].restarts) /\ rollout[o].restarts \in SUBSET Service
      BY <1>4, RolloutStill DEF WriteFails
    <2> QED
      BY <1>0, <2>1, <2>2, <2>3, <2>4, NextKeyTyped
  <1>5. ASSUME NEW o \in Operator, Restart(o) PROVE RolloutTyped'
    <2>1. /\ RolloutEnds(o) /\ unread' \subseteq unread /\ dropped' \subseteq dropped
          /\ UNCHANGED <<sot, copy>>
      BY <1>5 DEF Restart, Started
    <2> QED
      BY <1>0, <2>1, EndsTyped
  <1>6. ASSUME NEW o \in Operator, NotRestarted(o) \/ RolloutDies(o) PROVE RolloutTyped'
    <2>1. RolloutEnds(o) /\ dropped' \subseteq dropped \cup unread /\ UNCHANGED <<sot, copy, unread>>
      BY <1>6 DEF NotRestarted, RolloutDies, Dropped
    <2> QED
      BY <1>0, <2>1, EndsTyped
  <1>7. ASSUME NEW k \in Key, Rotate(k) PROVE RolloutTyped'
    <2>1. sot' \in [Key -> Nat] /\ UNCHANGED <<copy, unread, dropped, rollout>>
      BY <1>0, <1>7 DEF Rotate
    <2> QED
      BY <2>1 DEF RolloutTyped, RolloutTypeOK
  <1>8. ASSUME NEW s \in Service, ServiceRestarts(s) PROVE RolloutTyped'
    <2>1. unread' \subseteq unread /\ dropped' \subseteq dropped /\ UNCHANGED <<sot, copy, rollout>>
      BY <1>8 DEF ServiceRestarts, Started
    <2> QED
      BY <1>0, <2>1 DEF RolloutTyped, RolloutTypeOK
  <1>9. CASE UNCHANGED rolloutVars
    BY <1>9 DEF rolloutVars, RolloutTyped, RolloutTypeOK
  <1> QED
    BY <1>1, <1>2, <1>3, <1>4, <1>5, <1>6, <1>7, <1>8, <1>9 DEF RolloutNext

---------------------------------------------------------------------------
(* LocalFiles.                                                             *)

LEMMA LocalTypeInit == LocalInit => LocalTypeOK
  BY DEF LocalInit, LocalTypeOK, Settings, Env, Backend, Mode, NoSettings, NoRewrite

Rewrites == [step : {"idle", "settings", "env"}, mode : Mode, key : Nat,
             was : Settings, rest : Nat, torn : BOOLEAN, crossed : BOOLEAN]

\* A tool that nobody has crossed is going to put back what is there. Nobody
\* has seen an edit that was not begun.
LocalInv ==
    /\ LocalTypeOK
    /\ settings.rest <= edits["settings"] /\ env.rest <= edits["env"]
    /\ \A p \in Process :
          /\ rewrite[p].was.rest <= edits["settings"] /\ rewrite[p].rest <= edits["env"]
          /\ ~rewrite[p].torn /\ ~rewrite[p].crossed =>
                /\ rewrite[p].step = "settings" => rewrite[p].was.rest = settings.rest
                /\ rewrite[p].step = "env" => rewrite[p].rest = env.rest

LEMMA NoRewriteTyped ==
    /\ NoRewrite \in Rewrites /\ NoRewrite.step = "idle"
    /\ NoRewrite.rest = 0 /\ NoRewrite.was.rest = 0
  BY DEF NoRewrite, NoSettings, Rewrites, Settings, Mode, Backend

\* Replacing a file ends the tool p and marks those who have read the old one.
LEMMA CrossedMarks ==
    ASSUME LocalTypeOK, NEW file \in {"settings", "env"}, NEW p, rewrite' = Crossed(file, p)
    PROVE  /\ rewrite' \in [Process -> Rewrites]
           /\ \A q \in Process : q # p =>
                /\ rewrite'[q].step = rewrite[q].step /\ rewrite'[q].torn = rewrite[q].torn
                /\ rewrite'[q].was = rewrite[q].was /\ rewrite'[q].rest = rewrite[q].rest
                /\ rewrite'[q].crossed = (rewrite[q].crossed \/ rewrite[q].step = file)
           /\ p \in Process => rewrite'[p] = NoRewrite
  <1> DEFINE Marked(q) == [rewrite[q] EXCEPT !.crossed = @ \/ rewrite[q].step = file]
  <1>1. ASSUME NEW q \in Process
        PROVE  /\ Marked(q) \in Rewrites
               /\ Marked(q).step = rewrite[q].step /\ Marked(q).torn = rewrite[q].torn
               /\ Marked(q).was = rewrite[q].was /\ Marked(q).rest = rewrite[q].rest
    <2>1. rewrite[q] \in Rewrites
      BY DEF LocalTypeOK, Rewrites
    <2>2. (rewrite[q].crossed \/ rewrite[q].step = file) \in BOOLEAN
      OBVIOUS
    <2> QED
      BY <2>1, <2>2 DEF Rewrites
  <1>2. ASSUME NEW q \in Process
        PROVE  Marked(q).crossed = (rewrite[q].crossed \/ rewrite[q].step = file)
    <2>1. rewrite[q] \in Rewrites
      BY DEF LocalTypeOK, Rewrites
    <2>2. "crossed" \in DOMAIN rewrite[q]
      BY <2>1 DEF Rewrites
    <2> QED
      BY <2>2
  <1>3. rewrite' = [q \in Process |-> IF q = p THEN NoRewrite ELSE Marked(q)]
    BY DEF Crossed
  <1> HIDE DEF Marked
  <1> QED
    BY <1>1, <1>2, <1>3, NoRewriteTyped

\* Saving a file that others have edited keeps the invariant, whatever p was
\* going to write and whoever has read the old one.
LEMMA LocalInvSaved ==
    ASSUME LocalInv, NEW file \in {"settings", "env"}, NEW p, rewrite' = Crossed(file, p),
           settings' \in Settings, env' \in Env, edits' \in [{"settings", "env"} -> Nat],
           source' = source,
           settings'.rest <= edits'["settings"], env'.rest <= edits'["env"],
           edits["settings"] <= edits'["settings"], edits["env"] <= edits'["env"],
           file = "settings" => env' = env, file = "env" => settings' = settings
    PROVE  LocalInv'
  <1>1. LocalTypeOK'
    BY CrossedMarks DEF LocalInv, LocalTypeOK, Rewrites
  <1>2. ASSUME NEW q \in Process, ~rewrite'[q].torn, ~rewrite'[q].crossed
        PROVE  /\ rewrite'[q].step = "settings" => rewrite'[q].was.rest = settings'.rest
               /\ rewrite'[q].step = "env" => rewrite'[q].rest = env'.rest
    <2>1. CASE q = p
      BY <2>1, CrossedMarks, NoRewriteTyped DEF LocalInv
    <2>2. CASE q # p
      <3>1. /\ ~rewrite[q].torn /\ ~rewrite[q].crossed /\ rewrite[q].step # file
            /\ rewrite'[q].step = rewrite[q].step
            /\ rewrite'[q].was = rewrite[q].was /\ rewrite'[q].rest = rewrite[q].rest
        <4>1. /\ rewrite'[q].torn = rewrite[q].torn /\ rewrite'[q].step = rewrite[q].step
              /\ rewrite'[q].was = rewrite[q].was /\ rewrite'[q].rest = rewrite[q].rest
          BY <2>2, CrossedMarks DEF LocalInv
        <4>2. rewrite'[q].crossed = (rewrite[q].crossed \/ rewrite[q].step = file)
          BY <2>2, CrossedMarks DEF LocalInv
        <4> QED
          BY <4>1, <4>2, <1>2
      <3> QED
        BY <3>1, <1>2 DEF LocalInv, LocalTypeOK, Rewrites
    <2> QED
      BY <2>1, <2>2
  <1>3. ASSUME NEW q \in Process
        PROVE  rewrite'[q].was.rest <= edits'["settings"] /\ rewrite'[q].rest <= edits'["env"]
    <2>1. CASE q = p
      BY <2>1, CrossedMarks, NoRewriteTyped DEF LocalInv
    <2>2. CASE q # p
      <3>1. rewrite'[q].was = rewrite[q].was /\ rewrite'[q].rest = rewrite[q].rest
        BY <2>2, CrossedMarks DEF LocalInv
      <3>2. rewrite[q].was.rest \in Nat /\ rewrite[q].rest \in Nat
        BY DEF LocalInv, LocalTypeOK, Settings
      <3>3. /\ edits["settings"] \in Nat /\ edits'["settings"] \in Nat
            /\ edits["env"] \in Nat /\ edits'["env"] \in Nat
        BY DEF LocalInv, LocalTypeOK
      <3> QED
        BY <3>1, <3>2, <3>3 DEF LocalInv
    <2> QED
      BY <2>1, <2>2
  <1> QED
    BY <1>1, <1>2, <1>3 DEF LocalInv

\* A step that leaves the files alone and sets the record of p to one that
\* agrees with them.
LEMMA LocalInvOwn ==
    ASSUME LocalInv, NEW p \in Process, NEW r \in Rewrites,
           rewrite' = [rewrite EXCEPT ![p] = r], UNCHANGED <<settings, env, source, edits>>,
           r.was.rest <= edits["settings"], r.rest <= edits["env"],
           ~r.torn => /\ r.step = "settings" => r.was.rest = settings.rest
                      /\ r.step = "env" => r.rest = env.rest
    PROVE  LocalInv'
  BY DEF LocalInv, LocalTypeOK, Rewrites

LEMMA LocalInvStep == LocalInv /\ [LocalNext]_localVars => LocalInv'
  <1> SUFFICES ASSUME LocalInv, [LocalNext]_localVars PROVE LocalInv'
    OBVIOUS
  <1> USE DEF localVars
  <1>1. CASE RotateKey
    BY <1>1, LocalAssumption DEF RotateKey, LocalInv, LocalTypeOK
  <1> DEFINE Bounded == /\ settings' \in Settings /\ env' \in Env
                        /\ edits' \in [{"settings", "env"} -> Nat] /\ source' = source
                        /\ settings'.rest <= edits'["settings"] /\ env'.rest <= edits'["env"]
                        /\ edits["settings"] <= edits'["settings"] /\ edits["env"] <= edits'["env"]
  <1> DEFINE Saved(file, p) == /\ rewrite' = Crossed(file, p)
                               /\ file = "settings" => env' = env
                               /\ file = "env" => settings' = settings
  <1>0. ASSUME NEW file \in {"settings", "env"}, NEW p, Bounded, Saved(file, p)
        PROVE  LocalInv'
    BY <1>0, LocalInvSaved
  <1>a. /\ settings \in Settings /\ settings.rest \in Nat /\ env \in Env /\ env.rest \in Nat
        /\ edits \in [{"settings", "env"} -> Nat]
        /\ settings.rest <= edits["settings"] /\ env.rest <= edits["env"]
    BY DEF LocalInv, LocalTypeOK, Settings, Env
  <1>2. CASE SettingsOpened
    <2>a. settings' \in Settings /\ settings'.rest = settings.rest
      BY <1>2, <1>a DEF SettingsOpened, Settings
    <2>b. /\ edits' \in [{"settings", "env"} -> Nat]
          /\ edits'["settings"] = edits["settings"] + 1 /\ edits'["env"] = edits["env"]
      BY <1>2, <1>a DEF SettingsOpened
    <2>c. edits["settings"] \in Nat /\ edits["env"] \in Nat
      BY <1>a
    <2>1. Bounded
      BY <1>2, <1>a, <2>a, <2>b, <2>c DEF SettingsOpened
    <2>2. Saved("settings", "nobody")
      BY <1>2 DEF SettingsOpened
    <2> QED
      BY <2>1, <2>2, <1>0
  <1>3. CASE SettingsSaved
    <2>1. Bounded
      BY <1>3, <1>a DEF SettingsSaved, Settings
    <2>2. Saved("settings", "nobody")
      BY <1>3 DEF SettingsSaved
    <2> QED
      BY <2>1, <2>2, <1>0
  <1>4. CASE EnvOpened
    <2>a. env' \in Env /\ env'.rest = env.rest
      BY <1>4, <1>a DEF EnvOpened, Env
    <2>b. /\ edits' \in [{"settings", "env"} -> Nat]
          /\ edits'["env"] = edits["env"] + 1 /\ edits'["settings"] = edits["settings"]
      BY <1>4, <1>a DEF EnvOpened
    <2>c. edits["settings"] \in Nat /\ edits["env"] \in Nat
      BY <1>a
    <2>1. Bounded
      BY <1>4, <1>a, <2>a, <2>b, <2>c DEF EnvOpened
    <2>2. Saved("env", "nobody")
      BY <1>4 DEF EnvOpened
    <2> QED
      BY <2>1, <2>2, <1>0
  <1>5. CASE EnvSaved
    <2>a. edits["settings"] \in Nat /\ edits["env"] \in Nat
      BY <1>a
    <2>b. env' \in Env /\ env'.rest = edits["env"]
      BY <1>5, <1>a, <2>a DEF EnvSaved, Env
    <2>1. Bounded
      BY <1>5, <1>a, <2>a, <2>b DEF EnvSaved
    <2>2. Saved("env", "nobody")
      BY <1>5 DEF EnvSaved
    <2> QED
      BY <2>1, <2>2, <1>0
  <1>6. ASSUME NEW p \in Process, ReadSettings(p) PROVE LocalInv'
    <2>1. PICK m \in Mode : rewrite' = [rewrite EXCEPT ![p] =
              [NoRewrite EXCEPT !.step = "settings", !.mode = m, !.key = source,
                                !.was = ReadJsonSafe, !.torn = ~settings.whole]]
      BY <1>6 DEF ReadSettings
    <2> DEFINE r == [NoRewrite EXCEPT !.step = "settings", !.mode = m, !.key = source,
                                      !.was = ReadJsonSafe, !.torn = ~settings.whole]
    <2>2. rewrite' = [rewrite EXCEPT ![p] = r]
      BY <2>1
    <2>3. ReadJsonSafe \in Settings /\ (settings.whole => ReadJsonSafe = settings)
      BY DEF ReadJsonSafe, LocalInv, LocalTypeOK, NoSettings, Settings, Backend
    <2>4. /\ r \in Rewrites /\ r.step = "settings" /\ r.was = ReadJsonSafe
          /\ r.torn = ~settings.whole /\ r.rest = 0
      BY <2>3, NoRewriteTyped DEF LocalInv, LocalTypeOK, Rewrites
    <2>5. UNCHANGED <<settings, env, source, edits>>
      BY <1>6 DEF ReadSettings
    <2>6. r.was.rest <= edits["settings"] /\ r.rest <= edits["env"]
      <3>1. ReadJsonSafe.rest <= edits["settings"]
        BY <1>a DEF ReadJsonSafe, NoSettings
      <3> QED
        BY <1>a, <2>4, <3>1
    <2>7. ~r.torn => r.was.rest = settings.rest
      BY <2>3, <2>4
    <2>8. r.step # "env"
      BY <2>4
    <2> HIDE DEF r
    <2> QED
      BY <2>2, <2>4, <2>5, <2>6, <2>7, <2>8, LocalInvOwn
  <1>7. ASSUME NEW p \in Process, ReadEnv(p) PROVE LocalInv'
    <2> DEFINE r == [NoRewrite EXCEPT !.step = "env", !.key = source, !.torn = ~env.whole,
                                      !.rest = IF env.whole THEN env.rest ELSE 0]
    <2>1. rewrite' = [rewrite EXCEPT ![p] = r] /\ UNCHANGED <<settings, env, source, edits>>
      BY <1>7 DEF ReadEnv
    <2>2. /\ r \in Rewrites /\ r.step = "env" /\ r.torn = ~env.whole
          /\ r.rest = (IF env.whole THEN env.rest ELSE 0) /\ r.was = NoRewrite.was
      BY <1>a, NoRewriteTyped DEF LocalInv, LocalTypeOK, Rewrites
    <2>3. r.was.rest <= edits["settings"] /\ r.rest <= edits["env"]
      BY <1>a, <2>2, NoRewriteTyped
    <2>4. r.step # "settings" /\ (~r.torn => r.rest = env.rest)
      BY <2>2
    <2> HIDE DEF r
    <2> QED
      BY <2>1, <2>2, <2>3, <2>4, LocalInvOwn
  <1>8. ASSUME NEW p \in Process, WriteJson(p) PROVE LocalInv'
    <2>1. rewrite[p] \in Rewrites /\ rewrite[p].was.rest <= edits["settings"]
      BY DEF LocalInv, LocalTypeOK, Rewrites
    <2>2. settings' \in Settings /\ settings'.rest = rewrite[p].was.rest
      BY <1>8, <2>1 DEF WriteJson, ApplyPro, ApplyZai, Settings, Backend, Rewrites
    <2>3. Bounded
      BY <1>8, <1>a, <2>1, <2>2 DEF WriteJson
    <2>4. Saved("settings", p)
      BY <1>8 DEF WriteJson
    <2> QED
      BY <2>3, <2>4, <1>0
  <1>9. ASSUME NEW p \in Process, SyncKeyToFile(p) PROVE LocalInv'
    <2>1. rewrite[p] \in Rewrites /\ rewrite[p].rest <= edits["env"]
      BY DEF LocalInv, LocalTypeOK, Rewrites
    <2>2. env' \in Env /\ env'.rest = rewrite[p].rest
      BY <1>9, <2>1 DEF SyncKeyToFile, Env, Rewrites
    <2>3. Bounded
      BY <1>9, <1>a, <2>1, <2>2 DEF SyncKeyToFile
    <2>4. Saved("env", p)
      BY <1>9 DEF SyncKeyToFile
    <2> QED
      BY <2>3, <2>4, <1>0
  <1>10. ASSUME NEW p \in Process, ToolDies(p) PROVE LocalInv'
    <2>1. NoRewrite.was.rest <= edits["settings"] /\ NoRewrite.rest <= edits["env"]
      BY <1>a, NoRewriteTyped
    <2>2. NoRewrite.step # "settings" /\ NoRewrite.step # "env"
      BY NoRewriteTyped
    <2> QED
      BY <1>10, <2>1, <2>2, LocalInvOwn, NoRewriteTyped DEF ToolDies
  <1>11. CASE UNCHANGED localVars
    BY <1>11 DEF LocalInv, LocalTypeOK
  <1> QED
    BY <1>1, <1>2, <1>3, <1>4, <1>5, <1>6, <1>7, <1>8, <1>9, <1>10, <1>11 DEF LocalNext

LEMMA LocalInvInit == LocalInit => LocalInv
  <1> SUFFICES ASSUME LocalInit PROVE LocalInv
    OBVIOUS
  <1>1. LocalTypeOK
    BY LocalTypeInit
  <1>2. \A p \in Process : rewrite[p] = NoRewrite
    BY DEF LocalInit
  <1>3. settings.rest = 0 /\ env.rest = 0 /\ edits["settings"] = 0 /\ edits["env"] = 0
    BY DEF LocalInit, NoSettings
  <1> QED
    BY <1>1, <1>2, <1>3, NoRewriteTyped DEF LocalInv

\* Both switches leave what the status names as asked for.
LEMMA SwitchTakesEffect ==
    ASSUME NEW was \in Settings, NEW key
    PROVE  /\ DetectMode(ApplyPro(was)) = "pro" /\ DetectMode(ApplyZai(was, key)) = "zai"
           /\ ApplyPro(was).rest = was.rest /\ ApplyZai(was, key).rest = was.rest
  BY DEF Settings, Backend, DetectMode, ApplyPro, ApplyZai

LEMMA RestKept == LocalInv /\ [LocalNext]_localVars => [RestKeptUnlessDisturbed]_localVars
  <1> SUFFICES ASSUME LocalInv, LocalNext PROVE RestKeptUnlessDisturbed
    BY DEF localVars
  <1>a. /\ settings.rest \in Nat /\ env.rest \in Nat
        /\ edits["settings"] \in Nat /\ edits["env"] \in Nat
        /\ settings.rest <= edits["settings"] /\ env.rest <= edits["env"]
    BY DEF LocalInv, LocalTypeOK, Settings, Env
  \* Only WriteJson changes the settings and ends a switch.
  <1>b. ASSUME NEW file \in {"settings", "env"}, NEW p \in Process, NEW q,
               rewrite' = Crossed(file, q), rewrite[p].step = "settings", rewrite'[p] = NoRewrite
        PROVE  q = p
    BY <1>b, CrossedMarks, NoRewriteTyped DEF LocalInv
  <1>c. ASSUME UNCHANGED settings, ~(env'.rest < env.rest)
        PROVE  RestKeptUnlessDisturbed
    BY <1>a, <1>c DEF RestKeptUnlessDisturbed
  <1>1. CASE RotateKey
    BY <1>1, <1>a, <1>c DEF RotateKey
  <1>2. CASE SettingsOpened
    <2>1. ~(settings'.rest < settings.rest) /\ ~(env'.rest < env.rest)
      BY <1>2, <1>a DEF SettingsOpened, LocalInv, LocalTypeOK, Settings
    <2> QED
      BY <1>2, <1>b, <2>1, LocalAssumption DEF SettingsOpened, RestKeptUnlessDisturbed
  <1>3. CASE SettingsSaved
    <2>1. ~(settings'.rest < settings.rest) /\ ~(env'.rest < env.rest)
      BY <1>3, <1>a DEF SettingsSaved
    <2> QED
      BY <1>3, <1>b, <2>1, LocalAssumption DEF SettingsSaved, RestKeptUnlessDisturbed
  <1>4. CASE EnvOpened
    BY <1>4, <1>a, <1>c DEF EnvOpened, LocalInv, LocalTypeOK, Env
  <1>5. CASE EnvSaved
    BY <1>5, <1>a, <1>c DEF EnvSaved, LocalInv, LocalTypeOK, Env
  <1>6. ASSUME NEW p \in Process, ReadSettings(p) PROVE RestKeptUnlessDisturbed
    BY <1>6, <1>a, <1>c DEF ReadSettings
  <1>7. ASSUME NEW p \in Process, ReadEnv(p) PROVE RestKeptUnlessDisturbed
    BY <1>7, <1>a, <1>c DEF ReadEnv
  <1>8. ASSUME NEW p \in Process, WriteJson(p) PROVE RestKeptUnlessDisturbed
    <2>1. rewrite'[p] = NoRewrite
      BY <1>8, CrossedMarks DEF WriteJson, LocalInv
    <2>2. rewrite[p].was \in Settings /\ rewrite[p].mode \in Mode
      BY DEF LocalInv, LocalTypeOK
    <2>3. settings'.rest = rewrite[p].was.rest /\ DetectMode(settings') = rewrite[p].mode
      BY <1>8, <2>2, SwitchTakesEffect DEF WriteJson, Mode
    <2>4. settings'.rest < settings.rest => Disturbed(p)
      BY <1>8, <2>1, <2>3, <1>a DEF WriteJson, Disturbed, LocalInv
    <2>5. ~(env'.rest < env.rest)
      BY <1>8, <1>a DEF WriteJson
    <2>6. ASSUME NEW q \in Process, rewrite[q].step = "settings", rewrite'[q] = NoRewrite
          PROVE  q = p
      BY <1>8, <1>b, <2>6 DEF WriteJson
    <2> QED
      BY <2>3, <2>4, <2>5, <2>6 DEF RestKeptUnlessDisturbed
  <1>9. ASSUME NEW p \in Process, SyncKeyToFile(p) PROVE RestKeptUnlessDisturbed
    <2>1. rewrite'[p] = NoRewrite
      BY <1>9, CrossedMarks DEF SyncKeyToFile, LocalInv
    <2>2. env'.rest = rewrite[p].rest /\ settings' = settings
      BY <1>9 DEF SyncKeyToFile
    <2>3. env'.rest < env.rest => Disturbed(p)
      BY <1>9, <2>1, <2>2, <1>a DEF SyncKeyToFile, Disturbed, LocalInv
    <2> QED
      BY <2>2, <2>3, <1>a DEF RestKeptUnlessDisturbed
  <1>10. ASSUME NEW p \in Process, ToolDies(p) PROVE RestKeptUnlessDisturbed
    BY <1>10, <1>a, <1>c DEF ToolDies
  <1> QED
    BY <1>1, <1>2, <1>3, <1>4, <1>5, <1>6, <1>7, <1>8, <1>9, <1>10 DEF LocalNext

\* For any tools, editors and rotations: entries of others are only lost by a
\* tool that was disturbed, and a switch takes effect.
THEOREM RestStays == LocalSpec => RewriteKeepsTheRest
  <1> QED
    BY LocalInvInit, LocalInvStep, RestKept, PTL DEF LocalSpec, RewriteKeepsTheRest

\* No handoff (git-wip.js) commits a secret, undoes what is published, or
\* brings a parted clone together again.
THEOREM WipStays == WipSpec => WipKept
  BY NoSecretEver, PublishedStays, PTL DEF WipKept


---------------------------------------------------------------------------
(* Session.                                                                *)

PauseRec == [step : PauseSteps, opt : Option, prior : Issue \cup {NoIssue}, named : SUBSET Issue,
             todo : SUBSET Repo, claims : SUBSET Claim]
Counts == [Repo -> [Branch -> Nat]]

\* What is claimed can be fetched.
Fetchable(claims) == \A claim \in claims : claim[3] <= remote[claim[1]][claim[2]]

\* What a pause claims exists, and can be fetched unless the repository is
\* still to be pushed.
ClaimsTrue(c) ==
    /\ pause[c].step # "push" => pause[c].todo = {}
    /\ \A claim \in pause[c].claims :
         /\ claim[3] <= head[claim[1]][claim[2]]
         /\ claim[1] \notin pause[c].todo => claim[3] <= remote[claim[1]][claim[2]]

AnchorsTrue ==
    /\ anchor # NoAnchor => Fetchable(anchor.claims)
    /\ staged # NoAnchor => Fetchable(staged.claims)
    /\ committed # NoAnchor => Fetchable(committed.claims)
    /\ published # NoAnchor => Fetchable(published.claims)

\* A continuation that no two pauses held is held by nobody once it is
\* decided.
HeldOnce ==
    \A k \in Cont \ contended :
       /\ \A c, d \in Holders(k) : c = d
       /\ Holders(k) # {} => cont[k].decisions = 0
       /\ cont[k].decisions <= 1
       /\ cont[k].status # "resolved" => cont[k].decisions = 0

Prefix == \A r \in Repo, b \in Branch : remote[r][b] <= head[r][b]

SessionInv ==
    /\ SessionTypeOK /\ Prefix /\ AnchorsTrue /\ HeldOnce
    /\ \A c \in Caller : ClaimsTrue(c)

LEMMA NotPausingTyped == NotPausing \in PauseRec
  <1> DEFINE opt == CHOOSE o \in Option : TRUE
  <1>1. opt \in Option
    BY SessionAssumption
  <1> HIDE DEF opt
  <1>2. NotPausing = [step |-> "idle", opt |-> opt, prior |-> NoIssue,
                      named |-> {}, todo |-> {}, claims |-> {}]
    BY DEF NotPausing, opt
  <1>3. {} \in SUBSET Issue /\ {} \in SUBSET Repo /\ {} \in SUBSET Claim
    OBVIOUS
  <1> QED
    BY <1>1, <1>2, <1>3 DEF PauseRec, PauseSteps

LEMMA SessionInvInit == SessionInit => SessionInv
  <1> SUFFICES ASSUME SessionInit PROVE SessionInv
    OBVIOUS
  <1> USE DEF SessionInit
  <1>1. \A c \in Caller : /\ pause[c] = NotPausing /\ NotPausing.step = "idle"
                          /\ NotPausing.claims = {} /\ NotPausing.todo = {}
    BY DEF NotPausing
  <1>2. pause \in [Caller -> PauseRec]
    BY NotPausingTyped
  <1>3. cont \in [Cont -> [status : {"none", "active", "resolved"}, decisions : Nat]]
    OBVIOUS
  <1>4. head \in Counts /\ remote \in Counts /\ Prefix
    BY DEF Counts, Prefix
  <1>5. SessionTypeOK
    BY <1>2, <1>3, <1>4 DEF SessionTypeOK, PauseRec, Counts
  <1>6. HeldOnce
    BY <1>1 DEF HeldOnce, Holders
  <1>7. \A c \in Caller : ClaimsTrue(c)
    BY <1>1 DEF ClaimsTrue
  <1> QED
    BY <1>4, <1>5, <1>6, <1>7 DEF SessionInv, AnchorsTrue

\* Branches only grow, the remotes within them.
Grown ==
    /\ branch' \in [Repo -> Branch] /\ head' \in Counts /\ remote' \in Counts
    /\ \A r \in Repo, b \in Branch : /\ head[r][b] <= head'[r][b]
                                     /\ remote[r][b] <= remote'[r][b]
                                     /\ remote'[r][b] <= head'[r][b]

LEMMA StillGrown ==
  ASSUME SessionInv, UNCHANGED repoVars
  PROVE  Grown
  <1>1. branch \in [Repo -> Branch] /\ head \in Counts /\ remote \in Counts
    BY DEF SessionInv, SessionTypeOK, Counts
  <1>2. \A r \in Repo, b \in Branch : head[r][b] \in Nat /\ remote[r][b] \in Nat
    BY <1>1 DEF Counts
  <1> QED
    BY <1>1, <1>2 DEF repoVars, Grown, SessionInv, Prefix

LEMMA FetchableStays ==
  ASSUME SessionInv, Grown, NEW claims \in SUBSET Claim, Fetchable(claims)
  PROVE  Fetchable(claims)'
  <1> SUFFICES ASSUME NEW claim \in claims
               PROVE  claim[3] <= remote'[claim[1]][claim[2]]
    BY DEF Fetchable
  <1>1. claim[1] \in Repo /\ claim[2] \in Branch /\ claim[3] \in Nat
    BY DEF Claim
  <1>2. remote[claim[1]][claim[2]] \in Nat /\ remote'[claim[1]][claim[2]] \in Nat
    BY <1>1 DEF Grown, Counts, SessionInv, SessionTypeOK
  <1> QED
    BY <1>1, <1>2 DEF Fetchable, Grown

LEMMA AnchorsStay ==
  ASSUME SessionInv, Grown,
         {anchor', staged', committed', published'}
           \subseteq {anchor, staged, committed, published, NoAnchor}
  PROVE  AnchorsTrue' /\ {anchor', staged', committed', published'} \subseteq Anchors \cup {NoAnchor}
  <1>1. {anchor, staged, committed, published} \subseteq Anchors \cup {NoAnchor}
    BY DEF SessionInv, SessionTypeOK
  <1>2. ASSUME NEW a \in {anchor, staged, committed, published}, a # NoAnchor
        PROVE  \A claim \in a.claims : claim[3] <= remote'[claim[1]][claim[2]]
    <2>1. a.claims \in SUBSET Claim
      BY <1>1, <1>2 DEF Anchors
    <2>2. Fetchable(a.claims)
      BY <1>2 DEF SessionInv, AnchorsTrue
    <2> SUFFICES ASSUME NEW claim \in a.claims
                 PROVE  claim[3] <= remote'[claim[1]][claim[2]]
      OBVIOUS
    <2>3. {claim} \in SUBSET Claim /\ Fetchable({claim})
      BY <2>1, <2>2 DEF Fetchable
    <2>4. claim[1] \in Repo /\ claim[2] \in Branch /\ claim[3] \in Nat
      BY <2>1 DEF Claim
    <2>5. remote[claim[1]][claim[2]] \in Nat /\ remote'[claim[1]][claim[2]] \in Nat
      BY <2>4 DEF Grown, Counts, SessionInv, SessionTypeOK
    <2> QED
      BY <2>3, <2>4, <2>5 DEF Fetchable, Grown
  <1> DEFINE Named(a) == \A claim \in a.claims : claim[3] <= remote'[claim[1]][claim[2]]
  <1>3. /\ anchor' # NoAnchor => Named(anchor')
        /\ staged' # NoAnchor => Named(staged')
        /\ committed' # NoAnchor => Named(committed')
        /\ published' # NoAnchor => Named(published')
    <2>1. \A a \in {anchor, staged, committed, published} : a # NoAnchor => Named(a)
      BY <1>2
    <2> HIDE DEF Named
    <2> QED
      BY <2>1
  <1>4. AnchorsTrue'
    BY <1>3 DEF AnchorsTrue, Fetchable
  <1> QED
    BY <1>1, <1>4

\* A call that moves on, or ends, leaves the others alone.
LEMMA SetMoves ==
  ASSUME SessionInv, NEW c \in Caller, NEW call \in PauseRec, Set(c, call)
  PROVE  /\ pause' \in [Caller -> PauseRec] /\ pause'[c] = call
         /\ \A d \in Caller \ {c} : pause'[d] = pause[d]
  BY DEF SessionInv, SessionTypeOK, PauseRec, Set

LEMMA ClaimsStay ==
  ASSUME SessionInv, Grown, NEW d \in Caller, pause'[d] = pause[d]
  PROVE  ClaimsTrue(d)'
  <1>1. pause[d] \in PauseRec
    BY DEF SessionInv, SessionTypeOK, PauseRec
  <1>2. ASSUME NEW claim \in pause[d].claims
        PROVE  /\ claim[3] <= head'[claim[1]][claim[2]]
               /\ claim[1] \notin pause[d].todo => claim[3] <= remote'[claim[1]][claim[2]]
    <2>1. claim[1] \in Repo /\ claim[2] \in Branch /\ claim[3] \in Nat
      BY <1>1 DEF PauseRec, Claim
    <2>2. /\ head[claim[1]][claim[2]] \in Nat /\ head'[claim[1]][claim[2]] \in Nat
          /\ remote[claim[1]][claim[2]] \in Nat /\ remote'[claim[1]][claim[2]] \in Nat
      BY <2>1 DEF Grown, Counts, SessionInv, SessionTypeOK
    <2> QED
      BY <2>1, <2>2 DEF SessionInv, ClaimsTrue, Grown
  <1> QED
    BY <1>2 DEF SessionInv, ClaimsTrue

\* A call that keeps its continuation, or lets it go, decides nothing.
LEMMA HeldStays ==
  ASSUME SessionInv, UNCHANGED <<cont, contended>>, NEW c \in Caller,
         pause'[c].step # "idle" => pause[c].step # "idle" /\ pause'[c].opt = pause[c].opt,
         \A d \in Caller \ {c} : pause'[d] = pause[d]
  PROVE  HeldOnce'
  <1>1. \A k : Holders(k)' \subseteq Holders(k)
    BY DEF Holders
  <1> QED
    BY <1>1 DEF SessionInv, HeldOnce

\* The steps of a call that touch neither the remotes nor the anchors.
LEMMA CallKeeps ==
  ASSUME SessionInv, NEW c \in Caller, NEW call \in PauseRec, Set(c, call), Grown,
         AnchorsTrue', {anchor', staged', committed', published'} \subseteq Anchors \cup {NoAnchor},
         cont' \in [Cont -> [status : {"none", "active", "resolved"}, decisions : Nat]],
         contended' \subseteq Cont, HeldOnce', ClaimsTrue(c)'
  PROVE  SessionInv'
  <1>1. /\ pause' \in [Caller -> PauseRec] /\ \A d \in Caller \ {c} : pause'[d] = pause[d]
    BY SetMoves
  <1>2. \A d \in Caller : ClaimsTrue(d)'
    BY <1>1, ClaimsStay
  <1>3. SessionTypeOK'
    BY <1>1 DEF Grown, Counts, SessionTypeOK, PauseRec
  <1>4. Prefix'
    BY DEF Grown, Prefix
  <1> QED
    BY <1>2, <1>3, <1>4 DEF SessionInv

LEMMA PauseTyped ==
  ASSUME SessionInv, NEW c \in Caller
  PROVE  /\ pause[c] \in PauseRec /\ pause[c].opt \in Options /\ pause[c].opt \in Option
         /\ pause[c].step \in PauseSteps /\ pause[c].prior \in Issue \cup {NoIssue}
         /\ pause[c].claims \subseteq Claim /\ pause[c].named \subseteq Issue
         /\ pause[c].todo \subseteq Repo
  BY SessionAssumption DEF SessionInv, SessionTypeOK, PauseRec

LEMMA ContTyped ==
  ASSUME SessionInv
  PROVE  /\ cont \in [Cont -> [status : {"none", "active", "resolved"}, decisions : Nat]]
         /\ contended \subseteq Cont
  BY DEF SessionInv, SessionTypeOK

\* A call that ends, whether it is done, died, or asked a question.
LEMMA EndKeeps ==
  ASSUME SessionInv, NEW c \in Caller, PauseEnds(c), UNCHANGED <<repoVars, anchorVars>>,
         cont' \in [Cont -> [status : {"none", "active", "resolved"}, decisions : Nat]],
         contended' = contended, HeldOnce'
  PROVE  SessionInv'
  <1>1. Set(c, NotPausing) /\ NotPausing \in PauseRec
    BY NotPausingTyped DEF PauseEnds
  <1>2. pause'[c] = NotPausing /\ NotPausing.claims = {} /\ NotPausing.todo = {}
    BY <1>1, SetMoves DEF NotPausing
  <1>3. ClaimsTrue(c)'
    BY <1>2 DEF ClaimsTrue
  <1>4. AnchorsTrue' /\ {anchor', staged', committed', published'} \subseteq Anchors \cup {NoAnchor}
    BY StillGrown, AnchorsStay DEF anchorVars
  <1> QED
    BY <1>1, <1>3, <1>4, StillGrown, CallKeeps, ContTyped

LEMMA EndHeld ==
  ASSUME SessionInv, NEW c \in Caller, PauseEnds(c), UNCHANGED <<cont, contended>>
  PROVE  HeldOnce'
  <1>1. Set(c, NotPausing) /\ NotPausing \in PauseRec /\ NotPausing.step = "idle"
    BY NotPausingTyped DEF PauseEnds, NotPausing
  <1> QED
    BY <1>1, SetMoves, HeldStays

\* A call that goes on, or begins, with what it claims.
LEMMA ThenKeeps ==
  ASSUME SessionInv, NEW c \in Caller, NEW to \in PauseSteps, Then(c, to), to # "idle",
         pause[c].step # "idle", to = "push" \/ pause[c].todo = {}, UNCHANGED <<repoVars, cont, contended>>,
         {anchor', staged', committed', published'}
           \subseteq {anchor, staged, committed, published, NoAnchor}
  PROVE  SessionInv'
  <1> DEFINE call == [pause[c] EXCEPT !.step = to]
  <1>1. call \in PauseRec /\ Set(c, call) /\ call.claims = pause[c].claims
        /\ call.todo = pause[c].todo /\ call.opt = pause[c].opt /\ call.step = to
    BY PauseTyped DEF PauseRec, Then
  <1> HIDE DEF call
  <1>2. pause'[c] = call /\ \A d \in Caller \ {c} : pause'[d] = pause[d]
    BY <1>1, SetMoves
  <1>3. ClaimsTrue(c)'
    BY <1>1, <1>2 DEF SessionInv, ClaimsTrue, repoVars
  <1>4. HeldOnce'
    BY <1>1, <1>2, HeldStays
  <1>5. AnchorsTrue' /\ {anchor', staged', committed', published'} \subseteq Anchors \cup {NoAnchor}
    BY StillGrown, AnchorsStay
  <1>6. cont' \in [Cont -> [status : {"none", "active", "resolved"}, decisions : Nat]]
        /\ contended' \subseteq Cont
    BY ContTyped
  <1> QED
    BY <1>1, <1>3, <1>4, <1>5, <1>6, StillGrown, CallKeeps

LEMMA StartPauseKeeps ==
  ASSUME SessionInv, NEW c \in Caller, NEW opt \in Option, StartPause(c, opt)
  PROVE  SessionInv'
  <1> DEFINE prior == IF anchor = NoAnchor \/ opt.issue # NoIssue THEN NoIssue ELSE anchor.issue
             call == [NotPausing EXCEPT !.step = "scan", !.opt = opt, !.prior = prior]
  <1>1. prior \in Issue \cup {NoIssue}
    BY DEF SessionInv, SessionTypeOK, Anchors
  <1> HIDE DEF prior
  <1>2. /\ call \in PauseRec /\ call.claims = {} /\ call.todo = {} /\ call.opt = opt
        /\ call.step = "scan"
    BY <1>1, NotPausingTyped DEF PauseRec, PauseSteps, NotPausing
  <1>3. /\ Set(c, call) /\ UNCHANGED <<repoVars, anchorVars, cont>> /\ pause[c].step = "idle"
        /\ opt.cont # NoCont => Loads(opt.cont)
        /\ contended' = contended \cup {k \in {opt.cont} \cap Cont : Holders(k) # {}}
    BY DEF StartPause, prior, On
  <1> HIDE DEF call
  <1>4. pause'[c] = call /\ \A d \in Caller \ {c} : pause'[d] = pause[d]
    BY <1>2, <1>3, SetMoves
  <1>5. ClaimsTrue(c)'
    BY <1>2, <1>4 DEF ClaimsTrue
  <1>6. HeldOnce'
    <2> SUFFICES ASSUME NEW k \in Cont \ contended'
                 PROVE  /\ \A d, e \in Holders(k)' : d = e
                        /\ Holders(k)' # {} => cont[k].decisions = 0
                        /\ cont[k].decisions <= 1
                        /\ cont[k].status # "resolved" => cont[k].decisions = 0
      BY <1>3 DEF HeldOnce
    <2>1. k \in Cont \ contended
      BY <1>3
    <2>2. CASE opt.cont # k
      <3>1. Holders(k)' = Holders(k)
        BY <1>2, <1>3, <1>4, <2>2 DEF Holders
      <3> QED
        BY <2>1, <3>1 DEF SessionInv, HeldOnce
    <2>3. CASE opt.cont = k
      <3>1. Holders(k) = {} /\ Holders(k)' \subseteq {c}
        BY <1>3, <1>4, <2>1, <2>3 DEF Holders
      <3>2. cont[k].status = "active"
        BY <1>3, <2>1, <2>3, SessionAssumption DEF Loads
      <3> QED
        BY <2>1, <3>1, <3>2 DEF SessionInv, HeldOnce
    <2> QED
      BY <2>2, <2>3
  <1>7. AnchorsTrue' /\ {anchor', staged', committed', published'} \subseteq Anchors \cup {NoAnchor}
    BY <1>3, StillGrown, AnchorsStay DEF anchorVars
  <1>8. cont' \in [Cont -> [status : {"none", "active", "resolved"}, decisions : Nat]]
        /\ contended' \subseteq Cont
    BY <1>3, ContTyped
  <1> QED
    BY <1>2, <1>3, <1>5, <1>6, <1>7, <1>8, StillGrown, CallKeeps

LEMMA ScanKeeps ==
  ASSUME SessionInv, NEW c \in Caller, Scan(c)
  PROVE  SessionInv'
  <1> DEFINE ahead == {r \in Repo : Ahead(r)}
             pushing == pause[c].opt.push /\ ~pause[c].opt.dry
             silent == {r \in Repo : Tracked(r) /\ head[r][branch[r]] > 0}
                         \ (IF pushing THEN {} ELSE ahead)
             todo1 == IF pushing THEN ahead ELSE {}
             named1 == IF pause[c].opt.issue = NoIssue
                       THEN {IssueOf[branch[r]] : r \in Repo} \ {NoIssue} ELSE {}
             claims1 == {<<r, branch[r], head[r][branch[r]]>> : r \in silent}
             call == [pause[c] EXCEPT !.step = "push", !.todo = todo1, !.named = named1,
                                      !.claims = claims1]
  <1>1. /\ Set(c, call) /\ UNCHANGED <<repoVars, anchorVars, cont, contended>>
        /\ pause[c].step = "scan"
    BY DEF Scan, On
  <1>2. /\ branch \in [Repo -> Branch] /\ head \in Counts /\ remote \in Counts
    BY DEF SessionInv, SessionTypeOK, Counts
  <1>3. named1 \subseteq Issue
    BY <1>2, SessionAssumption
  <1>4. claims1 \subseteq Claim
    BY <1>2 DEF Counts, Claim
  <1>5. \A claim \in claims1 :
          /\ claim[3] <= head[claim[1]][claim[2]]
          /\ claim[1] \notin todo1 => claim[3] <= remote[claim[1]][claim[2]]
    <2> SUFFICES ASSUME NEW r \in silent
                 PROVE  /\ head[r][branch[r]] <= head[r][branch[r]]
                        /\ r \notin todo1 => head[r][branch[r]] <= remote[r][branch[r]]
      OBVIOUS
    <2>1. head[r][branch[r]] \in Nat /\ remote[r][branch[r]] \in Nat
      BY <1>2 DEF Counts
    <2>2. r \notin todo1 => ~Ahead(r)
      OBVIOUS
    <2> QED
      BY <2>1, <2>2 DEF Ahead
  <1>6. todo1 \subseteq Repo
    OBVIOUS
  <1> HIDE DEF todo1, named1, claims1
  <1>7. /\ call \in PauseRec /\ call.claims = claims1 /\ call.todo = todo1
        /\ call.opt = pause[c].opt /\ call.step = "push"
    BY <1>3, <1>4, <1>6, PauseTyped DEF PauseRec, PauseSteps
  <1> HIDE DEF call
  <1>8. pause'[c] = call /\ \A d \in Caller \ {c} : pause'[d] = pause[d]
    BY <1>1, <1>7, SetMoves
  <1>9. ClaimsTrue(c)'
    BY <1>1, <1>5, <1>7, <1>8 DEF ClaimsTrue, repoVars
  <1>10. HeldOnce'
    BY <1>1, <1>7, <1>8, HeldStays
  <1>11. AnchorsTrue' /\ {anchor', staged', committed', published'} \subseteq Anchors \cup {NoAnchor}
    BY <1>1, StillGrown, AnchorsStay DEF anchorVars
  <1>12. cont' \in [Cont -> [status : {"none", "active", "resolved"}, decisions : Nat]]
         /\ contended' \subseteq Cont
    BY <1>1, ContTyped
  <1> QED
    BY <1>1, <1>7, <1>9, <1>10, <1>11, <1>12, StillGrown, CallKeeps

\* A push leaves the repository out of what is to be pushed; what is still
\* claimed of it is of the branch that was pushed.
LEMMA PushKeeps ==
  ASSUME SessionInv, NEW c \in Caller, NEW r \in Repo, PushRepo(c, r)
  PROVE  SessionInv'
  <1>0. /\ branch \in [Repo -> Branch] /\ head \in Counts /\ remote \in Counts
        /\ pause[c].step = "push" /\ UNCHANGED <<branch, head, anchorVars, cont, contended>>
    BY DEF SessionInv, SessionTypeOK, Counts, PushRepo, On
  <1>1. PICK bs \in SUBSET Branch :
          /\ Set(c, [pause[c] EXCEPT !.todo = @ \ {r}, !.claims = ClaimsOn(c, r, bs)])
          /\ remote' \in Counts
          /\ \A q \in Repo, b \in Branch :
               remote'[q][b] = IF q = r /\ b \in bs THEN head[q][b] ELSE remote[q][b]
    <2>1. CASE Pushed(c, r)
      <3>1. remote' = [remote EXCEPT ![r][branch[r]] = head[r][branch[r]]]
        BY <2>1 DEF Pushed
      <3>2. \A q \in Repo, b \in Branch :
              remote'[q][b] = IF q = r /\ b \in {branch[r]} THEN head[q][b] ELSE remote[q][b]
        BY <1>0, <3>1 DEF Counts
      <3>3. remote' \in Counts
        BY <1>0, <3>1 DEF Counts
      <3>4. {branch[r]} \in SUBSET Branch
        BY <1>0
      <3> QED
        BY <2>1, <3>2, <3>3, <3>4 DEF Pushed
    <2>2. CASE PushRefused(c, r)
      <3>1. /\ Set(c, [pause[c] EXCEPT !.todo = @ \ {r}, !.claims = ClaimsOn(c, r, {})])
            /\ remote' = remote
        BY <2>2 DEF PushRefused
      <3>2. /\ remote' \in Counts
            /\ \A q \in Repo, b \in Branch :
                 remote'[q][b] = IF q = r /\ b \in {} THEN head[q][b] ELSE remote[q][b]
        BY <1>0, <3>1
      <3>3. {} \in SUBSET Branch
        OBVIOUS
      <3> QED
        BY <3>1, <3>2, <3>3
    <2> QED
      BY <2>1, <2>2 DEF PushRepo
  <1> DEFINE call == [pause[c] EXCEPT !.todo = @ \ {r}, !.claims = ClaimsOn(c, r, bs)]
  <1>2. /\ call \in PauseRec /\ call.claims = ClaimsOn(c, r, bs) /\ call.todo = pause[c].todo \ {r}
        /\ call.opt = pause[c].opt /\ call.step = "push"
    BY <1>0, PauseTyped DEF PauseRec, ClaimsOn
  <1> HIDE DEF call
  <1>3. Set(c, call)
    BY <1>1 DEF call
  <1>4. pause'[c] = call /\ \A d \in Caller \ {c} : pause'[d] = pause[d]
    BY <1>2, <1>3, SetMoves
  <1>5. Grown
    <2>1. \A q \in Repo, b \in Branch :
            head[q][b] \in Nat /\ remote[q][b] \in Nat /\ remote[q][b] <= head[q][b]
      BY <1>0 DEF Counts, SessionInv, Prefix
    <2> QED
      BY <1>0, <1>1, <2>1 DEF Grown
  <1>6. ClaimsTrue(c)'
    <2>1. ASSUME NEW claim \in ClaimsOn(c, r, bs)
          PROVE  /\ claim[3] <= head[claim[1]][claim[2]]
                 /\ claim[1] \notin pause[c].todo \ {r} => claim[3] <= remote'[claim[1]][claim[2]]
      <3>1. /\ claim \in pause[c].claims /\ (claim[1] = r => claim[2] \in bs)
            /\ claim[1] \in Repo /\ claim[2] \in Branch /\ claim[3] \in Nat
        BY PauseTyped DEF ClaimsOn, Claim
      <3>2. /\ claim[3] <= head[claim[1]][claim[2]]
            /\ claim[1] \notin pause[c].todo => claim[3] <= remote[claim[1]][claim[2]]
        BY <3>1 DEF SessionInv, ClaimsTrue
      <3> QED
        BY <1>1, <3>1, <3>2
    <2> QED
      BY <1>0, <1>2, <1>4, <2>1 DEF ClaimsTrue
  <1>7. HeldOnce'
    BY <1>0, <1>2, <1>4, HeldStays
  <1>8. AnchorsTrue' /\ {anchor', staged', committed', published'} \subseteq Anchors \cup {NoAnchor}
    BY <1>0, <1>5, AnchorsStay DEF anchorVars
  <1>9. cont' \in [Cont -> [status : {"none", "active", "resolved"}, decisions : Nat]]
        /\ contended' \subseteq Cont
    BY <1>0, ContTyped
  <1> QED
    BY <1>2, <1>3, <1>5, <1>6, <1>7, <1>8, <1>9, CallKeeps

LEMMA WriteAnchorKeeps ==
  ASSUME SessionInv, NEW c \in Caller, WriteAnchor(c)
  PROVE  SessionInv'
  <1> DEFINE call == [NotPausing EXCEPT !.step = "stage", !.opt = pause[c].opt]
  <1>1. /\ call \in PauseRec /\ call.claims = {} /\ call.todo = {} /\ call.opt = pause[c].opt
        /\ call.step = "stage"
    BY NotPausingTyped, PauseTyped DEF PauseRec, PauseSteps, NotPausing
  <1>2. /\ Set(c, call) /\ pause[c].step = "decide"
        /\ UNCHANGED <<repoVars, staged, committed, published, cont, contended>>
    BY DEF WriteAnchor, On
  <1>3. PICK i \in Decisions(c) : anchor' = [issue |-> i, claims |-> pause[c].claims]
    BY DEF WriteAnchor
  <1>4. i \in Issue
    BY <1>3, PauseTyped DEF Decisions, Options
  <1> HIDE DEF call
  <1>5. pause'[c] = call /\ \A d \in Caller \ {c} : pause'[d] = pause[d]
    BY <1>1, <1>2, SetMoves
  <1>6. ClaimsTrue(c)'
    BY <1>1, <1>5 DEF ClaimsTrue
  <1>7. HeldOnce'
    BY <1>1, <1>2, <1>5, HeldStays
  <1>8. Fetchable(pause[c].claims)
    BY <1>2 DEF SessionInv, ClaimsTrue, Fetchable
  <1>9. anchor' \in Anchors /\ anchor'.claims = pause[c].claims
    BY <1>3, <1>4, PauseTyped DEF Anchors
  <1>10. {staged', committed', published'} \subseteq Anchors \cup {NoAnchor}
    BY <1>2 DEF SessionInv, SessionTypeOK
  <1>11. AnchorsTrue'
    BY <1>2, <1>8, <1>9 DEF SessionInv, AnchorsTrue, Fetchable, repoVars
  <1>12. cont' \in [Cont -> [status : {"none", "active", "resolved"}, decisions : Nat]]
         /\ contended' \subseteq Cont
    BY <1>2, ContTyped
  <1> QED
    BY <1>1, <1>2, <1>6, <1>7, <1>9, <1>10, <1>11, <1>12, StillGrown, CallKeeps

\* Only the decision of a continuation nobody else holds is its first.
LEMMA ResolveKeeps ==
  ASSUME SessionInv, NEW c \in Caller, Resolve(c)
  PROVE  SessionInv'
  <1>0. PICK k : k = pause[c].opt.cont
    OBVIOUS
  <1>1. /\ PauseEnds(c) /\ pause[c].step = "resolve"
        /\ UNCHANGED <<repoVars, anchorVars, contended>>
        /\ cont' = IF k = NoCont THEN cont
                   ELSE [cont EXCEPT ![k] = [status |-> "resolved", decisions |-> @.decisions + 1]]
    BY <1>0 DEF Resolve, On
  <1>2. CASE k = NoCont
    BY <1>1, <1>2, EndHeld, EndKeeps, ContTyped
  <1>3. CASE k # NoCont
    <2>1. k \in Cont
      BY <1>0, <1>3, PauseTyped DEF Options
    <2>2. /\ cont' \in [Cont -> [status : {"none", "active", "resolved"}, decisions : Nat]]
          /\ cont'[k].decisions = cont[k].decisions + 1 /\ cont'[k].status = "resolved"
          /\ \A j \in Cont \ {k} : cont'[j] = cont[j]
      BY <1>1, <1>3, <2>1, ContTyped
    <2>3. Set(c, NotPausing) /\ NotPausing \in PauseRec /\ NotPausing.step = "idle"
      BY <1>1, NotPausingTyped DEF PauseEnds, NotPausing
    <2>4. pause'[c] = NotPausing /\ \A d \in Caller \ {c} : pause'[d] = pause[d]
      BY <2>3, SetMoves
    <2>5. \A j : Holders(j)' \subseteq Holders(j) \ {c}
      BY <2>3, <2>4 DEF Holders
    <2>6. c \in Holders(k)
      BY <1>0, <1>1 DEF Holders
    <2>7. HeldOnce'
      <3> SUFFICES ASSUME NEW j \in Cont \ contended
                   PROVE  /\ \A d, e \in Holders(j)' : d = e
                          /\ Holders(j)' # {} => cont'[j].decisions = 0
                          /\ cont'[j].decisions <= 1
                          /\ cont'[j].status # "resolved" => cont'[j].decisions = 0
        BY <1>1 DEF HeldOnce
      <3>1. /\ \A d, e \in Holders(j) : d = e
            /\ Holders(j) # {} => cont[j].decisions = 0
            /\ cont[j].decisions <= 1
            /\ cont[j].status # "resolved" => cont[j].decisions = 0
        BY DEF SessionInv, HeldOnce
      <3>2. CASE j = k
        <4>1. Holders(k)' = {}
          BY <2>5, <2>6, <3>1, <3>2
        <4> QED
          BY <2>2, <2>6, <3>1, <3>2, <4>1
      <3>3. CASE j # k
        BY <2>2, <2>5, <3>1, <3>3
      <3> QED
        BY <3>2, <3>3
    <2> QED
      BY <1>1, <2>2, <2>7, EndKeeps
  <1> QED
    BY <1>2, <1>3

LEMMA EmitKeeps ==
  ASSUME SessionInv, NEW c \in Caller, EmitContinuation(c)
  PROVE  SessionInv'
  <1>1. PICK k \in Cont : cont[k].status = "none" /\ cont' = [cont EXCEPT ![k].status = "active"]
    BY DEF EmitContinuation
  <1>2. PauseEnds(c) /\ UNCHANGED <<repoVars, anchorVars, contended>>
    BY DEF EmitContinuation
  <1>3. /\ cont' \in [Cont -> [status : {"none", "active", "resolved"}, decisions : Nat]]
        /\ \A j \in Cont : /\ cont'[j].decisions = cont[j].decisions
                           /\ cont'[j].status = "resolved" <=> cont[j].status = "resolved"
    BY <1>1, ContTyped
  <1>4. Set(c, NotPausing) /\ NotPausing \in PauseRec /\ NotPausing.step = "idle"
    BY <1>2, NotPausingTyped DEF PauseEnds, NotPausing
  <1>5. \A j : Holders(j)' \subseteq Holders(j)
    BY <1>4, SetMoves DEF Holders
  <1>6. HeldOnce'
    BY <1>2, <1>3, <1>5 DEF SessionInv, HeldOnce
  <1> QED
    BY <1>2, <1>3, <1>6, EndKeeps

\* People at work: branches grow, and are left for others.
LEMMA WorkKeeps ==
  ASSUME SessionInv, NEW r \in Repo, CommitWork(r) \/ SwitchBranch(r)
  PROVE  SessionInv'
  <1>0. /\ branch \in [Repo -> Branch] /\ head \in Counts /\ remote \in Counts
    BY DEF SessionInv, SessionTypeOK, Counts
  <1>1. UNCHANGED <<remote, anchorVars, cont, contended, pause>>
    BY DEF CommitWork, SwitchBranch
  <1>2. \A q \in Repo, b \in Branch :
          head[q][b] \in Nat /\ remote[q][b] \in Nat /\ remote[q][b] <= head[q][b]
    BY <1>0 DEF Counts, SessionInv, Prefix
  <1>3. Grown
    <2>1. CASE CommitWork(r)
      <3>1. head' = [head EXCEPT ![r][branch[r]] = @ + 1] /\ branch' = branch
        BY <2>1 DEF CommitWork
      <3>2. head' \in Counts
        BY <1>0, <3>1 DEF Counts
      <3>3. \A q \in Repo, b \in Branch : head[q][b] <= head'[q][b]
        BY <1>0, <1>2, <3>1 DEF Counts
      <3>4. \A q \in Repo, b \in Branch : head'[q][b] \in Nat
        BY <3>2 DEF Counts
      <3> QED
        BY <1>0, <1>1, <1>2, <3>1, <3>2, <3>3, <3>4 DEF Grown
    <2>2. CASE SwitchBranch(r)
      <3>1. branch' \in [Repo -> Branch] /\ head' = head
        BY <1>0, <2>2 DEF SwitchBranch
      <3> QED
        BY <1>0, <1>1, <1>2, <3>1 DEF Grown
    <2> QED
      BY <2>1, <2>2
  <1>4. AnchorsTrue' /\ {anchor', staged', committed', published'} \subseteq Anchors \cup {NoAnchor}
    BY <1>1, <1>3, AnchorsStay DEF anchorVars
  <1>5. \A d \in Caller : ClaimsTrue(d)'
    BY <1>1, <1>3, ClaimsStay
  <1>6. HeldOnce'
    BY <1>1 DEF SessionInv, HeldOnce, Holders
  <1>7. SessionTypeOK'
    BY <1>1, <1>3, <1>4 DEF Grown, Counts, SessionInv, SessionTypeOK
  <1> QED
    BY <1>3, <1>4, <1>5, <1>6, <1>7 DEF SessionInv, Grown, Prefix

LEMMA SessionInvStep == SessionInv /\ [SessionNext]_sessionVars => SessionInv'
  <1> SUFFICES ASSUME SessionInv, [SessionNext]_sessionVars PROVE SessionInv'
    OBVIOUS
  <1>1. CASE UNCHANGED sessionVars
    <2>1. UNCHANGED <<branch, head, remote, anchor, staged, committed, published, cont, contended, pause>>
      BY <1>1 DEF sessionVars, repoVars, anchorVars
    <2> QED
      BY <2>1 DEF SessionInv, SessionTypeOK, Prefix, AnchorsTrue, Fetchable, HeldOnce, Holders,
                  ClaimsTrue
  <1>2. CASE \E r \in Repo : CommitWork(r) \/ SwitchBranch(r)
    BY <1>2, WorkKeeps
  <1>3. ASSUME NEW c \in Caller, NEW opt \in Option,
               StartPause(c, opt) \/ Checkpoint(c, opt) \/ NextStep(c, opt)
        PROVE  SessionInv'
    <2>1. StartPause(c, opt)
      BY <1>3 DEF Checkpoint, NextStep
    <2> QED
      BY <2>1, StartPauseKeeps
  <1>4. CASE \E c \in Caller, r \in Repo : PushRepo(c, r)
    BY <1>4, PushKeeps
  <1>5. CASE \E c \in Caller : Scan(c) \/ EmitContinuation(c) \/ WriteAnchor(c) \/ Resolve(c)
    BY <1>5, ScanKeeps, EmitKeeps, WriteAnchorKeeps, ResolveKeeps
  <1>6. ASSUME NEW c \in Caller, DryRunEnds(c) \/ PauseDies(c) PROVE SessionInv'
    <2>1. PauseEnds(c) /\ UNCHANGED <<repoVars, anchorVars, cont, contended>>
      BY <1>6 DEF DryRunEnds, PauseDies
    <2> QED
      BY <2>1, EndHeld, EndKeeps, ContTyped
  <1>7. ASSUME NEW c \in Caller,
               NotifyMesh(c) \/ StageAnchor(c) \/ CommitAnchor(c) \/ PublishAnchor(c)
        PROVE  SessionInv'
    <2>1. PICK to \in {"decide", "commit", "publish", "resolve"} : Then(c, to)
      BY <1>7 DEF NotifyMesh, StageAnchor, CommitAnchor, PublishAnchor
    <2>2. /\ pause[c].step # "idle" /\ UNCHANGED <<repoVars, cont, contended>>
          /\ {anchor', staged', committed', published'}
               \subseteq {anchor, staged, committed, published, NoAnchor}
      BY <1>7 DEF NotifyMesh, StageAnchor, CommitAnchor, PublishAnchor, On, anchorVars
    <2>3. pause[c].todo = {}
      BY <1>7 DEF NotifyMesh, StageAnchor, CommitAnchor, PublishAnchor, On, SessionInv, ClaimsTrue
    <2> QED
      BY <2>1, <2>2, <2>3, ThenKeeps DEF PauseSteps
  <1> QED
    BY <1>1, <1>2, <1>3, <1>4, <1>5, <1>6, <1>7 DEF SessionNext

\* A published anchor names commits the remotes have (pauseSession), and a
\* continuation is decided once unless two pauses held it, for any callers,
\* repositories, branches and commits between the steps of a pause.
THEOREM PausesHonest == SessionSpec => []PauseHonest
  <1>1. SessionInv => PauseHonest
    <2> SUFFICES ASSUME SessionInv PROVE PauseHonest
      OBVIOUS
    <2>1. AnchorReachable
      BY DEF SessionInv, AnchorsTrue, Fetchable, AnchorReachable
    <2>2. DecidedOnceUnlessCrossed
      BY ContTyped DEF SessionInv, HeldOnce, DecidedOnceUnlessCrossed
    <2> QED
      BY <2>1, <2>2 DEF PauseHonest
  <1> QED
    BY <1>1, SessionInvInit, SessionInvStep, PTL DEF SessionSpec

=============================================================================
