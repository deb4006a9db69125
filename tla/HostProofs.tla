----------------------------- MODULE HostProofs -----------------------------
(***************************************************************************)
(* What is kept on the hosts, for any number of those who look after them  *)
(* at once: the reports on the system bearer (BearerApply), the deployed   *)
(* services (CycleDeploy, MagistralHost), diagnosis (Diagnose), the rows   *)
(* of wakes (WakeSchedule), the mail server (MailServer, MailInstall), the *)
(* console (Console), the observed fleet (Divergence) and the database of  *)
(* a node (NodeMemory); then all of them as MCHost composes them.          *)
(***************************************************************************)
EXTENDS MCHost, RecursionLemmas, FiniteSetTheorems, TLAPS

---------------------------------------------------------------------------
(* The system bearer.                                                      *)

RunRec == [step : BearerSteps, apply : BOOLEAN, push : BOOLEAN, value : Nat,
           match : BOOLEAN, ok : BOOLEAN, required : BOOLEAN, rotated : BOOLEAN,
           rewritten : BOOLEAN]

\* What a run knows: what it applies it was asked to, a refused push is not
\* ok, and its report asks for a restart if it applied or found a difference.
RunSound(x) ==
    /\ x.step = "write" => x.apply
    /\ x.step \in {"write", "vault", "verify", "report"} /\ x.push /\ ~x.apply => ~x.ok
    /\ x.step = "report" => x.required = (~x.match \/ x.apply)

\* What it has found is still so, unless it was changed since.
RunTrue(x, key, held, edge) ==
    x.value <= key /\ (x.step # "idle" =>
        /\ x.rotated \/ x.value = key
        /\ x.step \in {"verify", "report"} /\ x.push /\ x.ok => x.value <= edge
        /\ x.step = "report" /\ x.ok => x.rewritten \/ held = x.value)

\* Who wrote the copy is at work, with --apply, and has not reported yet or
\* asked for the restart; or nobody is left to ask for it.
AuthorKnown ==
    gateway # copy =>
        \/ author \in {"gone", "sync-env-key"}
        \/ \E r \in Run : author = r /\ run[r].step \in {"vault", "verify", "report"} /\ run[r].apply

\* The inductive invariant of BearerApply.
BearerInv ==
    /\ run \in [Run -> RunRec] /\ sot \in Nat /\ copy \in Nat /\ vault \in Nat /\ vault <= sot
    /\ AuthorKnown
    /\ \A r \in Run : RunSound(run[r]) /\ RunTrue(run[r], sot, copy, vault)

LEMMA NoRunSound ==
    NoRun \in RunRec /\ NoRun.step = "idle" /\ NoRun.value = 0 /\ RunSound(NoRun)
  BY DEF NoRun, RunRec, BearerSteps, RunSound

LEMMA BearerInvInit == BearerInit => BearerInv
  BY NoRunSound DEF BearerInit, BearerInv, RunTrue, AuthorKnown

\* Marking the reports keeps what the runs know.
LEMMA RewrittenMarks ==
    ASSUME NEW runs \in [Run -> RunRec]
    PROVE  /\ Rewritten(runs) \in [Run -> RunRec]
           /\ \A q \in Run :
                 LET x == runs[q] y == Rewritten(runs)[q] IN
                 /\ y.step = x.step /\ y.apply = x.apply
                 /\ RunSound(x) => RunSound(y)
                 /\ \A key, held, edge, copied : RunTrue(x, key, held, edge) => RunTrue(y, key, copied, edge)
  <1>1. \A q \in Run : IF runs[q].step # "report" THEN Rewritten(runs)[q] = runs[q]
                       ELSE Rewritten(runs)[q] = [runs[q] EXCEPT !.rewritten = TRUE]
    BY DEF Rewritten
  <1>2. ASSUME NEW q \in Run
        PROVE  LET x == runs[q] y == [x EXCEPT !.rewritten = TRUE] IN
               /\ y \in RunRec /\ y.step = x.step /\ y.apply = x.apply /\ y.rewritten
               /\ y.value = x.value /\ y.push = x.push /\ y.ok = x.ok /\ y.match = x.match
               /\ y.required = x.required /\ y.rotated = x.rotated
    BY DEF RunRec
  <1>3. Rewritten(runs) \in [Run -> RunRec]
    BY <1>2 DEF Rewritten
  <1>4. ASSUME NEW q \in Run
        PROVE  LET x == runs[q] y == Rewritten(runs)[q] IN
               /\ y.step = x.step /\ y.apply = x.apply
               /\ RunSound(x) => RunSound(y)
               /\ \A key, held, edge, copied : RunTrue(x, key, held, edge) => RunTrue(y, key, copied, edge)
    <2>1. CASE runs[q].step # "report"
      BY <1>1, <2>1 DEF RunTrue
    <2>2. CASE runs[q].step = "report"
      BY <1>1, <1>2, <2>2 DEF RunTrue, RunSound
    <2> QED
      BY <2>1, <2>2
  <1> QED
    BY <1>3, <1>4

\* A step in which one run goes on, and the keys stay as they are.
LEMMA RunGoesOn ==
    ASSUME BearerInv, NEW r \in Run, NEW x \in RunRec, run' = [run EXCEPT ![r] = x],
           UNCHANGED <<sot, copy, vault>>, RunSound(x), RunTrue(x, sot, copy, vault), AuthorKnown'
    PROVE  BearerInv'
  <1>1. run' \in [Run -> RunRec] /\ run'[r] = x /\ \A q \in Run \ {r} : run'[q] = run[q]
    BY DEF BearerInv
  <1>2. \A q \in Run : RunSound(run'[q]) /\ RunTrue(run'[q], sot, copy, vault)
    BY <1>1 DEF BearerInv
  <1> QED
    BY <1>1, <1>2 DEF BearerInv, RunSound, RunTrue

\* ... nor the gateway: the author is still at work.
LEMMA AuthorStays ==
    ASSUME BearerInv, NEW r \in Run, NEW x \in RunRec, run' = [run EXCEPT ![r] = x],
           UNCHANGED <<copy, gateway, author>>,
           run[r].step \in {"vault", "verify", "report"} /\ run[r].apply =>
               x.step \in {"vault", "verify", "report"} /\ x.apply
    PROVE  AuthorKnown'
  <1>1. run'[r] = x /\ \A q \in Run \ {r} : run'[q] = run[q]
    BY DEF BearerInv
  <1> QED
    BY <1>1 DEF BearerInv, AuthorKnown

LEMMA BearerInvStep == BearerInv /\ [BearerNext]_bearerVars => BearerInv'
  <1> SUFFICES ASSUME BearerInv, [BearerNext]_bearerVars PROVE BearerInv'
    OBVIOUS
  <1>0. /\ \A r \in Run : run[r] \in RunRec /\ RunSound(run[r]) /\ RunTrue(run[r], sot, copy, vault)
        /\ sot \in Nat /\ copy \in Nat /\ vault \in Nat /\ vault <= sot
    BY DEF BearerInv
  <1>1. CASE RotateBearer
    <2>1. /\ run' = [r \in Run |-> IF run[r].step = "idle" THEN run[r]
                                   ELSE [run[r] EXCEPT !.rotated = TRUE]]
          /\ sot' = sot + 1 /\ UNCHANGED <<copy, gateway, vault, author>>
      BY <1>1 DEF RotateBearer
    <2>2. ASSUME NEW q \in Run
          PROVE  /\ run'[q] \in RunRec /\ run'[q].step = run[q].step /\ run'[q].apply = run[q].apply
                 /\ RunSound(run'[q]) /\ RunTrue(run'[q], sot', copy, vault)
      <3>0. run[q] \in RunRec /\ run[q].value \in Nat /\ run[q].value <= sot' /\ sot' = sot + 1
        BY <1>0, <2>1 DEF RunRec, RunTrue
      <3>1. CASE run[q].step = "idle"
        <4>1. run'[q] = run[q]
          BY <2>1, <3>1
        <4> QED
          BY <1>0, <3>0, <3>1, <4>1 DEF RunTrue
      <3>2. CASE run[q].step # "idle"
        <4> PICK x : x = run[q]
          OBVIOUS
        <4> DEFINE y == [x EXCEPT !.rotated = TRUE]
        <4>1. run'[q] = y
          BY <2>1, <3>2
        <4>2. /\ y \in RunRec /\ y.step = x.step /\ y.apply = x.apply /\ y.push = x.push
              /\ y.ok = x.ok /\ y.match = x.match /\ y.value = x.value /\ y.required = x.required
              /\ y.rewritten = x.rewritten /\ y.rotated
          BY <3>0 DEF RunRec
        <4> HIDE DEF y
        <4>3. RunSound(x) /\ RunTrue(x, sot, copy, vault)
          BY <1>0
        <4>4. RunTrue(y, sot', copy, vault)
          BY <3>0, <4>2, <4>3 DEF RunTrue
        <4>5. RunSound(y)
          BY <4>2, <4>3 DEF RunSound
        <4> QED
          BY <4>1, <4>2, <4>4, <4>5
      <3> QED
        BY <3>1, <3>2
    <2>3. AuthorKnown'
      BY <2>1, <2>2 DEF BearerInv, AuthorKnown
    <2>4. run' \in [Run -> RunRec]
      BY <2>1, <2>2
    <2>5. sot' \in Nat /\ vault' <= sot'
      BY <1>0, <2>1
    <2> QED
      BY <1>0, <2>1, <2>2, <2>3, <2>4, <2>5 DEF BearerInv, RunTrue, RunSound
  <1>2. CASE GatewayStarts
    BY <1>2 DEF GatewayStarts, BearerInv, RunSound, RunTrue, AuthorKnown
  <1>3. ASSUME NEW r \in Run, ReadSot(r) PROVE BearerInv'
    <2>1. PICK apply \in BOOLEAN, push \in BOOLEAN :
            run' = [run EXCEPT ![r] =
               [NoRun EXCEPT !.step = "compare", !.apply = apply, !.push = push, !.value = sot]]
      BY <1>3 DEF ReadSot
    <2> DEFINE x == [NoRun EXCEPT !.step = "compare", !.apply = apply, !.push = push, !.value = sot]
    <2>0. x \in RunRec /\ x.step = "compare" /\ x.value = sot
      BY <1>0 DEF NoRun, RunRec, BearerSteps
    <2> HIDE DEF x
    <2>2. RunSound(x) /\ RunTrue(x, sot, copy, vault)
      BY <1>0, <2>0 DEF RunSound, RunTrue
    <2>3. AuthorKnown'
      <3>1. run' = [run EXCEPT ![r] = x]
        BY <2>1 DEF x
      <3> QED
        BY <1>3, <2>0, <3>1, AuthorStays DEF ReadSot
    <2>4. run' = [run EXCEPT ![r] = x]
      BY <2>1 DEF x
    <2> QED
      BY <1>3, <2>0, <2>2, <2>3, <2>4, RunGoesOn DEF ReadSot
  <1>4. ASSUME NEW r \in Run, CompareCopy(r) PROVE BearerInv'
    <2> DEFINE same == copy = run[r].value
               x == [run[r] EXCEPT !.step = IF run[r].apply /\ ~same THEN "write" ELSE "vault",
                                   !.match = same, !.ok = run[r].apply \/ (same /\ ~run[r].push)]
    <2>1. run' = [run EXCEPT ![r] = x]
      BY <1>4 DEF CompareCopy
    <2>2. x \in RunRec
      BY <1>0 DEF RunRec, BearerSteps
    <2>3. /\ x.step = (IF run[r].apply /\ ~same THEN "write" ELSE "vault")
          /\ x.apply = run[r].apply /\ x.push = run[r].push /\ x.value = run[r].value
          /\ x.rotated = run[r].rotated /\ x.ok = (run[r].apply \/ (same /\ ~run[r].push))
      BY <1>0 DEF RunRec
    <2>4. RunSound(x)
      <3> HIDE DEF x
      <3> QED
        BY <2>2, <2>3 DEF RunSound, RunRec
    <2>5. RunTrue(x, sot, copy, vault)
      <3> HIDE DEF x
      <3> QED
        BY <1>0, <1>4, <2>3 DEF RunTrue, CompareCopy
    <2>6. run[r].step = "compare"
      BY <1>4 DEF CompareCopy
    <2>7. AuthorKnown'
      BY <1>4, <2>1, <2>2, <2>6, AuthorStays DEF CompareCopy
    <2> HIDE DEF x
    <2> QED
      BY <1>4, <2>1, <2>2, <2>4, <2>5, <2>7, RunGoesOn DEF CompareCopy
  <1>5. ASSUME NEW r \in Run, WriteCopy(r) PROVE BearerInv'
    <2> DEFINE x == [run[r] EXCEPT !.step = "vault"]
    <2> DEFINE runs == [run EXCEPT ![r] = x]
    <2>1. x \in RunRec /\ RunSound(x) /\ RunTrue(x, sot, copy, vault)
          /\ x.step = "vault" /\ x.apply /\ x.value \in Nat
      BY <1>0, <1>5 DEF RunRec, BearerSteps, WriteCopy, RunSound, RunTrue
    <2>2. /\ runs \in [Run -> RunRec] /\ runs[r] = x
          /\ \A q \in Run : RunSound(runs[q]) /\ RunTrue(runs[q], sot, copy, vault)
      BY <1>0, <2>1 DEF BearerInv
    <2>3. /\ run' = Rewritten(runs) /\ author' = r /\ UNCHANGED <<sot, vault>>
          /\ copy' = run[r].value
      BY <1>5 DEF WriteCopy
    <2>4. run[r].value \in Nat
      BY <1>0 DEF RunRec
    <2> HIDE DEF runs, x
    <2>5. /\ run' \in [Run -> RunRec] /\ run'[r].step = "vault" /\ run'[r].apply
          /\ \A q \in Run : RunSound(run'[q]) /\ RunTrue(run'[q], sot, copy', vault)
      BY <2>1, <2>2, <2>3, RewrittenMarks
    <2>6. AuthorKnown'
      BY <2>3, <2>5 DEF AuthorKnown
    <2> QED
      BY <1>0, <2>3, <2>4, <2>5, <2>6 DEF BearerInv, RunTrue, RunSound
  <1>6. ASSUME NEW r \in Run, NoVault(r) PROVE BearerInv'
    <2> DEFINE x == [run[r] EXCEPT !.step = "verify"]
    <2>1. run' = [run EXCEPT ![r] = x] /\ run[r].step = "vault"
      BY <1>6 DEF NoVault
    <2>4. /\ x \in RunRec /\ x.step = "verify" /\ x.apply = run[r].apply /\ x.push = run[r].push
          /\ x.ok = run[r].ok /\ x.value = run[r].value /\ x.rotated = run[r].rotated
      BY <1>0 DEF RunRec, BearerSteps
    <2>5. ~(run[r].apply /\ run[r].push) /\ RunSound(run[r]) /\ RunTrue(run[r], sot, copy, vault)
      BY <1>0, <1>6 DEF NoVault
    <2>2. x \in RunRec /\ RunSound(x) /\ RunTrue(x, sot, copy, vault) /\ x.apply = run[r].apply
      <3> HIDE DEF x
      <3> QED
        BY <2>1, <2>4, <2>5 DEF RunSound, RunTrue
    <2>3. AuthorKnown'
      <3> HIDE DEF x
      <3> QED
        BY <1>6, <2>1, <2>2, <2>4, AuthorStays DEF NoVault
    <2> QED
      BY <1>6, <2>1, <2>2, <2>3, RunGoesOn DEF NoVault
  <1>7. ASSUME NEW r \in Run, VaultSync(r) PROVE BearerInv'
    <2>1. PICK pushed \in BOOLEAN, status \in BOOLEAN :
            /\ status => pushed
            /\ vault' = IF pushed THEN sot ELSE vault
            /\ run' = [run EXCEPT ![r].step = "verify", ![r].ok = @ /\ status]
      BY <1>7 DEF VaultSync
    <2> DEFINE x == [run[r] EXCEPT !.step = "verify", !.ok = @ /\ status]
    <2>2. run' = [run EXCEPT ![r] = x] /\ x \in RunRec /\ UNCHANGED <<sot, copy, gateway, author>>
      BY <1>0, <1>7, <2>1 DEF RunRec, BearerSteps, VaultSync
    <2>3. /\ x.step = "verify" /\ x.apply /\ x.value = run[r].value /\ x.rotated = run[r].rotated
          /\ x.ok => status
      BY <1>0, <1>7 DEF RunRec, VaultSync
    <2> HIDE DEF x
    <2>4. vault' \in Nat /\ vault <= vault' /\ vault' <= sot
      BY <1>0, <2>1
    <2>5. RunSound(x) /\ RunTrue(x, sot, copy, vault')
      BY <1>0, <1>7, <2>1, <2>3 DEF RunSound, RunTrue, VaultSync
    <2>6. /\ run' \in [Run -> RunRec] /\ run'[r] = x /\ \A q \in Run \ {r} : run'[q] = run[q]
      BY <2>2 DEF BearerInv
    <2>7. ASSUME NEW q \in Run PROVE RunSound(run'[q]) /\ RunTrue(run'[q], sot, copy, vault')
      <3>1. CASE q = r
        BY <2>5, <2>6, <3>1
      <3>2. CASE q # r
        <4>1. run[q].value \in Nat
          BY <1>0 DEF RunRec
        <4> QED
          BY <1>0, <2>4, <2>6, <3>2, <4>1 DEF RunTrue
      <3> QED
        BY <3>1, <3>2
    <2>8. AuthorKnown'
      BY <2>2, <2>3, AuthorStays
    <2> QED
      BY <1>0, <2>2, <2>4, <2>6, <2>7, <2>8 DEF BearerInv, RunTrue, RunSound
  <1>8. ASSUME NEW r \in Run, VerifyCopy(r) PROVE BearerInv'
    <2> DEFINE x == [run[r] EXCEPT !.step = "report", !.ok = @ /\ Aligned(r),
                                   !.required = RestartRequired(r)]
    <2>1. run' = [run EXCEPT ![r] = x] /\ run[r].step = "verify"
      BY <1>8 DEF VerifyCopy
    <2>4. /\ x \in RunRec /\ x.step = "report" /\ x.apply = run[r].apply /\ x.push = run[r].push
          /\ x.value = run[r].value /\ x.rotated = run[r].rotated /\ x.match = run[r].match
      BY <1>0 DEF RunRec, BearerSteps, RestartRequired, Aligned
    <2>6. x.ok => run[r].ok /\ copy = run[r].value
      <3>1. x.ok = (run[r].ok /\ Aligned(r))
        BY <1>0 DEF RunRec
      <3> QED
        BY <3>1 DEF Aligned
    <2>7. x.required = (~x.match \/ x.apply)
      BY <1>0 DEF RunRec, RestartRequired
    <2>5. RunSound(run[r]) /\ RunTrue(run[r], sot, copy, vault)
      BY <1>0
    <2>2. x \in RunRec /\ RunSound(x) /\ RunTrue(x, sot, copy, vault) /\ x.apply = run[r].apply
      <3> HIDE DEF x
      <3> QED
        BY <2>1, <2>4, <2>5, <2>6, <2>7 DEF RunSound, RunTrue
    <2>3. AuthorKnown'
      <3> HIDE DEF x
      <3> QED
        BY <1>8, <2>1, <2>2, <2>4, AuthorStays DEF VerifyCopy
    <2> QED
      BY <1>8, <2>1, <2>2, <2>3, RunGoesOn DEF VerifyCopy
  <1>9. ASSUME NEW r \in Run, FollowReport(r) PROVE BearerInv'
    <2>1. RunTrue(NoRun, sot, copy, vault)
      BY <1>0, NoRunSound DEF RunTrue
    <2>2. run[r].step = "report" /\ (run[r].apply => run[r].required)
      BY <1>0, <1>9 DEF FollowReport, RunSound, RunRec
    <2>3. /\ run' = [run EXCEPT ![r] = NoRun] /\ UNCHANGED <<sot, copy, vault>>
          /\ run[r].required => gateway' = copy
          /\ ~run[r].required => gateway' = gateway /\ author' = author
      BY <1>9 DEF FollowReport
    <2>4. AuthorKnown'
      <3>1. CASE run[r].required
        BY <2>3, <3>1 DEF AuthorKnown
      <3>2. CASE ~run[r].required
        BY <2>2, <2>3, <3>2, NoRunSound, AuthorStays
      <3> QED
        BY <3>1, <3>2
    <2> QED
      BY <2>1, <2>3, <2>4, NoRunSound, RunGoesOn
  <1>10. ASSUME NEW r \in Run, RunEnds(r) PROVE BearerInv'
    <2>1. RunTrue(NoRun, sot, copy, vault)
      BY <1>0, NoRunSound DEF RunTrue
    <2>2. /\ run' = [run EXCEPT ![r] = NoRun] /\ UNCHANGED <<sot, copy, vault, gateway>>
          /\ author' = IF author = r THEN "gone" ELSE author
          /\ \A q \in Run \ {r} : run'[q] = run[q]
      BY <1>10 DEF RunEnds, BearerInv
    <2>3. AuthorKnown'
      BY <2>2 DEF AuthorKnown, BearerInv
    <2> QED
      BY <2>1, <2>2, <2>3, NoRunSound, RunGoesOn
  <1>11. CASE SyncEnvKey
    <2>1. /\ run' = Rewritten(run) /\ copy' \in Nat /\ UNCHANGED <<sot, vault>>
          /\ author' = "sync-env-key"
      BY <1>0, <1>11 DEF SyncEnvKey
    <2>2. /\ run' \in [Run -> RunRec]
          /\ \A q \in Run : RunSound(run'[q]) /\ RunTrue(run'[q], sot, copy', vault)
      BY <1>0, <2>1, RewrittenMarks DEF BearerInv
    <2>3. AuthorKnown'
      BY <2>1 DEF AuthorKnown
    <2> QED
      BY <1>0, <2>1, <2>2, <2>3 DEF BearerInv, RunTrue, RunSound
  <1>12. CASE UNCHANGED bearerVars
    BY <1>12 DEF bearerVars, BearerInv, RunSound, RunTrue, AuthorKnown
  <1> QED
    BY <1>1, <1>2, <1>3, <1>4, <1>5, <1>6, <1>7, <1>8, <1>9, <1>10, <1>11, <1>12 DEF BearerNext

\* Reports are true as far as a run can know: what apply-system-bearer calls
\* ok was in the copy when it was verified and is in the vault, or a later
\* key, if it was to push; and a gateway that runs on another key than its
\* file's is one whose restart a run at work asks for, unless sync-env-key or
\* a run that nobody followed wrote the file.
THEOREM ReportsTrue == BearerSpec => []BearerReportsTrue
  <1>1. BearerInv => BearerReportsTrue
    <2> SUFFICES ASSUME BearerInv PROVE BearerReportsTrue
      OBVIOUS
    <2>1. OkMeansAligned
      <3> SUFFICES ASSUME NEW r \in Run, run[r].step = "report", run[r].ok
                   PROVE  /\ run[r].rewritten \/ copy = run[r].value
                          /\ run[r].push => run[r].value <= vault
                          /\ run[r].rotated \/ (sot = run[r].value /\ (run[r].push => vault = sot))
        BY DEF OkMeansAligned
      <3>1. RunTrue(run[r], sot, copy, vault) /\ vault <= sot /\ sot \in Nat /\ vault \in Nat
        BY DEF BearerInv
      <3> QED
        BY <3>1 DEF RunTrue
    <2>2. RestartAsked
      <3>1. \A r \in Run : run[r].step = "report" /\ run[r].apply => run[r].required
        BY DEF BearerInv, RunSound, RunRec
      <3> QED
        BY <3>1 DEF BearerInv, AuthorKnown, RestartAsked
    <2> QED
      BY <2>1, <2>2 DEF BearerReportsTrue
  <1> QED
    BY BearerInvInit, BearerInvStep, <1>1, PTL DEF BearerSpec

---------------------------------------------------------------------------
(* The deployed services. The invariant says, of a service that nothing has *)
(* disturbed, what is there at each step of the one deployment of it.       *)

Size(k) == Len(Units(k))

\* An installation that is not complete has files to go.
DeployRec ==
    {x \in [of : Periodic, step : DeployStep, done : 0..5, weekly : BOOLEAN] :
        /\ x.step = "build" => x.done = 0
        /\ x.step = "install" => x.done < Size(x.of)}
All(k) == {Units(k)[i] : i \in DOMAIN Units(k)}
Upto(k, n) == {Units(k)[i] : i \in 1 .. n}

AtWork(d, k) == deploy[d].step # "idle" /\ deploy[d].of = k

\* f: its files, l: those loaded, on: its timer is enabled.
AtRestIs(k, f, l, on) ==
    \/ f = {} /\ ~on
    \/ f = Whole(k) /\ Whole(k) \subseteq l /\ on

StageIs(x, k, f, l, on) ==
    /\ x.step = "build" => f = {} /\ ~on
    /\ x.step = "install" => f = Upto(k, x.done) /\ ~on
    /\ x.step \in {"reload", "run", "check", "unprobe"} => f = All(k) /\ ~on
    /\ x.step = "unprobe" => k = "interactions"
    /\ x.step \in {"reload2", "enable"} => f = Whole(k) /\ ~on
    /\ x.step = "verify" => f = Whole(k) /\ l = Whole(k) /\ on
    /\ x.step \in {"stop", "remove"} => ~on
    /\ x.step = "reload3" => f = {} /\ ~on

ProbeGone(f, l, on) == on => "probe" \notin f \cup l

CycleTyped ==
    /\ files \in [Periodic -> SUBSET UnitFile] /\ loaded \in [Periodic -> SUBSET UnitFile]
    /\ deploy \in [Deployer -> DeployRec]
    /\ enabled \subseteq Periodic /\ abandoned \subseteq Periodic

Undisturbed(k) ==
    /\ \A d, e \in Deployer : AtWork(d, k) /\ AtWork(e, k) => d = e
    /\ (\A d \in Deployer : ~AtWork(d, k)) => AtRestIs(k, files[k], loaded[k], k \in enabled)
    /\ \A d \in Deployer :
          AtWork(d, k) => StageIs(deploy[d], k, files[k], loaded[k], k \in enabled)
    /\ ProbeGone(files[k], loaded[k], k \in enabled)

CycleInv == CycleTyped /\ \A k \in Periodic \ abandoned : Undisturbed(k)

\* What the lists of units are.
LEMMA UnitFacts ==
    ASSUME NEW k \in Periodic
    PROVE  /\ Size(k) \in 1..5 /\ All(k) = Upto(k, Size(k)) /\ Upto(k, 0) = {}
           /\ \A i \in 1 .. Size(k) : Units(k)[i] \in UnitFile
           /\ Whole(k) = All(k) \ {"probe"} /\ Whole(k) # {} /\ "probe" \notin Whole(k)
           /\ k = "weekly" => All(k) = Whole(k)
  <1>1. CASE k = "weekly"
    <2>1. Units(k) = <<"service", "timer", "override">>
      BY <1>1 DEF Units
    <2>2. Len(Units(k)) = 3 /\ DOMAIN Units(k) = 1..3
      BY <2>1
    <2>3. All(k) = {"service", "timer", "override"}
      BY <2>1, <2>2 DEF All
    <2> QED
      BY <1>1, <2>1, <2>2, <2>3 DEF All, Upto, Whole, UnitFile, Size
  <1>2. CASE k = "interactions"
    <2>1. Units(k) = <<"service", "timer", "config", "override", "probe">>
      BY <1>2 DEF Units
    <2>2. Len(Units(k)) = 5 /\ DOMAIN Units(k) = 1..5
      BY <2>1
    <2>3. All(k) = {"service", "timer", "config", "override", "probe"}
      BY <2>1, <2>2 DEF All
    <2> QED
      BY <1>2, <2>1, <2>2, <2>3 DEF All, Upto, Whole, UnitFile, Size
  <1> QED
    BY <1>1, <1>2 DEF Periodic

LEMMA CycleInvInit == CycleInit => CycleInv
  <1>1. NoDeploy \in DeployRec /\ NoDeploy.step = "idle"
    BY DEF NoDeploy, DeployRec, Periodic, DeployStep
  <1> QED
    BY <1>1 DEF CycleInit, CycleInv, CycleTyped, Undisturbed, AtWork, AtRestIs, ProbeGone

\* A reload that finds the files as they are disturbs nothing.
LEMMA ReloadHarmless ==
    ASSUME NEW x, NEW k, NEW f, NEW l, NEW on
    PROVE  /\ AtRestIs(k, f, l, on) => AtRestIs(k, f, f, on)
           /\ StageIs(x, k, f, l, on) => StageIs(x, k, f, f, on)
           /\ ProbeGone(f, l, on) => ProbeGone(f, f, on)
  BY DEF AtRestIs, StageIs, ProbeGone

\* A step of one deployment, of k: it leaves k in the stage it goes to, and
\* of the other service changes at most what is loaded.
LEMMA DeployGoesOn ==
    ASSUME CycleInv, NEW d \in Deployer, NEW k \in Periodic, NEW x \in DeployRec,
           deploy' = [deploy EXCEPT ![d] = x],
           files' \in [Periodic -> SUBSET UnitFile], loaded' \in [Periodic -> SUBSET UnitFile],
           enabled' \subseteq Periodic, abandoned' \subseteq Periodic,
           abandoned \subseteq abandoned',
           \A j \in Periodic \ {k} :
              /\ files'[j] = files[j] /\ (j \in enabled' <=> j \in enabled)
              /\ loaded'[j] = loaded[j] \/ loaded'[j] = files[j],
           deploy[d].step = "idle" \/ deploy[d].of = k,
           x.step = "idle" \/ x.of = k,
           k \notin abandoned' =>
              /\ \A e \in Deployer \ {d} : ~AtWork(e, k)
              /\ x.step = "idle" => AtRestIs(k, files'[k], loaded'[k], k \in enabled')
              /\ x.step # "idle" => StageIs(x, k, files'[k], loaded'[k], k \in enabled')
              /\ ProbeGone(files'[k], loaded'[k], k \in enabled')
    PROVE  CycleInv'
  <1>1. /\ deploy' \in [Deployer -> DeployRec] /\ deploy'[d] = x
        /\ \A e \in Deployer \ {d} : deploy'[e] = deploy[e]
    BY DEF CycleInv, CycleTyped
  <1>2. CycleTyped'
    BY <1>1 DEF CycleTyped
  <1>3. ASSUME k \notin abandoned' PROVE Undisturbed(k)'
    <2>1. \A e \in Deployer \ {d} : ~AtWork(e, k)'
      BY <1>1, <1>3 DEF AtWork
    <2>2. AtWork(d, k)' <=> x.step # "idle"
      BY <1>1 DEF AtWork
    <2> QED
      BY <1>1, <1>3, <2>1, <2>2 DEF Undisturbed
  <1>4. ASSUME NEW j \in Periodic \ {k}, j \notin abandoned' PROVE Undisturbed(j)'
    <2>1. Undisturbed(j)
      BY <1>4 DEF CycleInv
    <2>2. \A e \in Deployer : (AtWork(e, j)' <=> AtWork(e, j)) /\ (AtWork(e, j) => deploy'[e] = deploy[e])
      BY <1>1, <1>4 DEF AtWork
    <2>3. files'[j] = files[j] /\ (j \in enabled') = (j \in enabled)
      BY <1>4
    <2>4. /\ \A a, e \in Deployer : AtWork(a, j)' /\ AtWork(e, j)' => a = e
          /\ (\A e \in Deployer : ~AtWork(e, j)') => AtRestIs(j, files[j], loaded[j], j \in enabled)
          /\ \A e \in Deployer :
                AtWork(e, j)' => StageIs(deploy'[e], j, files[j], loaded[j], j \in enabled)
          /\ ProbeGone(files[j], loaded[j], j \in enabled)
      BY <2>1, <2>2 DEF Undisturbed
    <2>5. CASE loaded'[j] = loaded[j]
      BY <2>3, <2>4, <2>5 DEF Undisturbed, AtRestIs, StageIs, ProbeGone
    <2>6. CASE loaded'[j] = files[j]
      <3>1. /\ (\A e \in Deployer : ~AtWork(e, j)') => AtRestIs(j, files[j], files[j], j \in enabled)
            /\ \A e \in Deployer :
                AtWork(e, j)' => StageIs(deploy'[e], j, files[j], files[j], j \in enabled)
            /\ ProbeGone(files[j], files[j], j \in enabled)
        BY <2>4, ReloadHarmless
      <3> QED
        BY <2>3, <2>4, <2>6, <3>1 DEF Undisturbed, AtRestIs, StageIs, ProbeGone
    <2> QED
      BY <1>4, <2>5, <2>6
  <1> QED
    BY <1>2, <1>3, <1>4 DEF CycleInv

\* What a deployment at work knows of its service.
LEMMA AtItKnows ==
    ASSUME CycleInv, NEW d \in Deployer, deploy[d].step # "idle"
    PROVE  /\ deploy[d] \in DeployRec /\ Of(d) = deploy[d].of /\ Of(d) \in Periodic
           /\ Of(d) \notin abandoned =>
                /\ \A e \in Deployer \ {d} : ~AtWork(e, Of(d))
                /\ StageIs(deploy[d], Of(d), files[Of(d)], loaded[Of(d)], Of(d) \in enabled)
                /\ ProbeGone(files[Of(d)], loaded[Of(d)], Of(d) \in enabled)
  <1>1. deploy[d] \in DeployRec /\ Of(d) = deploy[d].of /\ Of(d) \in Periodic
    BY DEF CycleInv, CycleTyped, DeployRec, Of
  <1>2. AtWork(d, Of(d))
    BY <1>1 DEF AtWork
  <1> QED
    BY <1>1, <1>2 DEF CycleInv, Undisturbed

\* It goes to the step `to`, or ends: the record of DeployGoesOn.
LEMMA MovesTo ==
    ASSUME CycleInv, NEW d \in Deployer, NEW to \in DeployStep \ {"build"},
           to = "install" => deploy[d].step = "build"
    PROVE  /\ [deploy[d] EXCEPT !.step = to] \in DeployRec
           /\ [deploy[d] EXCEPT !.step = to].step = to
           /\ [deploy[d] EXCEPT !.step = to].of = deploy[d].of
           /\ [deploy[d] EXCEPT !.step = to].done = deploy[d].done
           /\ Move(d, to) => deploy' = [deploy EXCEPT ![d] = [deploy[d] EXCEPT !.step = to]]
  <1> DEFINE x == [deploy[d] EXCEPT !.step = to]
  <1>1. deploy[d] \in DeployRec
    BY DEF CycleInv, CycleTyped
  <1>2. /\ x \in [of : Periodic, step : DeployStep, done : 0..5, weekly : BOOLEAN]
        /\ x.step = to /\ x.of = deploy[d].of /\ x.done = deploy[d].done
    BY <1>1 DEF DeployRec
  <1>3. to = "install" => x.done < Size(x.of)
    <2>1. deploy[d].of \in Periodic /\ (to = "install" => deploy[d].done = 0)
      BY <1>1 DEF DeployRec
    <2>2. Size(deploy[d].of) \in 1..5
      BY <2>1, UnitFacts
    <2> HIDE DEF x
    <2> QED
      BY <1>2, <2>1, <2>2
  <1>4. Move(d, to) => deploy' = [deploy EXCEPT ![d] = x]
    BY DEF CycleInv, CycleTyped, Move
  <1> QED
    BY <1>2, <1>3, <1>4 DEF DeployRec

LEMMA EndsTo ==
    ASSUME NEW d \in Deployer
    PROVE  /\ NoDeploy \in DeployRec /\ NoDeploy.step = "idle"
           /\ DeployEnds(d) => deploy' = [deploy EXCEPT ![d] = NoDeploy]
  BY DEF NoDeploy, DeployRec, Periodic, DeployStep, DeployEnds

\* A step of d from `from` to `to` that keeps its service in order.
LEMMA MoveKeeps ==
    ASSUME CycleInv, NEW d \in Deployer, NEW to \in DeployStep \ {"idle", "build"}, Move(d, to),
           deploy[d].step # "idle", to = "install" => deploy[d].step = "build",
           files' \in [Periodic -> SUBSET UnitFile], enabled' \subseteq Periodic,
           loaded' = loaded \/ loaded' = files, UNCHANGED abandoned,
           \A j \in Periodic \ {Of(d)} : files'[j] = files[j] /\ (j \in enabled' <=> j \in enabled),
           Of(d) \notin abandoned =>
              /\ StageIs([deploy[d] EXCEPT !.step = to], Of(d), files'[Of(d)], loaded'[Of(d)],
                         Of(d) \in enabled')
              /\ ProbeGone(files'[Of(d)], loaded'[Of(d)], Of(d) \in enabled')
    PROVE  CycleInv'
  <1>1. loaded' \in [Periodic -> SUBSET UnitFile] /\ abandoned' \subseteq Periodic
    BY DEF CycleInv, CycleTyped
  <1>2. \A j \in Periodic : loaded'[j] = loaded[j] \/ loaded'[j] = files[j]
    OBVIOUS
  <1> DEFINE x == [deploy[d] EXCEPT !.step = to]
  <1>3. /\ x \in DeployRec /\ x.step # "idle" /\ x.of = Of(d) /\ deploy[d].of = Of(d)
        /\ deploy' = [deploy EXCEPT ![d] = x]
    BY MovesTo, AtItKnows
  <1>4. Of(d) \in Periodic /\ (Of(d) \notin abandoned => \A e \in Deployer \ {d} : ~AtWork(e, Of(d)))
    BY AtItKnows
  <1> HIDE DEF x
  <1>5. Of(d) \notin abandoned' =>
              /\ StageIs(x, Of(d), files'[Of(d)], loaded'[Of(d)], Of(d) \in enabled')
              /\ ProbeGone(files'[Of(d)], loaded'[Of(d)], Of(d) \in enabled')
    BY DEF x
  <1> QED
    BY <1>1, <1>2, <1>3, <1>4, <1>5, DeployGoesOn

\* d ends, in order or with its service among the abandoned.
LEMMA EndKeeps ==
    ASSUME CycleInv, NEW d \in Deployer, DeployEnds(d), deploy[d].step # "idle",
           UNCHANGED <<files, enabled>>, loaded' = loaded \/ loaded' = files,
           abandoned \subseteq abandoned', abandoned' \subseteq abandoned \cup {Of(d)},
           Of(d) \notin abandoned' =>
              AtRestIs(Of(d), files[Of(d)], loaded'[Of(d)], Of(d) \in enabled)
    PROVE  CycleInv'
  <1>1. /\ files' \in [Periodic -> SUBSET UnitFile] /\ loaded' \in [Periodic -> SUBSET UnitFile]
        /\ enabled' \subseteq Periodic
    BY DEF CycleInv, CycleTyped
  <1>2. \A j \in Periodic : loaded'[j] = loaded[j] \/ loaded'[j] = files[j]
    OBVIOUS
  <1>3. /\ Of(d) \in Periodic /\ deploy[d].of = Of(d) /\ abandoned' \subseteq Periodic
        /\ Of(d) \notin abandoned =>
              /\ \A e \in Deployer \ {d} : ~AtWork(e, Of(d))
              /\ ProbeGone(files[Of(d)], loaded[Of(d)], Of(d) \in enabled)
    BY AtItKnows DEF CycleInv, CycleTyped
  <1>4. Of(d) \notin abandoned => ProbeGone(files[Of(d)], loaded'[Of(d)], Of(d) \in enabled)
    BY <1>2, <1>3 DEF ProbeGone
  <1> QED
    BY <1>1, <1>2, <1>3, <1>4, EndsTo, DeployGoesOn

LEMMA CycleInvStep == CycleInv /\ [CycleNext]_cycleVars => CycleInv'
  <1> SUFFICES ASSUME CycleInv, [CycleNext]_cycleVars PROVE CycleInv'
    OBVIOUS
  <1>0. CycleTyped
    BY DEF CycleInv
  <1>1. ASSUME NEW d \in Deployer, NEW k \in Periodic, Preflight(d, k) PROVE CycleInv'
    <2>0. PICK w \in BOOLEAN :
            deploy' = [deploy EXCEPT ![d] =
                [of |-> k, step |-> "build", done |-> 0, weekly |-> w]]
      BY <1>1 DEF Preflight
    <2> DEFINE x == [of |-> k, step |-> "build", done |-> 0, weekly |-> w]
    <2>1. /\ x \in DeployRec /\ x.step = "build" /\ x.of = k
          /\ deploy' = [deploy EXCEPT ![d] = x] /\ deploy[d].step = "idle"
          /\ files[k] = {} /\ UNCHANGED <<files, loaded, enabled>>
      <3>1. /\ deploy[d].step = "idle"
            /\ files[k] = {} /\ UNCHANGED <<files, loaded, enabled>>
        BY <1>1 DEF Preflight, Doing
      <3>2. x.step = "build" /\ x.of = k /\ x.done = 0
        OBVIOUS
      <3>3. x \in [of : Periodic, step : DeployStep, done : 0..5, weekly : BOOLEAN]
        BY DEF DeployStep
      <3>4. deploy' = [deploy EXCEPT ![d] = x]
        BY <2>0
      <3> QED
        BY <3>1, <3>2, <3>3, <3>4 DEF DeployRec
    <2>2. /\ abandoned \subseteq abandoned' /\ abandoned' \subseteq Periodic
          /\ k \notin abandoned' => \A e \in Deployer : ~AtWork(e, k)
      BY <1>0, <1>1 DEF Preflight, Doing, Of, AtWork, CycleTyped, DeployRec
    <2>3. ASSUME k \notin abandoned'
          PROVE  /\ StageIs(x, k, files[k], loaded[k], k \in enabled)
                 /\ ProbeGone(files[k], loaded[k], k \in enabled)
      <3>1. Undisturbed(k) /\ AtRestIs(k, files[k], loaded[k], k \in enabled)
        BY <2>2, <2>3 DEF CycleInv, Undisturbed
      <3>2. k \notin enabled
        BY <2>1, <3>1, UnitFacts DEF AtRestIs
      <3> QED
        BY <2>1, <3>1, <3>2 DEF StageIs, Undisturbed
    <2> HIDE DEF x
    <2> QED
      BY <1>0, <2>1, <2>2, <2>3, DeployGoesOn DEF CycleTyped
  <1>2. ASSUME NEW d \in Deployer, BuildRelease(d) PROVE CycleInv'
    <2>1. deploy[d].step = "build" /\ UNCHANGED <<files, loaded, enabled, abandoned>>
      BY <1>2 DEF BuildRelease, Doing
    <2>2. Of(d) \notin abandoned =>
            /\ deploy[d].done = 0 /\ files[Of(d)] = {} /\ Of(d) \notin enabled
            /\ ProbeGone(files[Of(d)], loaded[Of(d)], Of(d) \in enabled)
      BY <2>1, AtItKnows DEF StageIs, DeployRec
    <2>3. CASE Move(d, "install")
      <3>1. "install" \in DeployStep \ {"idle", "build"}
        BY DEF DeployStep
      <3> DEFINE x == [deploy[d] EXCEPT !.step = "install"]
      <3>3. x.step = "install" /\ x.done = deploy[d].done
        BY <2>1, <3>1, MovesTo
      <3>4. Of(d) \in Periodic
        BY <2>1, AtItKnows
      <3> HIDE DEF x
      <3>5. Of(d) \notin abandoned => StageIs(x, Of(d), files[Of(d)], loaded[Of(d)], Of(d) \in enabled)
        BY <2>2, <3>3, <3>4, UnitFacts DEF StageIs
      <3> USE DEF x
      <3>2. Of(d) \notin abandoned =>
              StageIs([deploy[d] EXCEPT !.step = "install"], Of(d), files[Of(d)], loaded[Of(d)],
                      Of(d) \in enabled)
        BY <3>5
      <3> QED
        BY <1>0, <2>1, <2>2, <2>3, <3>1, <3>2, MoveKeeps DEF CycleTyped
    <2>4. CASE DeployEnds(d)
      BY <2>1, <2>2, <2>4, EndKeeps DEF AtRestIs
    <2> QED
      BY <1>2, <2>3, <2>4 DEF BuildRelease
  <1>3. ASSUME NEW d \in Deployer, InstallUnit(d) PROVE CycleInv'
    <2> DEFINE n == deploy[d].done + 1
    <2> DEFINE to == IF n = Size(Of(d)) THEN "reload" ELSE "install"
    <2> DEFINE x == [deploy[d] EXCEPT !.done = n, !.step = to]
    <2>1. /\ deploy[d].step = "install" /\ UNCHANGED <<loaded, enabled, abandoned>>
          /\ files' = [files EXCEPT ![Of(d)] = @ \cup {Units(Of(d))[n]}]
          /\ deploy' = [deploy EXCEPT ![d].done = n, ![d].step = to]
      BY <1>3 DEF InstallUnit, Doing, Size
    <2>2. deploy' = [deploy EXCEPT ![d] = x]
      BY <1>0, <2>1 DEF CycleTyped
    <2>3. Of(d) \in Periodic /\ deploy[d] \in DeployRec /\ deploy[d].of = Of(d)
      BY <2>1, AtItKnows
    <2>4. /\ n \in 1 .. Size(Of(d)) /\ n \in 0..5 /\ Units(Of(d))[n] \in UnitFile
          /\ to = "install" => n < Size(Of(d))
      <3>1. deploy[d].done \in 0..5 /\ deploy[d].done < Size(Of(d))
        BY <2>1, <2>3 DEF DeployRec
      <3>2. Size(Of(d)) \in 1..5
        BY <2>3, UnitFacts
      <3>3. n \in 1 .. Size(Of(d)) /\ n \in 0..5
        BY <3>1, <3>2
      <3> HIDE DEF n
      <3> QED
        BY <2>3, <3>2, <3>3, UnitFacts
    <2>5. /\ x \in DeployRec /\ x.step = to /\ to \in {"install", "reload"} /\ x.of = Of(d) /\ x.done = n
      <3>1. to \in DeployStep /\ deploy[d] \in [of : Periodic, step : DeployStep, done : 0..5, weekly : BOOLEAN]
        BY <2>3 DEF DeployRec, DeployStep
      <3> HIDE DEF n
      <3>2. x \in [of : Periodic, step : DeployStep, done : 0..5, weekly : BOOLEAN]
        BY <2>4, <3>1
      <3>3. x.step = to /\ x.of = Of(d) /\ x.done = n
        BY <2>3, <3>1
      <3> QED
        BY <2>4, <3>2, <3>3 DEF DeployRec
    <2>6. files' \in [Periodic -> SUBSET UnitFile] /\ \A j \in Periodic \ {Of(d)} : files'[j] = files[j]
      BY <1>0, <2>1, <2>4 DEF CycleTyped
    <2>7. ASSUME Of(d) \notin abandoned
          PROVE  /\ files'[Of(d)] = Upto(Of(d), n) /\ Of(d) \notin enabled
                 /\ \A e \in Deployer \ {d} : ~AtWork(e, Of(d))
      <3>1. /\ files[Of(d)] = Upto(Of(d), deploy[d].done)
            /\ Of(d) \notin enabled /\ \A e \in Deployer \ {d} : ~AtWork(e, Of(d))
        BY <2>1, <2>7, AtItKnows DEF StageIs
      <3>2. Upto(Of(d), n) = Upto(Of(d), deploy[d].done) \cup {Units(Of(d))[n]}
        <4>1. deploy[d].done \in Nat
          BY <2>3 DEF DeployRec
        <4>2. 1 .. n = (1 .. deploy[d].done) \cup {n}
          BY <4>1
        <4> HIDE DEF n
        <4> QED
          BY <4>2 DEF Upto
      <3> QED
        BY <1>0, <2>1, <2>3, <3>1, <3>2 DEF CycleTyped
    <2>8. Of(d) \notin abandoned =>
              /\ StageIs(x, Of(d), files'[Of(d)], loaded'[Of(d)], Of(d) \in enabled')
              /\ ProbeGone(files'[Of(d)], loaded'[Of(d)], Of(d) \in enabled')
      <3>1. to = "reload" => Upto(Of(d), n) = All(Of(d))
        BY <2>3, UnitFacts
      <3> HIDE DEF x, n, to
      <3> QED
        BY <2>1, <2>5, <2>7, <3>1 DEF StageIs, ProbeGone
    <2> HIDE DEF x, n, to
    <2>9. /\ loaded' \in [Periodic -> SUBSET UnitFile] /\ enabled' \subseteq Periodic
          /\ abandoned' = abandoned /\ abandoned' \subseteq Periodic
          /\ \A j \in Periodic \ {Of(d)} : loaded'[j] = loaded[j] /\ (j \in enabled' <=> j \in enabled)
      BY <1>0, <2>1 DEF CycleTyped
    <2>10. deploy[d].of = Of(d) /\ x.step # "idle" /\ x.of = Of(d)
      BY <2>3, <2>5
    <2> QED
      BY <2>2, <2>3, <2>5, <2>6, <2>7, <2>8, <2>9, <2>10, DeployGoesOn
  <1>4. ASSUME NEW d \in Deployer, ReloadUnits(d) PROVE CycleInv'
    <2>1. /\ deploy[d].step = "reload" /\ Move(d, "run") /\ "run" \in DeployStep \ {"idle", "build"}
          /\ UNCHANGED <<files, enabled, abandoned>> /\ loaded' = files
      BY <1>4 DEF ReloadUnits, Doing, DeployStep, DaemonReload
    <2>2. Of(d) \notin abandoned =>
            /\ StageIs([deploy[d] EXCEPT !.step = "run"], Of(d), files'[Of(d)], loaded'[Of(d)],
                       Of(d) \in enabled')
            /\ ProbeGone(files'[Of(d)], loaded'[Of(d)], Of(d) \in enabled')
      BY <1>0, <2>1, AtItKnows, UnitFacts, MovesTo DEF StageIs, ProbeGone, CycleTyped
    <2>3. /\ files' \in [Periodic -> SUBSET UnitFile] /\ enabled' \subseteq Periodic
          /\ \A j \in Periodic \ {Of(d)} : files'[j] = files[j] /\ (j \in enabled' <=> j \in enabled)
      BY <1>0, <2>1, AtItKnows DEF CycleTyped
    <2> QED
      BY <2>1, <2>2, <2>3, MoveKeeps
  <1>5. ASSUME NEW d \in Deployer, RunOnce(d) PROVE CycleInv'
    <2>1. /\ deploy[d].step = "run" /\ Move(d, "check") /\ "check" \in DeployStep \ {"idle", "build"}
          /\ UNCHANGED <<files, loaded, enabled, abandoned>>
      BY <1>5 DEF RunOnce, Doing, DeployStep, DaemonReload
    <2>2. Of(d) \notin abandoned =>
            /\ StageIs([deploy[d] EXCEPT !.step = "check"], Of(d), files'[Of(d)], loaded'[Of(d)],
                       Of(d) \in enabled')
            /\ ProbeGone(files'[Of(d)], loaded'[Of(d)], Of(d) \in enabled')
      BY <1>0, <2>1, AtItKnows, UnitFacts, MovesTo DEF StageIs, ProbeGone, CycleTyped
    <2>3. /\ files' \in [Periodic -> SUBSET UnitFile] /\ enabled' \subseteq Periodic
          /\ \A j \in Periodic \ {Of(d)} : files'[j] = files[j] /\ (j \in enabled' <=> j \in enabled)
      BY <1>0, <2>1, AtItKnows DEF CycleTyped
    <2> QED
      BY <2>1, <2>2, <2>3, MoveKeeps
  <1>6. ASSUME NEW d \in Deployer, CheckResult(d) PROVE CycleInv'
    <2> DEFINE to == IF Of(d) = "weekly" THEN "enable" ELSE "unprobe"
    <2>1. /\ deploy[d].step = "check" /\ Move(d, to) /\ to \in DeployStep \ {"idle", "build"}
          /\ to # "install" /\ UNCHANGED <<files, loaded, enabled, abandoned>>
      BY <1>6 DEF CheckResult, Doing, DeployStep
    <2>2. Of(d) \in Periodic
      BY <2>1, AtItKnows
    <2>3. Of(d) \notin abandoned =>
            /\ files[Of(d)] = All(Of(d)) /\ Of(d) \notin enabled
            /\ ProbeGone(files[Of(d)], loaded[Of(d)], Of(d) \in enabled)
      BY <2>1, AtItKnows DEF StageIs
    <2>4. [deploy[d] EXCEPT !.step = to].step = to
      BY <2>1, MovesTo
    <2>5. Of(d) \notin abandoned =>
            StageIs([deploy[d] EXCEPT !.step = to], Of(d), files[Of(d)], loaded[Of(d)],
                    Of(d) \in enabled)
      BY <2>2, <2>3, <2>4, UnitFacts DEF StageIs, Periodic
    <2> HIDE DEF to
    <2> QED
      BY <1>0, <2>1, <2>3, <2>5, MoveKeeps DEF CycleTyped
  <1>7. ASSUME NEW d \in Deployer, RemoveProbe(d) PROVE CycleInv'
    <2>1. /\ deploy[d].step = "unprobe" /\ Move(d, "reload2") /\ "reload2" \in DeployStep \ {"idle", "build"}
          /\ UNCHANGED <<loaded, enabled, abandoned>> /\ files' = [files EXCEPT ![Of(d)] = @ \ {"probe"}]
      BY <1>7 DEF RemoveProbe, Doing, DeployStep, DaemonReload
    <2>2. Of(d) \notin abandoned =>
            /\ StageIs([deploy[d] EXCEPT !.step = "reload2"], Of(d), files'[Of(d)], loaded'[Of(d)],
                       Of(d) \in enabled')
            /\ ProbeGone(files'[Of(d)], loaded'[Of(d)], Of(d) \in enabled')
      BY <1>0, <2>1, AtItKnows, UnitFacts, MovesTo DEF StageIs, ProbeGone, CycleTyped
    <2>3. /\ files' \in [Periodic -> SUBSET UnitFile] /\ enabled' \subseteq Periodic
          /\ \A j \in Periodic \ {Of(d)} : files'[j] = files[j] /\ (j \in enabled' <=> j \in enabled)
      BY <1>0, <2>1, AtItKnows DEF CycleTyped
    <2> QED
      BY <2>1, <2>2, <2>3, MoveKeeps
  <1>8. ASSUME NEW d \in Deployer, ReloadWithoutProbe(d) PROVE CycleInv'
    <2>1. /\ deploy[d].step = "reload2" /\ Move(d, "enable") /\ "enable" \in DeployStep \ {"idle", "build"}
          /\ UNCHANGED <<files, enabled, abandoned>> /\ loaded' = files
      BY <1>8 DEF ReloadWithoutProbe, Doing, DeployStep, DaemonReload
    <2>2. Of(d) \notin abandoned =>
            /\ StageIs([deploy[d] EXCEPT !.step = "enable"], Of(d), files'[Of(d)], loaded'[Of(d)],
                       Of(d) \in enabled')
            /\ ProbeGone(files'[Of(d)], loaded'[Of(d)], Of(d) \in enabled')
      BY <1>0, <2>1, AtItKnows, UnitFacts, MovesTo DEF StageIs, ProbeGone, CycleTyped
    <2>3. /\ files' \in [Periodic -> SUBSET UnitFile] /\ enabled' \subseteq Periodic
          /\ \A j \in Periodic \ {Of(d)} : files'[j] = files[j] /\ (j \in enabled' <=> j \in enabled)
      BY <1>0, <2>1, AtItKnows DEF CycleTyped
    <2> QED
      BY <2>1, <2>2, <2>3, MoveKeeps
  <1>9. ASSUME NEW d \in Deployer, EnableTimer(d) PROVE CycleInv'
    <2>1. /\ deploy[d].step = "enable" /\ Move(d, "verify") /\ "verify" \in DeployStep \ {"idle", "build"}
          /\ UNCHANGED <<files, abandoned>> /\ loaded' = files /\ enabled' = enabled \cup {Of(d)}
      BY <1>9 DEF EnableTimer, Doing, DeployStep, DaemonReload
    <2>2. Of(d) \notin abandoned =>
            /\ StageIs([deploy[d] EXCEPT !.step = "verify"], Of(d), files'[Of(d)], loaded'[Of(d)],
                       Of(d) \in enabled')
            /\ ProbeGone(files'[Of(d)], loaded'[Of(d)], Of(d) \in enabled')
      BY <1>0, <2>1, AtItKnows, UnitFacts, MovesTo DEF StageIs, ProbeGone, CycleTyped
    <2>3. /\ files' \in [Periodic -> SUBSET UnitFile] /\ enabled' \subseteq Periodic
          /\ \A j \in Periodic \ {Of(d)} : files'[j] = files[j] /\ (j \in enabled' <=> j \in enabled)
      BY <1>0, <2>1, AtItKnows DEF CycleTyped
    <2> QED
      BY <2>1, <2>2, <2>3, MoveKeeps
  <1>10. ASSUME NEW d \in Deployer, DisableTimer(d) PROVE CycleInv'
    <2>1. /\ deploy[d].step = "disable" /\ Move(d, "stop") /\ "stop" \in DeployStep \ {"idle", "build"}
          /\ UNCHANGED <<files, abandoned>> /\ loaded' = files /\ enabled' = enabled \ {Of(d)}
      BY <1>10 DEF DisableTimer, Doing, DeployStep, DaemonReload
    <2>2. Of(d) \notin abandoned =>
            /\ StageIs([deploy[d] EXCEPT !.step = "stop"], Of(d), files'[Of(d)], loaded'[Of(d)],
                       Of(d) \in enabled')
            /\ ProbeGone(files'[Of(d)], loaded'[Of(d)], Of(d) \in enabled')
      BY <1>0, <2>1, AtItKnows, UnitFacts, MovesTo DEF StageIs, ProbeGone, CycleTyped
    <2>3. /\ files' \in [Periodic -> SUBSET UnitFile] /\ enabled' \subseteq Periodic
          /\ \A j \in Periodic \ {Of(d)} : files'[j] = files[j] /\ (j \in enabled' <=> j \in enabled)
      BY <1>0, <2>1, AtItKnows DEF CycleTyped
    <2> QED
      BY <2>1, <2>2, <2>3, MoveKeeps
  <1>11. ASSUME NEW d \in Deployer, StopRun(d) PROVE CycleInv'
    <2>1. /\ deploy[d].step = "stop" /\ Move(d, "remove") /\ "remove" \in DeployStep \ {"idle", "build"}
          /\ UNCHANGED <<files, loaded, enabled, abandoned>>
      BY <1>11 DEF StopRun, Doing, DeployStep, DaemonReload
    <2>2. Of(d) \notin abandoned =>
            /\ StageIs([deploy[d] EXCEPT !.step = "remove"], Of(d), files'[Of(d)], loaded'[Of(d)],
                       Of(d) \in enabled')
            /\ ProbeGone(files'[Of(d)], loaded'[Of(d)], Of(d) \in enabled')
      BY <1>0, <2>1, AtItKnows, UnitFacts, MovesTo DEF StageIs, ProbeGone, CycleTyped
    <2>3. /\ files' \in [Periodic -> SUBSET UnitFile] /\ enabled' \subseteq Periodic
          /\ \A j \in Periodic \ {Of(d)} : files'[j] = files[j] /\ (j \in enabled' <=> j \in enabled)
      BY <1>0, <2>1, AtItKnows DEF CycleTyped
    <2> QED
      BY <2>1, <2>2, <2>3, MoveKeeps
  <1>12. ASSUME NEW d \in Deployer, RemoveUnits(d) PROVE CycleInv'
    <2>1. /\ deploy[d].step = "remove" /\ Move(d, "reload3") /\ "reload3" \in DeployStep \ {"idle", "build"}
          /\ UNCHANGED <<loaded, enabled, abandoned>> /\ files' = [files EXCEPT ![Of(d)] = {}]
      BY <1>12 DEF RemoveUnits, Doing, DeployStep, DaemonReload, RemoveAll
    <2>2. Of(d) \notin abandoned =>
            /\ StageIs([deploy[d] EXCEPT !.step = "reload3"], Of(d), files'[Of(d)], loaded'[Of(d)],
                       Of(d) \in enabled')
            /\ ProbeGone(files'[Of(d)], loaded'[Of(d)], Of(d) \in enabled')
      BY <1>0, <2>1, AtItKnows, UnitFacts, MovesTo DEF StageIs, ProbeGone, CycleTyped
    <2>3. /\ files' \in [Periodic -> SUBSET UnitFile] /\ enabled' \subseteq Periodic
          /\ \A j \in Periodic \ {Of(d)} : files'[j] = files[j] /\ (j \in enabled' <=> j \in enabled)
      BY <1>0, <2>1, AtItKnows DEF CycleTyped
    <2> QED
      BY <2>1, <2>2, <2>3, MoveKeeps
  <1>13. ASSUME NEW d \in Deployer, Verified(d) PROVE CycleInv'
    <2>1. deploy[d].step = "verify" /\ DeployEnds(d) /\ UNCHANGED <<files, loaded, enabled, abandoned>>
      BY <1>13 DEF Verified, Doing
    <2>2. Of(d) \notin abandoned => AtRestIs(Of(d), files[Of(d)], loaded[Of(d)], Of(d) \in enabled)
      BY <2>1, AtItKnows DEF StageIs, AtRestIs
    <2> QED
      BY <2>1, <2>2, EndKeeps
  <1>14. ASSUME NEW d \in Deployer, Fails(d) PROVE CycleInv'
    <2>1. Trapped(d) /\ UNCHANGED <<files, loaded, enabled>>
      BY <1>14 DEF Fails
    <2>2. deploy[d].step \in {"install", "reload", "run", "check", "unprobe", "reload2", "enable", "verify"}
      BY <2>1 DEF Trapped
    <2>3. CASE Installed(d, "timer")
      <3>1. Move(d, "disable") /\ UNCHANGED abandoned /\ "disable" \in DeployStep \ {"idle", "build"}
        BY <1>14, <2>3 DEF Fails, DeployStep
      <3>2. Of(d) \notin abandoned =>
              /\ StageIs([deploy[d] EXCEPT !.step = "disable"], Of(d), files[Of(d)], loaded[Of(d)],
                         Of(d) \in enabled)
              /\ ProbeGone(files[Of(d)], loaded[Of(d)], Of(d) \in enabled)
        BY <2>2, <3>1, AtItKnows, MovesTo DEF StageIs
      <3> QED
        BY <1>0, <2>1, <2>2, <3>1, <3>2, MoveKeeps DEF CycleTyped
    <2>4. CASE ~Installed(d, "timer")
      <3>1. DeployEnds(d) /\ abandoned' = abandoned \cup {k \in {Of(d)} : files[k] # {}}
        BY <1>14, <2>4 DEF Fails
      <3>2. Of(d) \in Periodic
        BY <2>2, AtItKnows
      <3>3. ASSUME Of(d) \notin abandoned'
            PROVE  AtRestIs(Of(d), files[Of(d)], loaded[Of(d)], Of(d) \in enabled)
        <4>1. files[Of(d)] = {} /\ Of(d) \notin abandoned
          BY <3>1, <3>3
        <4>2. Of(d) \notin enabled
          BY <2>2, <3>2, <4>1, AtItKnows, UnitFacts DEF StageIs
        <4> QED
          BY <4>1, <4>2 DEF AtRestIs
      <3> QED
        BY <2>1, <2>2, <3>1, <3>3, EndKeeps
    <2> QED
      BY <2>3, <2>4
  <1>15. ASSUME NEW d \in Deployer, ReloadRolledBack(d) PROVE CycleInv'
    <2>1. /\ deploy[d].step = "reload3" /\ DeployEnds(d) /\ loaded' = files
          /\ UNCHANGED <<files, enabled, abandoned>>
      BY <1>15 DEF ReloadRolledBack, DaemonReload, Doing
    <2>2. Of(d) \notin abandoned => AtRestIs(Of(d), files[Of(d)], loaded'[Of(d)], Of(d) \in enabled)
      BY <2>1, AtItKnows DEF StageIs, AtRestIs
    <2> QED
      BY <2>1, <2>2, EndKeeps
  <1>16. ASSUME NEW d \in Deployer, DeployDies(d) PROVE CycleInv'
    <2>1. /\ deploy[d].step # "idle" /\ DeployEnds(d) /\ UNCHANGED <<files, loaded, enabled>>
          /\ abandoned' = IF deploy[d].step = "build" THEN abandoned ELSE abandoned \cup {Of(d)}
      BY <1>16 DEF DeployDies, Doing
    <2>2. Of(d) \notin abandoned' => AtRestIs(Of(d), files[Of(d)], loaded[Of(d)], Of(d) \in enabled)
      BY <2>1, AtItKnows DEF StageIs, AtRestIs
    <2> QED
      BY <2>1, <2>2, EndKeeps
  <1>17. CASE UNCHANGED cycleVars
    BY <1>17 DEF cycleVars, CycleInv, CycleTyped, Undisturbed, AtWork
  <1> QED
    BY <1>1, <1>2, <1>3, <1>4, <1>5, <1>6, <1>7, <1>8, <1>9, <1>10, <1>11, <1>12, <1>13, <1>14,
       <1>15, <1>16, <1>17 DEF CycleNext

\* Of a periodic service everything is installed, loaded and enabled or
\* nothing is, and its timer never starts the probe, whatever deployments and
\* rollbacks fail, unless one ended midway or two of one service crossed.
THEOREM DeploymentsStay == CycleSpec => []DeploymentsKept
  <1>1. CycleInv => DeploymentsKept
    <2> SUFFICES ASSUME CycleInv PROVE DeploymentsKept
      OBVIOUS
    <2>1. AllOrNothing
      <3> SUFFICES ASSUME NEW k \in Periodic \ abandoned,
                          \A d \in Deployer : Doing(d, "idle") \/ Of(d) # k
                   PROVE  \/ files[k] = {} /\ k \notin enabled
                          \/ files[k] = Whole(k) /\ Whole(k) \subseteq loaded[k] /\ k \in enabled
        BY DEF AllOrNothing
      <3>1. \A d \in Deployer : ~AtWork(d, k)
        BY DEF AtWork, Doing, Of
      <3> QED
        BY <3>1 DEF CycleInv, Undisturbed, AtRestIs
    <2>2. ProbeNotTimed
      BY DEF CycleInv, Undisturbed, ProbeGone, ProbeNotTimed, Periodic
    <2> QED
      BY <2>1, <2>2 DEF DeploymentsKept
  <1> QED
    BY CycleInvInit, CycleInvStep, <1>1, PTL DEF CycleSpec

---------------------------------------------------------------------------
(* Magistral.                                                              *)

ChangeRec == [step : ChangeStep, had : SUBSET Served, wrote : BOOLEAN, late : BOOLEAN]

PromotionStep ==
    {"drop", "both", "load", "promote", "answer", "guide", "undrop", "unload", "demote", "unguide"}

\* What a promotion x that has crossed no other implies at each of its steps:
\* of the drop-ins d on disk, those loaded, u, and those the services run
\* with, r. Meanwhile a restart for the map may start a service with what is
\* loaded by then.
PromotionIs(x, d, u, r) ==
    /\ x.had \in {{}, Served}
    /\ x.step = "drop" => d = x.had /\ u = x.had /\ r = x.had
    /\ x.step = "both" => d = x.had \cup {"magistral"} /\ u = x.had /\ r = x.had
    /\ x.step = "load" => d = Served /\ u = x.had /\ r = x.had
    /\ x.step \in {"promote", "answer", "guide", "undrop"} => d = Served /\ u = Served
    /\ x.step \in {"answer", "guide"} => "magistral" \in r
    /\ x.step = "unload" => d = x.had /\ u = Served
    /\ x.step \in {"demote", "unguide"} => d = x.had /\ u = x.had
    /\ x.step = "unguide" => ("magistral" \in r <=> "magistral" \in x.had)

\* Promotions that cross count as strayed when the later one starts, so until
\* then at most one is under way.
PromotionsApart ==
    ~strayed => \A o \in Admin : Promoting(o) =>
        /\ PromotionIs(change[o], dropins, units, running)
        /\ \A p \in Admin \ {o} : ~Promoting(p)

\* What is set aside is the authority's newest key, if the script that set it
\* aside is not late; and somebody has set it aside.
AppendTrue ==
    /\ keyInForce <= authority /\ append <= authority
    /\ \A o \in Admin : Steps(o, "append") /\ change[o].wrote /\ ~change[o].late
                            => append \in {0, authority}
    /\ append # 0 => leftover \/ \E o \in Admin : Steps(o, "append") /\ change[o].wrote

\* The inductive invariant of MagistralHost.
MagistralInv == MagistralTypeOK /\ AppendTrue /\ PromotedTogether /\ PromotionsApart

LEMMA MagistralInvInit == MagistralInit => MagistralInv
  <1> SUFFICES ASSUME MagistralInit PROVE MagistralInv
    OBVIOUS
  <1>1. /\ authority \in 0 .. MaxIssue /\ keyInForce = 0 /\ append = 0 /\ 0 \in 0 .. MaxIssue
        /\ 0 \in 0 .. MaxChange /\ authority \in 0 .. 1
    BY MagistralAssumption DEF MagistralInit
  <1>2. \A o \in Admin : change[o] = NoChange
    BY DEF MagistralInit
  <1>3. NoChange \in ChangeRec /\ NoChange.step = "idle"
    BY DEF NoChange, ChangeRec, ChangeStep
  <1>4. MagistralTypeOK
    BY <1>1, <1>3 DEF MagistralInit, MagistralTypeOK, ChangeRec
  <1>5. \A o \in Admin : ~Promoting(o) /\ ~Steps(o, "append")
    BY <1>2, <1>3 DEF Promoting, Steps
  <1>6. AppendTrue
    BY <1>1, <1>5 DEF AppendTrue
  <1> QED
    BY <1>4, <1>5, <1>6 DEF MagistralInit, MagistralInv, PromotedTogether, PromotionsApart

\* One script goes on, or ends.
LEMMA ProceedIs ==
    ASSUME MagistralTypeOK, NEW o \in Admin, NEW step \in ChangeStep, Proceed(o, step)
    PROVE  /\ change' \in [Admin -> ChangeRec]
           /\ change' = [change EXCEPT ![o] = [change[o] EXCEPT !.step = step]]
           /\ change'[o] = [change[o] EXCEPT !.step = step]
           /\ change'[o].step = step /\ change'[o].had = change[o].had
           /\ change'[o].wrote = change[o].wrote /\ change'[o].late = change[o].late
           /\ \A p \in Admin \ {o} : change'[p] = change[p]
  <1>1. change \in [Admin -> ChangeRec]
    BY DEF MagistralTypeOK, ChangeRec
  <1>2. [change[o] EXCEPT !.step = step] \in ChangeRec
    BY <1>1 DEF ChangeRec
  <1> QED
    BY <1>1, <1>2 DEF Proceed, ChangeRec

LEMMA ChangeEndsIs ==
    ASSUME MagistralTypeOK, NEW o \in Admin, ChangeEnds(o)
    PROVE  /\ change' \in [Admin -> ChangeRec] /\ change' = [change EXCEPT ![o] = NoChange]
           /\ change'[o] = NoChange /\ change'[o].step = "idle" /\ ~change'[o].wrote
           /\ \A p \in Admin \ {o} : change'[p] = change[p]
  BY DEF MagistralTypeOK, ChangeRec, ChangeEnds, NoChange, ChangeStep, Served

LEMMA LateIs ==
    ASSUME MagistralTypeOK, change' = Late
    PROVE  /\ change' \in [Admin -> ChangeRec]
           /\ \A o \in Admin :
                 /\ change'[o].step = change[o].step /\ change'[o].had = change[o].had
                 /\ change'[o].wrote = change[o].wrote
                 /\ Steps(o, "append") => change'[o].late
  <1>1. ASSUME NEW o \in Admin
        PROVE  /\ [change[o] EXCEPT !.late = @ \/ Steps(o, "append")] \in ChangeRec
               /\ change'[o] = [change[o] EXCEPT !.late = @ \/ Steps(o, "append")]
    BY DEF MagistralTypeOK, ChangeRec, Late
  <1>2. change \in [Admin -> ChangeRec]
    BY DEF MagistralTypeOK, ChangeRec
  <1> QED
    BY <1>1, <1>2 DEF Late, ChangeRec

LEMMA PickTokenIs ==
    ASSUME MagistralTypeOK, NEW o \in Admin, PickToken(o), ~(authority = 0 /\ keyInForce = 0)
    PROVE  LET wrote == authority # 0 /\ keyInForce = 0 IN
           /\ change' \in [Admin -> ChangeRec]
           /\ change'[o].step = "append" /\ change'[o].wrote = wrote /\ ~change'[o].late
           /\ \A p \in Admin \ {o} : change'[p] = change[p]
           /\ append' = IF wrote THEN authority ELSE append
           /\ leftover' = (leftover /\ ~wrote)
  <1> DEFINE wrote == authority # 0 /\ keyInForce = 0
             a == [change[o] EXCEPT !.step = "append"]
             b == [a EXCEPT !.wrote = wrote]
             c == [b EXCEPT !.late = FALSE]
  <1>1. change \in [Admin -> ChangeRec]
    BY DEF MagistralTypeOK, ChangeRec
  <1>2. a \in ChangeRec /\ a.step = "append"
    BY <1>1 DEF ChangeRec, ChangeStep
  <1>3. wrote \in BOOLEAN
    BY DEF MagistralTypeOK
  <1>4. c \in ChangeRec /\ c.step = "append" /\ c.wrote = wrote /\ ~c.late
    <2> HIDE DEF a, wrote
    <2> QED BY <1>2, <1>3 DEF ChangeRec
  <1>5. change' = [change EXCEPT ![o] = c]
    BY <1>1 DEF PickToken, ChangeRec
  <1>6. change'[o] = c /\ \A p \in Admin \ {o} : change'[p] = change[p]
    <2> HIDE DEF c
    <2> QED BY <1>1, <1>5
  <1>7. change' \in [Admin -> ChangeRec]
    <2> HIDE DEF c
    <2> QED BY <1>1, <1>4, <1>5
  <1>8. append' = (IF wrote THEN authority ELSE append) /\ leftover' = (leftover /\ ~wrote)
    BY DEF PickToken
  <1> HIDE DEF c, wrote
  <1> QED
    BY <1>4, <1>6, <1>7, <1>8 DEF wrote

\* The steps of a script that only bring it to another step.
LEMMA MagistralTypeStep == MagistralTypeOK /\ [MagistralNext]_hostChangeVars => MagistralTypeOK'
  <1> SUFFICES ASSUME MagistralTypeOK, [MagistralNext]_hostChangeVars PROVE MagistralTypeOK'
    OBVIOUS
  <1> DEFINE RestOK ==
        /\ authority' \in 0 .. MaxIssue /\ keyInForce' \in 0 .. MaxIssue /\ append' \in 0 .. MaxIssue
        /\ mapped' \in BOOLEAN /\ strayed' \in BOOLEAN /\ leftover' \in BOOLEAN
        /\ dropins' \subseteq Served /\ units' \subseteq Served /\ running' \subseteq Served
        /\ changes' \in 0 .. MaxChange
  <1>0. /\ authority \in 0 .. MaxIssue /\ keyInForce \in 0 .. MaxIssue /\ append \in 0 .. MaxIssue
        /\ mapped \in BOOLEAN /\ strayed \in BOOLEAN /\ leftover \in BOOLEAN
        /\ dropins \subseteq Served /\ units \subseteq Served /\ running \subseteq Served
        /\ changes \in 0 .. MaxChange /\ change \in [Admin -> ChangeRec]
        /\ MaxIssue \in Nat /\ MaxChange \in Nat
    BY MagistralAssumption DEF MagistralTypeOK, ChangeRec
  <1>1. SUFFICES RestOK /\ change' \in [Admin -> ChangeRec]
    BY DEF MagistralTypeOK, ChangeRec
  <1>2. CASE UNCHANGED hostChangeVars
    BY <1>0, <1>2 DEF hostChangeVars, keyVars, dropinVars
  <1>3. CASE IssueKey
    BY <1>0, <1>3, LateIs DEF IssueKey, dropinVars
  <1>4. CASE RollOut
    BY <1>0, <1>4, LateIs DEF RollOut, dropinVars
  <1>5. ASSUME NEW o \in Admin,
               InstallMap(o) \/ AppendToken(o) \/ VerifyMap(o) \/ ChangeDies(o)
        PROVE  RestOK /\ change' \in [Admin -> ChangeRec]
    <2>1. {"token", "remap"} \subseteq ChangeStep
      BY DEF ChangeStep
    <2>2. Proceed(o, "token") \/ Proceed(o, "remap") \/ ChangeEnds(o)
      BY <1>5 DEF InstallMap, AppendToken, VerifyMap, ChangeDies
    <2>3. change' \in [Admin -> ChangeRec]
      BY <2>1, <2>2, ProceedIs, ChangeEndsIs
    <2>4. CASE InstallMap(o) \/ VerifyMap(o)
      <3>1. changes' \in 0 .. MaxChange
        BY <1>0, <2>4 DEF InstallMap, VerifyMap, BeginChange
      <3>3. mapped' \in BOOLEAN
        BY <1>0, <2>4, Zenon DEF InstallMap, VerifyMap
      <3>2. UNCHANGED <<authority, keyInForce, append, leftover, dropins, units, running, strayed>>
        BY <2>4 DEF InstallMap, VerifyMap, keyVars, dropinVars
      <3> QED
        BY <1>0, <2>3, <3>1, <3>2, <3>3
    <2>5. CASE AppendToken(o)
      <3>1. /\ keyInForce' \in 0 .. MaxIssue /\ append' \in 0 .. MaxIssue
        BY <1>0, <2>5 DEF AppendToken, Appended
      <3>3. leftover' \in BOOLEAN
        BY <2>5, Zenon DEF AppendToken
      <3>2. UNCHANGED <<authority, mapped, dropins, units, running, changes, strayed>>
        BY <2>5 DEF AppendToken, dropinVars
      <3> QED
        BY <1>0, <2>3, <3>1, <3>2, <3>3
    <2>6. CASE ChangeDies(o)
      <3>1. strayed' \in BOOLEAN /\ leftover' \in BOOLEAN
        BY <1>0, <2>6 DEF ChangeDies, Promoting, Steps, ChangeRec
      <3> QED
        BY <1>0, <2>3, <2>6, <3>1 DEF ChangeDies, dropinVars
    <2> QED
      BY <1>5, <2>4, <2>5, <2>6
  <1>6. ASSUME NEW o \in Admin, PickToken(o)
        PROVE  RestOK /\ change' \in [Admin -> ChangeRec]
    <2>1. CASE authority = 0 /\ keyInForce = 0
      BY <1>0, <1>6, <2>1, ChangeEndsIs DEF PickToken, dropinVars
    <2>2. CASE ~(authority = 0 /\ keyInForce = 0)
      BY <1>0, <1>6, <2>2, PickTokenIs DEF PickToken, dropinVars
    <2> QED
      BY <2>1, <2>2
  <1>7. ASSUME NEW o \in Admin, RestartMapped(o) \/ PromoteMagistral(o) \/ PromoteGuide(o)
                                \/ DemoteMagistral(o) \/ DemoteGuide(o)
        PROVE  RestOK /\ change' \in [Admin -> ChangeRec]
    <2>1. {"verify", "answer", "undrop", "unguide"} \subseteq ChangeStep
      BY DEF ChangeStep
    <2>2. \/ \E step \in {"verify", "answer", "undrop", "unguide"} : Proceed(o, step)
          \/ ChangeEnds(o)
      BY <1>7 DEF RestartMapped, PromoteMagistral, PromoteGuide, DemoteMagistral, DemoteGuide
    <2>3. change' \in [Admin -> ChangeRec]
      BY <2>1, <2>2, ProceedIs, ChangeEndsIs
    <2>4. running' \subseteq Served
      BY <1>0, <1>7 DEF RestartMapped, PromoteMagistral, PromoteGuide, DemoteMagistral, DemoteGuide,
         RestartServices
    <2>5. RestOK
      BY <1>0, <1>7, <2>4 DEF RestartMapped, PromoteMagistral, PromoteGuide, DemoteMagistral,
         DemoteGuide, keyVars
    <2> QED
      BY <2>3, <2>5
  <1>8. ASSUME NEW o \in Admin, SaveDropins(o)
        PROVE  RestOK /\ change' \in [Admin -> ChangeRec]
    <2>1. [NoChange EXCEPT !.step = "drop", !.had = dropins] \in ChangeRec
      BY <1>0 DEF NoChange, ChangeRec, ChangeStep
    <2>2. strayed' \in BOOLEAN
      BY <1>0, <1>8 DEF SaveDropins
    <2> QED
      BY <1>0, <1>8, <2>1, <2>2 DEF SaveDropins, BeginChange, keyVars, dropinVars
  <1>9. ASSUME NEW o \in Admin, WriteDropin(o) \/ WriteGuideDropin(o) \/ LoadDropins(o)
                                \/ AskServiceInfo(o) \/ RestoreDropins(o) \/ UnloadDropins(o)
        PROVE  RestOK /\ change' \in [Admin -> ChangeRec]
    <2>1. {"both", "load", "promote", "guide", "undrop", "unload", "demote"} \subseteq ChangeStep
      BY DEF ChangeStep
    <2>2. \E step \in {"both", "load", "promote", "guide", "undrop", "unload", "demote"} :
             Proceed(o, step)
      BY <1>9 DEF WriteDropin, WriteGuideDropin, LoadDropins, AskServiceInfo, RestoreDropins,
         UnloadDropins
    <2>3. change' \in [Admin -> ChangeRec]
      BY <2>1, <2>2, ProceedIs
    <2>4. change[o].had \subseteq Served
      BY <1>0 DEF ChangeRec
    <2>5. RestOK
      BY <1>0, <1>9, <2>4 DEF WriteDropin, WriteGuideDropin, LoadDropins, AskServiceInfo,
         RestoreDropins, UnloadDropins, keyVars, dropinVars, Served
    <2> QED
      BY <2>3, <2>5
  <1> HIDE DEF RestOK
  <1> QED
    BY <1>2, <1>3, <1>4, <1>5, <1>6, <1>7, <1>8, <1>9 DEF MagistralNext

\* Of what the key in force rests on: a script that is neither setting the
\* key aside nor appending it does not touch it.
LEMMA AppendTrueStep ==
  MagistralTypeOK /\ AppendTrue /\ [MagistralNext]_hostChangeVars => AppendTrue'
  <1> SUFFICES ASSUME MagistralTypeOK, AppendTrue, [MagistralNext]_hostChangeVars
               PROVE  AppendTrue'
    OBVIOUS
  <1>0. /\ authority \in Nat /\ keyInForce \in Nat /\ append \in Nat
        /\ change \in [Admin -> ChangeRec]
    BY MagistralAssumption DEF MagistralTypeOK, ChangeRec
  <1>1. ASSUME UNCHANGED <<authority, keyInForce, append>>, leftover => leftover',
               \A o \in Admin : Steps(o, "append")' =>
                    Steps(o, "append") /\ change'[o].wrote = change[o].wrote
                                       /\ change'[o].late = change[o].late,
               \A o \in Admin : Steps(o, "append") /\ change[o].wrote =>
                    leftover' \/ (Steps(o, "append")' /\ change'[o].wrote)
        PROVE  AppendTrue'
    BY <1>1 DEF AppendTrue
  <1>2. CASE UNCHANGED hostChangeVars
    BY <1>1, <1>2 DEF hostChangeVars, keyVars, Steps
  <1>3. CASE IssueKey
    <2>1. \A o \in Admin : /\ change'[o].step = change[o].step /\ change'[o].wrote = change[o].wrote
                           /\ Steps(o, "append") => change'[o].late
      BY <1>3, LateIs DEF IssueKey
    <2>2. /\ authority' = authority + 1 /\ UNCHANGED <<keyInForce, append, leftover>>
      BY <1>3 DEF IssueKey
    <2> QED
      BY <1>0, <2>1, <2>2 DEF AppendTrue, Steps
  <1>4. CASE RollOut
    <2>1. \A o \in Admin : /\ change'[o].step = change[o].step /\ change'[o].wrote = change[o].wrote
                           /\ Steps(o, "append") => change'[o].late
      BY <1>4, LateIs DEF RollOut
    <2>2. /\ keyInForce' = authority /\ UNCHANGED <<authority, append, leftover>>
      BY <1>4 DEF RollOut
    <2> QED
      BY <1>0, <2>1, <2>2 DEF AppendTrue, Steps
  <1>5. ASSUME NEW o \in Admin, PickToken(o) PROVE AppendTrue'
    <2>1. CASE authority = 0 /\ keyInForce = 0
      <3>1. Steps(o, "token") /\ ChangeEnds(o) /\ UNCHANGED <<keyInForce, authority, append, leftover>>
        BY <1>5, <2>1 DEF PickToken
      <3> QED
        BY <1>1, <3>1, ChangeEndsIs DEF Steps
    <2>2. CASE ~(authority = 0 /\ keyInForce = 0)
      <3>1. UNCHANGED <<keyInForce, authority>> /\ Steps(o, "token")
        BY <1>5 DEF PickToken
      <3> DEFINE wrote == authority # 0 /\ keyInForce = 0
      <3>2. /\ change'[o].step = "append" /\ change'[o].wrote = wrote /\ ~change'[o].late
            /\ \A p \in Admin \ {o} : change'[p] = change[p]
            /\ append' = IF wrote THEN authority ELSE append
            /\ leftover' = (leftover /\ ~wrote)
        BY <1>5, <2>2, PickTokenIs
      <3>3. CASE wrote
        <4>1. append' = authority /\ change'[o].wrote
          BY <3>2, <3>3
        <4>2. keyInForce' <= authority' /\ append' <= authority'
          BY <1>0, <3>1, <4>1 DEF AppendTrue
        <4> HIDE DEF wrote
        <4> QED
          BY <3>1, <3>2, <4>1, <4>2 DEF AppendTrue, Steps
      <3>4. CASE ~wrote
        <4>1. append' = append /\ (leftover' <=> leftover) /\ ~change'[o].wrote
          BY <3>2, <3>4
        <4> HIDE DEF wrote
        <4> QED
          BY <1>0, <3>1, <3>2, <4>1 DEF AppendTrue, Steps
      <3> QED
        BY <3>3, <3>4
    <2> QED
      BY <2>1, <2>2
  <1>6. ASSUME NEW o \in Admin, AppendToken(o) PROVE AppendTrue'
    <2>1. "remap" \in ChangeStep /\ Proceed(o, "remap")
      BY <1>6 DEF ChangeStep, AppendToken
    <2>2. /\ append' = 0 /\ authority' = authority
          /\ keyInForce' = IF append = 0 THEN keyInForce ELSE append
      BY <1>6 DEF AppendToken, Appended
    <2> QED
      BY <1>0, <2>1, <2>2 DEF AppendTrue
  <1>7. ASSUME NEW o \in Admin, ChangeDies(o) PROVE AppendTrue'
    <2>1. ChangeEnds(o) /\ leftover' = (leftover \/ (Steps(o, "append") /\ change[o].wrote))
          /\ UNCHANGED <<authority, keyInForce, append>>
      BY <1>7 DEF ChangeDies
    <2> QED
      BY <1>1, <2>1, ChangeEndsIs DEF Steps
  <1>8. ASSUME NEW o \in Admin, ~Steps(o, "append"), UNCHANGED keyVars,
               \/ \E step \in ChangeStep \ {"append"} : Proceed(o, step)
               \/ ChangeEnds(o)
               \/ change' = [change EXCEPT ![o] = [NoChange EXCEPT !.step = "drop", !.had = dropins]]
        PROVE  AppendTrue'
    <2>1. ~Steps(o, "append")' /\ \A p \in Admin \ {o} : change'[p] = change[p]
      <3>1. ASSUME NEW step \in ChangeStep \ {"append"}, Proceed(o, step)
            PROVE  change'[o].step # "append" /\ \A p \in Admin \ {o} : change'[p] = change[p]
        BY <3>1, ProceedIs
      <3>2. CASE ChangeEnds(o)
        BY <3>2, ChangeEndsIs DEF Steps
      <3>3. CASE change' = [change EXCEPT ![o] = [NoChange EXCEPT !.step = "drop", !.had = dropins]]
        BY <1>0, <3>3 DEF Steps, NoChange
      <3> QED
        BY <1>8, <3>1, <3>2, <3>3 DEF Steps
    <2> QED
      BY <1>1, <1>8, <2>1 DEF keyVars, Steps
  <1>9. ASSUME NEW o \in Admin,
               \/ InstallMap(o) \/ RestartMapped(o) \/ VerifyMap(o)
               \/ SaveDropins(o) \/ WriteDropin(o) \/ WriteGuideDropin(o) \/ LoadDropins(o)
               \/ PromoteMagistral(o) \/ AskServiceInfo(o) \/ PromoteGuide(o)
               \/ RestoreDropins(o) \/ UnloadDropins(o) \/ DemoteMagistral(o) \/ DemoteGuide(o)
        PROVE  AppendTrue'
    <2>1. {"token", "verify", "both", "load", "promote", "answer", "guide", "undrop", "unload",
           "demote", "unguide"} \subseteq ChangeStep \ {"append"}
      BY DEF ChangeStep
    <2>2. ~Steps(o, "append") /\ UNCHANGED keyVars
      BY <1>9 DEF InstallMap, RestartMapped, VerifyMap, SaveDropins, WriteDropin, WriteGuideDropin,
         LoadDropins, PromoteMagistral, AskServiceInfo, PromoteGuide, RestoreDropins, UnloadDropins,
         DemoteMagistral, DemoteGuide, BeginChange, Steps
    <2>3. \/ \E step \in {"token", "verify", "both", "load", "promote", "answer", "guide", "undrop",
                          "unload", "demote", "unguide"} : Proceed(o, step)
          \/ ChangeEnds(o)
          \/ change' = [change EXCEPT ![o] = [NoChange EXCEPT !.step = "drop", !.had = dropins]]
      BY <1>9 DEF InstallMap, RestartMapped, VerifyMap, SaveDropins, WriteDropin, WriteGuideDropin,
         LoadDropins, PromoteMagistral, AskServiceInfo, PromoteGuide, RestoreDropins, UnloadDropins,
         DemoteMagistral, DemoteGuide
    <2> QED
      BY <1>8, <2>1, <2>2, <2>3
  <1> QED
    BY <1>2, <1>3, <1>4, <1>5, <1>6, <1>7, <1>9 DEF MagistralNext

\* A step that is not of a promotion: at most services are restarted with
\* what is loaded, and promotions stay where they are.
LEMMA RestartsHarmless ==
    ASSUME PromotedTogether, PromotionsApart, running \subseteq Served,
           UNCHANGED <<dropins, units, strayed>>,
           NEW S \in SUBSET Served, running' = (running \ S) \cup (units \cap S),
           \A o \in Admin : \/ change'[o].step = change[o].step /\ change'[o].had = change[o].had
                            \/ ~Promoting(o) /\ ~Promoting(o)'
    PROVE  PromotedTogether' /\ PromotionsApart'
  <1>1. \A o \in Admin : Promoting(o)' <=> Promoting(o)
    BY DEF Promoting
  <1>2. PromotedTogether'
    BY <1>1 DEF PromotedTogether
  <1>3. ASSUME ~strayed', NEW o \in Admin, Promoting(o)'
        PROVE  /\ PromotionIs(change'[o], dropins', units', running')
               /\ \A p \in Admin \ {o} : ~Promoting(p)'
    <2>1. PromotionIs(change[o], dropins, units, running) /\ \A p \in Admin \ {o} : ~Promoting(p)
      BY <1>1, <1>3 DEF PromotionsApart
    <2>2. change'[o].step = change[o].step /\ change'[o].had = change[o].had
      BY <1>3
    <2>3. running = units => running' = units
      BY <1>3
    <2>4. \A s \in units : s \in running => s \in running'
      BY <1>3
    <2>5. \A s \in running' : s \in running \/ s \in units
      BY <1>3
    <2>6. PromotionIs(change'[o], dropins', units', running')
      BY <2>1, <2>2, <2>3, <2>4, <2>5 DEF PromotionIs, Served
    <2> QED
      BY <1>1, <2>1, <2>6
  <1> QED
    BY <1>2, <1>3 DEF PromotionsApart

\* A step of one promotion, which leads to another step x of it or ends it.
LEMMA PromotionGoesOn ==
    ASSUME change \in [Admin -> ChangeRec], NEW o \in Admin, NEW x,
           change'[o] = x, \A p \in Admin \ {o} : change'[p] = change[p],
           ~strayed' =>
              /\ \A p \in Admin \ {o} : ~Promoting(p)
              /\ x.step \in PromotionStep => PromotionIs(x, dropins', units', running')
              /\ x.step \notin PromotionStep =>
                    dropins' \in {{}, Served} /\ units' = dropins' /\ running' = dropins'
    PROVE  PromotedTogether' /\ PromotionsApart'
  <1>1. Promoting(o)' <=> x.step \in PromotionStep
    BY DEF Promoting, PromotionStep
  <1>2. \A p \in Admin \ {o} : Promoting(p)' <=> Promoting(p)
    BY DEF Promoting
  <1> QED
    BY <1>1, <1>2 DEF PromotedTogether, PromotionsApart

LEMMA PromotionsStep ==
  /\ MagistralTypeOK /\ PromotedTogether /\ PromotionsApart /\ [MagistralNext]_hostChangeVars
  => PromotedTogether' /\ PromotionsApart'
  <1> SUFFICES ASSUME MagistralTypeOK, PromotedTogether, PromotionsApart,
                      [MagistralNext]_hostChangeVars
               PROVE  PromotedTogether' /\ PromotionsApart'
    OBVIOUS
  <1>0. /\ change \in [Admin -> ChangeRec] /\ running \subseteq Served /\ units \subseteq Served
        /\ {} \in SUBSET Served /\ {"magistral"} \in SUBSET Served /\ Served \in SUBSET Served
    BY DEF MagistralTypeOK, ChangeRec, Served
  <1>1. ASSUME UNCHANGED <<dropinVars, strayed>>,
               \A o \in Admin : \/ change'[o].step = change[o].step /\ change'[o].had = change[o].had
                                \/ ~Promoting(o) /\ ~Promoting(o)'
        PROVE  PromotedTogether' /\ PromotionsApart'
    <2>1. running' = (running \ {}) \cup (units \cap {})
      BY <1>1 DEF dropinVars
    <2> QED
      BY <1>0, <1>1, <2>1, RestartsHarmless DEF dropinVars
  <1>2. CASE UNCHANGED hostChangeVars
    BY <1>1, <1>2 DEF hostChangeVars
  <1>3. CASE IssueKey
    BY <1>1, <1>3, LateIs DEF IssueKey
  <1>4. CASE RollOut
    BY <1>1, <1>4, LateIs DEF RollOut
  <1>5. ASSUME NEW o \in Admin, InstallMap(o) \/ PickToken(o) \/ AppendToken(o) \/ VerifyMap(o)
        PROVE  PromotedTogether' /\ PromotionsApart'
    <2>1. UNCHANGED <<dropinVars, strayed>> /\ ~Promoting(o)
      BY <1>5 DEF InstallMap, PickToken, AppendToken, VerifyMap, BeginChange, Promoting, Steps
    <2>2. change'[o].step \in {"token", "append", "remap", "idle"}
          /\ \A p \in Admin \ {o} : change'[p] = change[p]
      <3>1. {"token", "remap"} \subseteq ChangeStep
        BY DEF ChangeStep
      <3>2. CASE PickToken(o)
        BY <3>2, PickTokenIs, ChangeEndsIs DEF PickToken
      <3>3. CASE ~PickToken(o)
        <4>1. Proceed(o, "token") \/ Proceed(o, "remap") \/ ChangeEnds(o)
          BY <1>5, <3>3 DEF InstallMap, AppendToken, VerifyMap
        <4> QED
          BY <3>1, <4>1, ProceedIs, ChangeEndsIs
      <3> QED
        BY <3>2, <3>3
    <2> QED
      BY <1>1, <2>1, <2>2 DEF Promoting
  <1>6. ASSUME NEW o \in Admin, RestartMapped(o)
        PROVE  PromotedTogether' /\ PromotionsApart'
    <2>1. "verify" \in ChangeStep /\ (Proceed(o, "verify") \/ ChangeEnds(o)) /\ ~Promoting(o)
      BY <1>6 DEF RestartMapped, ChangeStep, Promoting, Steps
    <2>2. change'[o].step \in {"verify", "idle"} /\ \A p \in Admin \ {o} : change'[p] = change[p]
      BY <2>1, ProceedIs, ChangeEndsIs
    <2>3. PICK S \in SUBSET Served : running' = (running \ S) \cup (units \cap S)
      <3>1. \/ running' = (running \ {"magistral"}) \cup (units \cap {"magistral"})
            \/ running' = (running \ Served) \cup (units \cap Served)
            \/ running' = (running \ {}) \cup (units \cap {})
        BY <1>6 DEF RestartMapped, RestartServices
      <3> QED
        BY <1>0, <3>1
    <2>4. UNCHANGED <<dropins, units, strayed>>
      BY <1>6 DEF RestartMapped
    <2> QED
      BY <1>0, <2>1, <2>2, <2>3, <2>4, RestartsHarmless DEF Promoting
  <1>7. ASSUME NEW o \in Admin, ChangeDies(o)
        PROVE  PromotedTogether' /\ PromotionsApart'
    <2>1. UNCHANGED dropinVars /\ strayed' = (strayed \/ Promoting(o)) /\ ChangeEnds(o)
      BY <1>7 DEF ChangeDies
    <2>2. change'[o].step = "idle" /\ \A p \in Admin \ {o} : change'[p] = change[p]
      BY <2>1, ChangeEndsIs
    <2>3. CASE Promoting(o)
      BY <2>1, <2>3 DEF PromotedTogether, PromotionsApart
    <2>4. CASE ~Promoting(o)
      <3>1. strayed' <=> strayed
        BY <2>1, <2>4
      <3>2. \A p \in Admin : (Promoting(p)' <=> Promoting(p)) /\ (Promoting(p) => change'[p] = change[p])
        BY <2>2, <2>4 DEF Promoting
      <3> QED
        BY <2>1, <3>1, <3>2 DEF dropinVars, PromotedTogether, PromotionsApart
    <2> QED
      BY <2>3, <2>4
  <1>8. ASSUME NEW o \in Admin, SaveDropins(o)
        PROVE  PromotedTogether' /\ PromotionsApart'
    <2> DEFINE x == [NoChange EXCEPT !.step = "drop", !.had = dropins]
    <2>1. change'[o] = x /\ \A p \in Admin \ {o} : change'[p] = change[p]
      BY <1>0, <1>8 DEF SaveDropins
    <2>2. x.step = "drop" /\ x.had = dropins
      BY DEF NoChange
    <2>3. ~strayed' => ~strayed /\ \A p \in Admin : ~Promoting(p)
      BY <1>8 DEF SaveDropins
    <2>4. ~strayed' => dropins \in {{}, Served} /\ units = dropins /\ running = dropins
      BY <2>3 DEF PromotedTogether
    <2>5. UNCHANGED dropinVars
      BY <1>8 DEF SaveDropins
    <2> HIDE DEF x
    <2>6. ~strayed' => PromotionIs(x, dropins', units', running') /\ x.step \in PromotionStep
      BY <2>2, <2>4, <2>5 DEF PromotionIs, PromotionStep, dropinVars
    <2> QED
      BY <1>0, <2>1, <2>3, <2>6, PromotionGoesOn
  <1>9. ASSUME NEW o \in Admin, Promoting(o), NEW step \in ChangeStep, Proceed(o, step),
               UNCHANGED strayed,
               PromotionIs(change[o], dropins, units, running) =>
                  IF step \in PromotionStep
                  THEN PromotionIs([change[o] EXCEPT !.step = step], dropins', units', running')
                  ELSE dropins' \in {{}, Served} /\ units' = dropins' /\ running' = dropins'
        PROVE  PromotedTogether' /\ PromotionsApart'
    <2>1. ~strayed => /\ PromotionIs(change[o], dropins, units, running)
                      /\ \A p \in Admin \ {o} : ~Promoting(p)
      BY <1>9 DEF PromotionsApart
    <2>2. /\ change'[o] = [change[o] EXCEPT !.step = step] /\ change'[o].step = step
          /\ \A p \in Admin \ {o} : change'[p] = change[p]
      BY <1>9, ProceedIs
    <2> QED
      BY <1>0, <1>9, <2>1, <2>2, PromotionGoesOn
  <1>10. ASSUME NEW o \in Admin, Promoting(o), ChangeEnds(o),
                strayed' \/ (UNCHANGED strayed /\ (PromotionIs(change[o], dropins, units, running) =>
                   dropins' \in {{}, Served} /\ units' = dropins' /\ running' = dropins'))
        PROVE  PromotedTogether' /\ PromotionsApart'
    <2>1. ~strayed => /\ PromotionIs(change[o], dropins, units, running)
                      /\ \A p \in Admin \ {o} : ~Promoting(p)
      BY <1>10 DEF PromotionsApart
    <2>2. /\ change'[o].step = "idle" /\ "idle" \notin PromotionStep
          /\ \A p \in Admin \ {o} : change'[p] = change[p]
      BY <1>10, ChangeEndsIs DEF PromotionStep
    <2> QED
      BY <1>0, <1>10, <2>1, <2>2, PromotionGoesOn
  <1>11. ASSUME NEW o \in Admin, NEW s \in PromotionStep
         PROVE  LET x == [change[o] EXCEPT !.step = s] IN x.step = s /\ x.had = change[o].had
    BY <1>0 DEF ChangeRec
  <1>12. PromotionStep \subseteq ChangeStep
    BY DEF PromotionStep, ChangeStep
  <1>13. ASSUME NEW o \in Admin, WriteDropin(o) \/ WriteGuideDropin(o) \/ LoadDropins(o)
         PROVE  PromotedTogether' /\ PromotionsApart'
    <2>1. CASE WriteDropin(o)
      <3>1. /\ Proceed(o, "both") /\ UNCHANGED strayed /\ change[o].step = "drop"
            /\ dropins' = dropins \cup {"magistral"} /\ UNCHANGED <<units, running>>
        BY <2>1 DEF WriteDropin, Steps
      <3>2. Promoting(o) /\ "both" \in PromotionStep
        BY <3>1 DEF Promoting, PromotionStep
      <3> QED
        BY <1>9, <1>11, <1>12, <3>1, <3>2 DEF PromotionIs
    <2>2. CASE WriteGuideDropin(o)
      <3>1. /\ Proceed(o, "load") /\ UNCHANGED strayed /\ change[o].step = "both"
            /\ dropins' = dropins \cup {"guide"} /\ UNCHANGED <<units, running>>
        BY <2>2 DEF WriteGuideDropin, Steps
      <3>2. Promoting(o) /\ "load" \in PromotionStep
        BY <3>1 DEF Promoting, PromotionStep
      <3>3. PromotionIs(change[o], dropins, units, running) => dropins' = Served
        BY <3>1 DEF PromotionIs, Served
      <3> QED
        BY <1>9, <1>11, <1>12, <3>1, <3>2, <3>3 DEF PromotionIs
    <2>3. CASE LoadDropins(o)
      <3>1. /\ Proceed(o, "promote") /\ UNCHANGED strayed /\ change[o].step = "load"
            /\ units' = dropins /\ UNCHANGED <<dropins, running>>
        BY <2>3 DEF LoadDropins, Steps
      <3>2. Promoting(o) /\ "promote" \in PromotionStep
        BY <3>1 DEF Promoting, PromotionStep
      <3> QED
        BY <1>9, <1>11, <1>12, <3>1, <3>2 DEF PromotionIs
    <2> QED
      BY <1>13, <2>1, <2>2, <2>3
  <1>14. ASSUME NEW o \in Admin, PromoteMagistral(o) \/ AskServiceInfo(o)
         PROVE  PromotedTogether' /\ PromotionsApart'
    <2>1. CASE PromoteMagistral(o)
      <3>1. /\ Proceed(o, "answer") \/ Proceed(o, "undrop")
            /\ UNCHANGED strayed /\ change[o].step = "promote" /\ UNCHANGED <<dropins, units>>
            /\ running' = (running \ {"magistral"}) \cup (units \cap {"magistral"})
        BY <2>1 DEF PromoteMagistral, Steps, RestartServices
      <3>2. Promoting(o) /\ "answer" \in PromotionStep /\ "undrop" \in PromotionStep
        BY <3>1 DEF Promoting, PromotionStep
      <3>3. PromotionIs(change[o], dropins, units, running) => "magistral" \in running'
        BY <3>1 DEF PromotionIs, Served
      <3> QED
        BY <1>9, <1>11, <1>12, <3>1, <3>2, <3>3 DEF PromotionIs
    <2>2. CASE AskServiceInfo(o)
      <3>1. /\ Proceed(o, "guide") \/ Proceed(o, "undrop")
            /\ UNCHANGED strayed /\ change[o].step = "answer"
            /\ UNCHANGED <<dropins, units, running>>
        BY <2>2 DEF AskServiceInfo, Steps, dropinVars
      <3>2. Promoting(o) /\ "guide" \in PromotionStep /\ "undrop" \in PromotionStep
        BY <3>1 DEF Promoting, PromotionStep
      <3> QED
        BY <1>9, <1>11, <1>12, <3>1, <3>2 DEF PromotionIs
    <2> QED
      BY <1>14, <2>1, <2>2
  <1>15. ASSUME NEW o \in Admin, PromoteGuide(o)
         PROVE  PromotedTogether' /\ PromotionsApart'
    <2>1. /\ Promoting(o) /\ change[o].step = "guide" /\ UNCHANGED <<dropins, units>>
          /\ "undrop" \in PromotionStep
      BY <1>15 DEF PromoteGuide, Promoting, Steps, PromotionStep
    <2>2. CASE ~UNCHANGED running \/ ~strayed'
      <3>1. /\ running' = (running \ {"guide"}) \cup (units \cap {"guide"}) /\ UNCHANGED strayed
            /\ ChangeEnds(o) \/ Proceed(o, "undrop")
        BY <1>15, <2>2 DEF PromoteGuide, RestartServices
      <3>2. PromotionIs(change[o], dropins, units, running)
               => dropins' = Served /\ units' = Served /\ running' = Served
        BY <1>0, <2>1, <3>1 DEF PromotionIs, Served
      <3>3. CASE ChangeEnds(o)
        BY <1>10, <2>1, <3>1, <3>2, <3>3
      <3>4. CASE Proceed(o, "undrop")
        BY <1>9, <1>11, <1>12, <2>1, <3>1, <3>2, <3>4 DEF PromotionIs
      <3> QED
        BY <3>1, <3>3, <3>4
    <2>3. CASE strayed'
      BY <2>3 DEF PromotedTogether, PromotionsApart
    <2> QED
      BY <2>2, <2>3
  <1>16. ASSUME NEW o \in Admin, RestoreDropins(o) \/ UnloadDropins(o) \/ DemoteMagistral(o)
         PROVE  PromotedTogether' /\ PromotionsApart'
    <2>1. CASE RestoreDropins(o)
      <3>1. /\ Proceed(o, "unload") /\ UNCHANGED strayed /\ change[o].step = "undrop"
            /\ dropins' = change[o].had /\ UNCHANGED <<units, running>>
        BY <2>1 DEF RestoreDropins, Steps
      <3>2. Promoting(o) /\ "unload" \in PromotionStep
        BY <3>1 DEF Promoting, PromotionStep
      <3> QED
        BY <1>9, <1>11, <1>12, <3>1, <3>2 DEF PromotionIs
    <2>2. CASE UnloadDropins(o)
      <3>1. /\ Proceed(o, "demote") /\ UNCHANGED strayed /\ change[o].step = "unload"
            /\ units' = dropins /\ UNCHANGED <<dropins, running>>
        BY <2>2 DEF UnloadDropins, Steps
      <3>2. Promoting(o) /\ "demote" \in PromotionStep
        BY <3>1 DEF Promoting, PromotionStep
      <3> QED
        BY <1>9, <1>11, <1>12, <3>1, <3>2 DEF PromotionIs
    <2>3. CASE DemoteMagistral(o)
      <3>1. /\ Proceed(o, "unguide") /\ UNCHANGED strayed /\ change[o].step = "demote"
            /\ UNCHANGED <<dropins, units>>
            /\ running' = (running \ {"magistral"}) \cup (units \cap {"magistral"})
        BY <2>3 DEF DemoteMagistral, Steps, RestartServices
      <3>2. Promoting(o) /\ "unguide" \in PromotionStep
        BY <3>1 DEF Promoting, PromotionStep
      <3>3. PromotionIs(change[o], dropins, units, running) =>
               ("magistral" \in running' <=> "magistral" \in change[o].had)
        BY <3>1 DEF PromotionIs
      <3> QED
        BY <1>9, <1>11, <1>12, <3>1, <3>2, <3>3 DEF PromotionIs
    <2> QED
      BY <1>16, <2>1, <2>2, <2>3
  <1>17. ASSUME NEW o \in Admin, DemoteGuide(o)
         PROVE  PromotedTogether' /\ PromotionsApart'
    <2>1. /\ ChangeEnds(o) /\ UNCHANGED strayed /\ change[o].step = "unguide"
          /\ UNCHANGED <<dropins, units>>
          /\ running' = (running \ {"guide"}) \cup (units \cap {"guide"})
      BY <1>17 DEF DemoteGuide, Steps, RestartServices
    <2>2. Promoting(o)
      BY <2>1 DEF Promoting
    <2>3. PromotionIs(change[o], dropins, units, running) =>
             dropins' \in {{}, Served} /\ units' = dropins' /\ running' = dropins'
      BY <1>0, <2>1 DEF PromotionIs, Served
    <2> QED
      BY <1>10, <2>1, <2>2, <2>3
  <1> QED
    BY <1>2, <1>3, <1>4, <1>5, <1>6, <1>7, <1>8, <1>13, <1>14, <1>15, <1>16, <1>17
    DEF MagistralNext

LEMMA MagistralInvStep == MagistralInv /\ [MagistralNext]_hostChangeVars => MagistralInv'
  BY MagistralTypeStep, AppendTrueStep, PromotionsStep DEF MagistralInv

\* A key comes back to an older one only by a step that appends one.
LEMMA KeyGoesBackStep ==
  MagistralInv /\ [MagistralNext]_hostChangeVars => KeyGoesBackOnlyLate
  <1> SUFFICES ASSUME MagistralInv, [MagistralNext]_hostChangeVars, keyInForce' < keyInForce
               PROVE  \E o \in Admin :
                        /\ AppendToken(o)
                        /\ \/ change[o].late
                           \/ /\ ~change[o].wrote
                              /\ leftover \/ \E p \in Admin : Steps(p, "append") /\ change[p].wrote
    BY DEF KeyGoesBackOnlyLate
  <1>0. authority \in Nat /\ keyInForce \in Nat /\ append \in Nat
    BY MagistralAssumption DEF MagistralInv, MagistralTypeOK
  <1>1. ~RollOut
    BY <1>0 DEF RollOut, MagistralInv, AppendTrue
  <1>2. \E o \in Admin : AppendToken(o)
    <2>1. CASE UNCHANGED keyInForce
      BY <1>0, <2>1
    <2>2. UNCHANGED keyInForce \/ RollOut \/ \E o \in Admin : AppendToken(o)
      BY DEF MagistralNext, hostChangeVars, keyVars, IssueKey, InstallMap, PickToken, RestartMapped,
         VerifyMap, SaveDropins, WriteDropin, WriteGuideDropin, LoadDropins, PromoteMagistral,
         AskServiceInfo, PromoteGuide, RestoreDropins, UnloadDropins, DemoteMagistral, DemoteGuide,
         ChangeDies
    <2> QED
      BY <1>1, <2>1, <2>2
  <1>3. PICK o \in Admin : AppendToken(o)
    BY <1>2
  <1>4. append # 0 /\ append < keyInForce /\ Steps(o, "append")
    BY <1>0, <1>3 DEF AppendToken
  <1>5. change[o].wrote => change[o].late
    BY <1>0, <1>4 DEF MagistralInv, AppendTrue
  <1>6. leftover \/ \E p \in Admin : Steps(p, "append") /\ change[p].wrote
    BY <1>4 DEF MagistralInv, AppendTrue
  <1> QED
    BY <1>3, <1>5, <1>6

\* However many scripts change Magistral at once and wherever they end: the
\* two drop-ins are promoted together or rolled back together, and the key
\* in force never goes back but where a script was late or appended what
\* another had set aside.
THEOREM MagistralStays == MagistralSpec => MagistralKept
  <1>1. MagistralInv => PromotedTogether
    BY DEF MagistralInv
  <1> QED
    BY <1>1, MagistralInvInit, MagistralInvStep, KeyGoesBackStep, PTL
    DEF MagistralSpec, MagistralKept

---------------------------------------------------------------------------
(* Diagnosis.                                                              *)

CycleRec == [on : BOOLEAN, readable : BOOLEAN, todo : SUBSET ProbeKind,
             passed : SUBSET ProbeKind, failed : SUBSET ProbeKind, calm : BOOLEAN]
RowRec == [passed : SUBSET ProbeKind, failed : SUBSET ProbeKind, score : 0 .. 4,
           boot : BOOLEAN, calm : BOOLEAN]
LookStep == {"idle", "mesh", "status", "blackboard", "inox", "ona_status", "ona_drift",
             "verdict", "done"}
LookRec == [step : LookStep, readable : BOOLEAN, laptop : BOOLEAN,
            remote : {"unreached", "sick", "ok"}, face : SUBSET {"guide", "mcp"},
            fresh : BOOLEAN, inox : {"skipped", "fail", "pass"}, status : RowRec \cup {NoBody},
            drift : SUBSET DriftItem, told : BOOLEAN, calm : BOOLEAN, code : 0 .. 3]

DiagnoseTyped ==
    /\ fault \subseteq Fault /\ faults \in 0 .. MaxFault /\ crashes \in 0 .. MaxCrash
    /\ agent \in [phase : {"down", "boot", "serving"}, cycle : CycleRec]
    /\ row \in RowRec /\ latest \in [ProbeKind -> {"none", "pass", "fail"}]
    /\ observer \in LookRec

\* What a probe finds, by what is wrong and whether the agent serves.
Fine(k, serving) ==
    /\ k = "ona" => serving
    /\ k = "guide_semantic" => fault \cap {"guide", "semantic"} = {}
    /\ k = "aggregator" => fault \cap {"aggregator", "sick"} = {}
    /\ k \in {"gateway", "inox"} => k \notin fault

Registered == "registry" \notin fault

\* A result that is of the present state.
ResultTrue(x) ==
    /\ x.passed = {k \in Applicable(Registered) : Fine(k, ~x.boot)}
    /\ x.failed = {k \in Applicable(Registered) : ~Fine(k, ~x.boot)}
    /\ x.score = HealthScore(Registered, x.passed, x.failed)

\* As long as nothing has changed since it began, a cycle's findings are of
\* the present state, and so is its row; the cycle under way is younger than
\* the row. The history holds what the row says.
CycleTrue ==
    LET c == agent.cycle IN
    /\ c.on => agent.phase # "down"
    /\ c.on /\ c.calm =>
          /\ c.readable = Registered
          /\ c.todo \cup c.passed \cup c.failed = Applicable(Registered)
          /\ \A k \in c.passed : Fine(k, agent.phase = "serving")
          /\ \A k \in c.failed : ~Fine(k, agent.phase = "serving")
    /\ c.on /\ row.calm => c.calm
    /\ row.calm => ResultTrue(row)
    /\ \A k \in row.passed \ row.failed : latest[k] = "pass"
    /\ \A k \in row.failed \ row.passed : latest[k] = "fail"

\* What the observer has seen is so as long as it is calm; the agent that
\* gave it its row then still serves, and what that one's drift tells is bad
\* only if something is.
LookTrue ==
    LET o == observer IN
    /\ o.told => o.step \in {"verdict", "done"}
    /\ o.step = "done" => o.code = DiagnoseCode(o)
    /\ o.step \in {"idle", "mesh", "status"} => o.remote = "unreached"
    /\ o.calm /\ o.step \notin {"idle", "mesh", "status"} =>
          /\ o.remote = "ok" <=> fault \cap {"aggregator", "sick"} = {}
          /\ "aggregator" \notin fault => o.face = Face
    /\ o.calm /\ o.status # NoBody =>
          /\ row.calm /\ agent.phase = "serving" /\ ResultTrue(o.status)
          /\ ~o.status.boot => ~row.boot
    /\ o.calm /\ o.told /\ o.status # NoBody /\ ~o.status.boot /\ ~Unsound => ~HasError(o.drift)

\* The inductive invariant of Diagnose.
DiagnoseInv == DiagnoseTyped /\ CycleTrue /\ LookTrue

LEMMA DiagnoseInvInit == DiagnoseInit => DiagnoseInv
  <1> SUFFICES ASSUME DiagnoseInit PROVE DiagnoseInv
    OBVIOUS
  <1>1. fault \subseteq Fault /\ 0 \in 0 .. MaxFault /\ 0 \in 0 .. MaxCrash
    BY DiagnoseAssumption DEF DiagnoseInit
  <1>2. NoCycle \in CycleRec /\ ~NoCycle.on
    BY DEF NoCycle, CycleRec
  <1>3. NoResult \in RowRec /\ ~NoResult.calm /\ NoResult.passed = {} /\ NoResult.failed = {}
    BY DEF NoResult, RowRec
  <1>4. /\ NoLook \in LookRec /\ ~NoLook.told /\ NoLook.step = "idle" /\ NoLook.status = NoBody
        /\ NoLook.remote = "unreached"
    BY DEF NoLook, LookRec, LookStep
  <1>5. DiagnoseTyped
    BY <1>1, <1>2, <1>3, <1>4 DEF DiagnoseInit, DiagnoseTyped
  <1>6. CycleTrue
    BY <1>2, <1>3 DEF DiagnoseInit, CycleTrue
  <1> QED
    BY <1>4, <1>5, <1>6 DEF DiagnoseInit, DiagnoseInv, LookTrue

LEMMA PassesIs ==
    ASSUME NEW k \in ProbeKind
    PROVE  Passes(k) <=> Fine(k, agent.phase = "serving")
  BY DEF Passes, Fine, ProbeKind

\* The score of a result.
LEMMA ScoreIs ==
    ASSUME NEW readable \in BOOLEAN, NEW passed \in SUBSET ProbeKind, NEW failed \in SUBSET ProbeKind,
           NEW score, score = HealthScore(readable, passed, failed)
    PROVE  /\ score \in 0 .. 4
           /\ score > 3 => readable /\ failed = {}
           /\ readable /\ failed = {} => score > 2
           /\ readable /\ failed = {} /\ ~(Cardinality(passed) < 3) => score = 4
  <1>1. Cardinality(passed) \in Nat
    <2>1. IsFiniteSet(ProbeKind)
      <3>1. ProbeKind = {"ona"} \cup {"gateway"} \cup {"inox"} \cup {"guide_semantic"}
                                \cup {"aggregator"}
        BY DEF ProbeKind
      <3>2. IsFiniteSet({"ona"}) /\ IsFiniteSet({"gateway"}) /\ IsFiniteSet({"inox"})
            /\ IsFiniteSet({"guide_semantic"}) /\ IsFiniteSet({"aggregator"})
        BY FS_Singleton
      <3> QED
        BY <3>1, <3>2, FS_Union
    <2>2. IsFiniteSet(passed)
      BY <2>1, FS_Subset
    <2> QED
      BY <2>2, FS_CardinalityType
  <1> QED
    BY <1>1 DEF HealthScore

\* The exit code depends on what was seen only.
LEMMA CodeSame ==
    ASSUME NEW x, NEW y,
           x.readable = y.readable, x.laptop = y.laptop, x.remote = y.remote, x.face = y.face,
           x.fresh = y.fresh, x.inox = y.inox, x.status = y.status, x.drift = y.drift,
           x.told = y.told
    PROVE  DiagnoseCode(x) = DiagnoseCode(y)
  <1>1. UpDrift(x) = UpDrift(y) /\ UpCritical(x) = UpCritical(y)
    BY DEF UpDrift, UpCritical
  <1>2. UpScore(x) = UpScore(y)
    BY <1>1 DEF UpScore
  <1>3. UpCode(x) = UpCode(y)
    BY <1>1, <1>2 DEF UpCode
  <1> QED
    BY <1>3 DEF DiagnoseCode

\* Of what the aggregator answered only that it did not is an error.
LEMMA UpDriftErrors ==
    ASSUME NEW o, o.remote = "ok"
    PROVE  ~HasError(UpDrift(o))
  BY DEF HasError, UpDrift, Item

LEMMA CodeIs ==
    ASSUME NEW o \in LookRec
    PROVE  /\ DiagnoseCode(o) \in 0 .. 3
           /\ o.status = NoBody => DiagnoseCode(o) # 0
           /\ o.status # NoBody => DiagnoseCode(o) >= StatusCode(o.status.score)
           /\ o.status # NoBody /\ DiagnoseCode(o) = 0 =>
                 o.status.failed = {} /\ o.status.score > 3 /\ o.remote = "ok" /\ o.face # {}
           /\ /\ o.status # NoBody /\ o.status.failed = {} /\ o.status.score = 4
              /\ o.remote = "ok" /\ o.face # {} /\ (o.told => ~HasError(o.drift))
              => DiagnoseCode(o) = 0
  <1>1. UpCode(o) \in 0 .. 2
    BY DEF UpCode
  <1>2. UpCode(o) = 0 => o.remote = "ok" /\ o.face # {}
    BY DEF UpCode, UpCritical
  <1>3. o.status # NoBody => o.status \in RowRec /\ o.status.score \in 0 .. 4
    BY DEF LookRec, RowRec
  <1>4. o.status # NoBody => /\ StatusCode(o.status.score) \in 0 .. 2
                             /\ StatusCode(o.status.score) = 0 <=> o.status.score > 3
    BY <1>3 DEF StatusCode
  <1>5. o.remote = "ok" /\ o.face # {} => UpScore(o) > 2 /\ UpScore(o) \in 0 .. 4
    BY UpDriftErrors DEF UpScore, UpCritical
  <1>6. /\ o.status # NoBody /\ o.status.score = 4
        /\ o.remote = "ok" /\ o.face # {} /\ (o.told => ~HasError(o.drift))
        => UpCode(o) = 0
    BY <1>5 DEF UpCode, UpCritical, Least
  <1>7. /\ DiagnoseCode(o) \in 0 .. 3
        /\ o.status = NoBody => DiagnoseCode(o) # 0
        /\ o.status # NoBody => DiagnoseCode(o) >= StatusCode(o.status.score)
    BY <1>1, <1>4 DEF DiagnoseCode, Greatest
  <1>8. ASSUME o.status # NoBody, DiagnoseCode(o) = 0
        PROVE  o.status.failed = {} /\ UpCode(o) = 0 /\ StatusCode(o.status.score) = 0
    BY <1>1, <1>4, <1>8 DEF DiagnoseCode, Greatest
  <1>9. ASSUME o.status # NoBody, o.status.failed = {}, UpCode(o) = 0,
               StatusCode(o.status.score) = 0
        PROVE  DiagnoseCode(o) = 0
    BY <1>9 DEF DiagnoseCode, Greatest
  <1> QED
    BY <1>2, <1>4, <1>6, <1>7, <1>8, <1>9

\* The observer takes a look x at the present state; nothing else moves.
LEMMA LookGoesOn ==
    ASSUME DiagnoseInv, NEW x \in LookRec, Looks(x),
           x.told => x.step \in {"verdict", "done"},
           x.step = "done" => x.code = DiagnoseCode(x),
           x.step \in {"idle", "mesh", "status"} => x.remote = "unreached",
           x.calm /\ x.step \notin {"idle", "mesh", "status"} =>
              /\ x.remote = "ok" <=> fault \cap {"aggregator", "sick"} = {}
              /\ "aggregator" \notin fault => x.face = Face,
           x.calm /\ x.status # NoBody =>
              /\ row.calm /\ agent.phase = "serving" /\ ResultTrue(x.status)
              /\ ~x.status.boot => ~row.boot,
           x.calm /\ x.told /\ x.status # NoBody /\ ~x.status.boot /\ ~Unsound => ~HasError(x.drift)
    PROVE  DiagnoseInv'
  <1>1. UNCHANGED <<fault, faults, agent, row, latest, crashes>> /\ observer' = x
    BY DEF Looks
  <1>2. (fault = fault' /\ agent = agent' /\ row = row' /\ latest = latest') /\ observer' = x
    BY <1>1
  <1>3. DiagnoseTyped'
    BY <1>1 DEF DiagnoseInv, DiagnoseTyped
  <1>4. CycleTrue'
    BY <1>1 DEF DiagnoseInv, CycleTrue, ResultTrue, Fine, Registered, Applicable
  <1>5. /\ Face' = Face /\ (Unsound' <=> Unsound)
        /\ \A r : ResultTrue(r)' <=> ResultTrue(r)
    BY <1>1 DEF Face, Unsound, ResultTrue, Fine, Registered, Applicable
  <1>6. LookTrue'
    BY <1>1, <1>5 DEF LookTrue
  <1> QED
    BY <1>3, <1>4, <1>6 DEF DiagnoseInv

\* The observer is not there, or what it saw is no longer said to be so.
LEMMA LookStirred ==
    ASSUME DiagnoseInv, observer' = [observer EXCEPT !.calm = FALSE]
    PROVE  observer' \in LookRec /\ LookTrue'
  <1>1. observer \in LookRec
    BY DEF DiagnoseInv, DiagnoseTyped
  <1>2. observer' \in LookRec /\ ~observer'.calm
    BY <1>1 DEF LookRec
  <1>3. /\ observer'.told = observer.told /\ observer'.step = observer.step
        /\ observer'.code = observer.code /\ observer'.readable = observer.readable
        /\ observer'.laptop = observer.laptop /\ observer'.remote = observer.remote
        /\ observer'.face = observer.face /\ observer'.fresh = observer.fresh
        /\ observer'.inox = observer.inox /\ observer'.status = observer.status
        /\ observer'.drift = observer.drift
    BY <1>1 DEF LookRec
  <1>4. DiagnoseCode(observer') = DiagnoseCode(observer)
    BY <1>3, CodeSame
  <1> QED
    BY <1>2, <1>3, <1>4 DEF DiagnoseInv, LookTrue

\* The agent goes on and the observer does not move.
LEMMA LookUndisturbed ==
    ASSUME DiagnoseInv, UNCHANGED <<observer, fault>>,
           observer.calm /\ observer.status # NoBody =>
              /\ row'.calm /\ agent'.phase = "serving"
              /\ row.boot \/ ~row'.boot
    PROVE  LookTrue'
  <1>1. /\ Face' = Face /\ (Unsound' <=> Unsound)
        /\ \A r : ResultTrue(r)' <=> ResultTrue(r)
    BY DEF Face, Unsound, ResultTrue, Fine, Registered, Applicable
  <1> QED
    BY <1>1 DEF DiagnoseInv, LookTrue

\* Of a result of the present state: what is bad is bad of something. Of
\* the last one drift tells no error then either.
LEMMA ResultSound ==
    ASSUME NEW x \in RowRec, ResultTrue(x), ~x.boot, ~Unsound
    PROVE  x.failed = {} /\ x.score > 2 /\ (Cardinality(x.passed) < 3 \/ x.score = 4)
  <1>1. ASSUME NEW k \in Applicable(Registered) PROVE Fine(k, ~x.boot)
    BY <1>1, DiagnoseAssumption DEF Applicable, Fine, Unsound, Registered, ProbeKind
  <1>2. x.failed = {}
    BY <1>1 DEF ResultTrue
  <1>3. Registered
    BY DEF Registered, Unsound
  <1>4. x.passed \in SUBSET ProbeKind /\ x.failed \in SUBSET ProbeKind /\ Registered \in BOOLEAN
        /\ x.score = HealthScore(Registered, x.passed, x.failed)
    BY DEF RowRec, ResultTrue, Registered
  <1> QED
    BY <1>2, <1>3, <1>4, ScoreIs

LEMMA ResultUnsound ==
    ASSUME NEW x \in RowRec, ResultTrue(x), x.failed = {}, x.score > 3,
           fault \subseteq Fault, fault \cap {"aggregator", "sick"} = {}, Face # {}
    PROVE  ~Unsound
  <1>1. x.passed \in SUBSET ProbeKind /\ x.failed \in SUBSET ProbeKind /\ Registered \in BOOLEAN
        /\ x.score = HealthScore(Registered, x.passed, x.failed)
    BY DEF RowRec, ResultTrue, Registered
  <1>2. Registered
    BY <1>1, ScoreIs
  <1>3. \A k \in Applicable(Registered) : Fine(k, ~x.boot)
    BY DEF ResultTrue
  <1>4. \A k \in Probes : Fine(k, ~x.boot) /\ k \in {"gateway", "inox", "guide_semantic", "aggregator"}
    BY <1>2, <1>3, DiagnoseAssumption DEF Applicable, ProbeKind
  <1>5. fault \cap Probes = {}
    BY <1>4 DEF Fine, Fault
  <1> QED
    BY <1>2, <1>4, <1>5 DEF Unsound, Fine, Registered

LEMMA NodeDriftSound ==
    ASSUME CycleTrue, row \in RowRec, row.calm, ~row.boot, ~Unsound
    PROVE  ~HasError(NodeDrift)
  <1>1. ResultTrue(row) /\ row.failed = {} /\ row.score > 2
    BY ResultSound DEF CycleTrue
  <1>2. "ona" \in row.passed \ row.failed
    BY <1>1 DEF ResultTrue, Applicable, Fine
  <1>3. latest["ona"] = "pass"
    BY <1>2 DEF CycleTrue
  <1>4. "registry" \notin fault
    BY DEF Unsound
  <1>5. row.score \in 0 .. 4
    BY DEF RowRec
  <1> QED
    BY <1>1, <1>3, <1>4, <1>5 DEF HasError, NodeDrift, Item

LEMMA DiagnoseInvStep == DiagnoseInv /\ [DiagnoseNext]_diagnoseVars => DiagnoseInv'
  <1> SUFFICES ASSUME DiagnoseInv, [DiagnoseNext]_diagnoseVars PROVE DiagnoseInv'
    OBVIOUS
  <1> DEFINE o == observer
  <1>0. /\ DiagnoseTyped /\ CycleTrue /\ LookTrue /\ o \in LookRec
        /\ agent.phase \in {"down", "boot", "serving"} /\ agent.cycle \in CycleRec
        /\ row \in RowRec
    BY DEF DiagnoseInv, DiagnoseTyped
  <1>1. CASE UNCHANGED diagnoseVars
    BY <1>0, <1>1 DEF diagnoseVars, DiagnoseInv, DiagnoseTyped, CycleTrue, LookTrue, ResultTrue, Fine,
       Registered, Applicable, Face, Unsound
  <1>2. ASSUME NEW f \in Possible, FaultComesOrGoes(f) PROVE DiagnoseInv'
    <2>1. fault' \subseteq Fault /\ faults' \in 0 .. MaxFault /\ crashes' = crashes
      BY <1>0, <1>2, DiagnoseAssumption DEF FaultComesOrGoes, DiagnoseTyped
    <2>2. /\ agent' = [agent EXCEPT !.cycle = [agent.cycle EXCEPT !.calm = FALSE]]
          /\ row' = [row EXCEPT !.calm = FALSE] /\ latest' = latest
          /\ observer' = [observer EXCEPT !.calm = FALSE]
      BY <1>2 DEF FaultComesOrGoes, Stir
    <2>3. /\ [agent.cycle EXCEPT !.calm = FALSE] \in CycleRec
          /\ ~[agent.cycle EXCEPT !.calm = FALSE].calm
          /\ [agent.cycle EXCEPT !.calm = FALSE].on = agent.cycle.on
      BY <1>0 DEF CycleRec
    <2>4. /\ agent'.cycle = [agent.cycle EXCEPT !.calm = FALSE] /\ agent'.phase = agent.phase
          /\ agent' \in [phase : {"down", "boot", "serving"}, cycle : CycleRec]
      BY <1>0, <2>2, <2>3 DEF DiagnoseTyped
    <2>5. row' \in RowRec /\ ~row'.calm /\ row'.passed = row.passed /\ row'.failed = row.failed
      BY <1>0, <2>2 DEF RowRec
    <2>6. CycleTrue'
      BY <1>0, <2>2, <2>3, <2>4, <2>5 DEF CycleTrue
    <2> QED
      BY <1>0, <2>1, <2>2, <2>4, <2>5, <2>6, LookStirred DEF DiagnoseInv, DiagnoseTyped
  <1>3. ASSUME AgentStarts \/ NextCycle PROVE DiagnoseInv'
    <2>1. /\ UNCHANGED <<fault, faults, row, latest, crashes, observer>>
          /\ agent'.cycle = StartCycle /\ agent'.phase \in {"boot", "serving"}
          /\ agent' = [phase |-> agent'.phase, cycle |-> StartCycle]
          /\ agent.phase = "serving" => agent'.phase = "serving"
      BY <1>0, <1>3 DEF AgentStarts, NextCycle, DiagnoseTyped
    <2>2. /\ StartCycle.on /\ StartCycle.calm /\ StartCycle.readable = Registered
          /\ StartCycle.todo = Applicable(Registered) /\ StartCycle.passed = {} /\ StartCycle.failed = {}
      BY DEF StartCycle, NoCycle, Registered
    <2>3. StartCycle \in CycleRec
      BY DiagnoseAssumption DEF StartCycle, NoCycle, CycleRec, Applicable, ProbeKind
    <2>4. CycleTrue'
      <3>1. (Registered' <=> Registered) /\ Applicable(Registered)' = Applicable(Registered)
            /\ (ResultTrue(row)' <=> ResultTrue(row))
        BY <2>1 DEF Registered, Applicable, ResultTrue, Fine
      <3> QED
        BY <1>0, <2>1, <2>2, <3>1 DEF CycleTrue, Registered
    <2>5. DiagnoseTyped'
      BY <1>0, <2>1, <2>3 DEF DiagnoseTyped
    <2>6. LookTrue'
      BY <1>0, <2>1, LookUndisturbed DEF LookTrue
    <2> QED
      BY <2>4, <2>5, <2>6 DEF DiagnoseInv
  <1>4. ASSUME NEW k \in ProbeKind, RunProbe(k) PROVE DiagnoseInv'
    <2> DEFINE c == agent.cycle
               c1 == [c EXCEPT !.todo = @ \ {k}]
               c2 == [c1 EXCEPT !.passed = IF Passes(k) THEN @ \cup {k} ELSE @]
               c3 == [c2 EXCEPT !.failed = IF Passes(k) THEN @ ELSE @ \cup {k}]
    <2>1. /\ c.on /\ k \in c.todo /\ UNCHANGED <<fault, faults, row, latest, crashes, observer>>
          /\ agent' = [agent EXCEPT !.cycle = c3]
      BY <1>0, <1>4 DEF RunProbe, DiagnoseTyped, CycleRec
    <2>2. /\ c1 \in CycleRec /\ c1.on = c.on /\ c1.readable = c.readable /\ c1.calm = c.calm
          /\ c1.todo = c.todo \ {k} /\ c1.passed = c.passed /\ c1.failed = c.failed
      BY <1>0 DEF CycleRec
    <2>3. /\ c2 \in CycleRec /\ c2.on = c.on /\ c2.readable = c.readable /\ c2.calm = c.calm
          /\ c2.todo = c.todo \ {k} /\ c2.failed = c.failed
          /\ c2.passed = IF Passes(k) THEN c.passed \cup {k} ELSE c.passed
      <3> HIDE DEF c1
      <3> QED BY <2>2 DEF CycleRec
    <2>4. /\ c3 \in CycleRec /\ c3.on = c.on /\ c3.readable = c.readable /\ c3.calm = c.calm
          /\ c3.todo = c.todo \ {k} /\ c3.passed = c2.passed
          /\ c3.failed = IF Passes(k) THEN c.failed ELSE c.failed \cup {k}
      <3> HIDE DEF c2
      <3> QED BY <2>3 DEF CycleRec
    <2>5. /\ agent'.cycle = c3 /\ agent'.phase = agent.phase
          /\ agent' \in [phase : {"down", "boot", "serving"}, cycle : CycleRec]
      <3> HIDE DEF c3
      <3> QED BY <1>0, <2>1, <2>4 DEF DiagnoseTyped
    <2> HIDE DEF c1, c2, c3
    <2>6. CycleTrue'
      <3>1. (Registered' <=> Registered) /\ Applicable(Registered)' = Applicable(Registered)
            /\ (ResultTrue(row)' <=> ResultTrue(row))
            /\ \A j, s : Fine(j, s)' <=> Fine(j, s)
        BY <2>1 DEF Registered, Applicable, ResultTrue, Fine
      <3>2. c.on /\ c.calm =>
               /\ c3.todo \cup c3.passed \cup c3.failed = Applicable(Registered)
               /\ \A j \in c3.passed : Fine(j, agent.phase = "serving")
               /\ \A j \in c3.failed : ~Fine(j, agent.phase = "serving")
        BY <1>0, <2>1, <2>3, <2>4, PassesIs DEF CycleTrue
      <3>3. Registered' = Registered
        BY <2>1 DEF Registered
      <3> QED
        BY <1>0, <2>1, <2>4, <2>5, <3>1, <3>2, <3>3 DEF CycleTrue
    <2>7. DiagnoseTyped'
      BY <1>0, <2>1, <2>5 DEF DiagnoseTyped
    <2>8. LookTrue'
      BY <1>0, <2>1, <2>5, LookUndisturbed DEF LookTrue
    <2> QED
      BY <2>6, <2>7, <2>8 DEF DiagnoseInv
  <1>5. ASSUME CycleEnds PROVE DiagnoseInv'
    <2> DEFINE c == agent.cycle
               r == [passed |-> c.passed, failed |-> c.failed, boot |-> agent.phase = "boot",
                     score |-> HealthScore(c.readable, c.passed, c.failed), calm |-> c.calm]
    <2>1. /\ c.on /\ c.todo = {} /\ row' = r /\ agent' = [phase |-> "serving", cycle |-> NoCycle]
          /\ latest' = [j \in ProbeKind |-> Newest(j)]
          /\ UNCHANGED <<fault, faults, crashes, observer>>
      BY <1>5 DEF CycleEnds
    <2>2. r \in RowRec
      <3>1. HealthScore(c.readable, c.passed, c.failed) \in 0 .. 4
        BY DEF HealthScore
      <3> QED
        BY <1>0, <3>1 DEF RowRec, CycleRec
    <2>3. latest' \in [ProbeKind -> {"none", "pass", "fail"}]
      BY <1>0, <2>1 DEF Newest, DiagnoseTyped
    <2>4. /\ \A j \in c.passed \ c.failed : latest'[j] = "pass"
          /\ \A j \in c.failed \ c.passed : latest'[j] = "fail"
      BY <1>0, <2>1 DEF Newest, CycleRec
    <2>5. c.calm => ResultTrue(r)
      <3>1. c.calm => agent.phase = "serving" <=> ~r.boot
        BY <1>0, <2>1 DEF CycleTrue
      <3>2. c.calm => /\ \A j \in c.passed : Fine(j, ~r.boot)
                      /\ \A j \in c.failed : ~Fine(j, ~r.boot)
                      /\ c.passed \cup c.failed = Applicable(Registered)
        BY <1>0, <2>1, <3>1 DEF CycleTrue
      <3>3. c.calm => c.readable = Registered
        BY <1>0, <2>1 DEF CycleTrue
      <3> QED
        BY <3>2, <3>3 DEF ResultTrue
    <2>6. CycleTrue'
      <3>1. ~NoCycle.on /\ agent'.cycle = NoCycle
        BY <2>1 DEF NoCycle
      <3>2. ResultTrue(r)' <=> ResultTrue(r)'
        OBVIOUS
      <3>3. row'.calm => ResultTrue(row)'
        BY <2>1, <2>5 DEF ResultTrue, Fine, Registered, Applicable
      <3> QED
        BY <2>1, <2>4, <3>1, <3>3 DEF CycleTrue
    <2>7. DiagnoseTyped'
      <3>1. NoCycle \in CycleRec
        BY DEF NoCycle, CycleRec
      <3> QED
        BY <1>0, <2>1, <2>2, <2>3, <3>1 DEF DiagnoseTyped
    <2>8. LookTrue'
      <3>1. o.calm /\ o.status # NoBody => row.calm /\ agent.phase = "serving"
        BY <1>0 DEF LookTrue
      <3>2. o.calm /\ o.status # NoBody => c.calm /\ ~r.boot
        BY <1>0, <2>1, <3>1 DEF CycleTrue
      <3> QED
        BY <2>1, <3>2, LookUndisturbed
    <2> QED
      BY <2>6, <2>7, <2>8 DEF DiagnoseInv
  <1>6. ASSUME AgentEnds PROVE DiagnoseInv'
    <2>1. /\ agent' = [phase |-> "down", cycle |-> NoCycle] /\ crashes' \in 0 .. MaxCrash
          /\ row' = [row EXCEPT !.calm = FALSE] /\ observer' = [observer EXCEPT !.calm = FALSE]
          /\ UNCHANGED <<fault, faults, latest>>
      BY <1>0, <1>6, DiagnoseAssumption DEF AgentEnds, Stir, DiagnoseTyped
    <2>2. NoCycle \in CycleRec /\ ~NoCycle.on /\ agent'.cycle = NoCycle
      BY <2>1 DEF NoCycle, CycleRec
    <2>3. row' \in RowRec /\ ~row'.calm /\ row'.passed = row.passed /\ row'.failed = row.failed
      BY <1>0, <2>1 DEF RowRec
    <2>4. CycleTrue'
      BY <1>0, <2>1, <2>2, <2>3 DEF CycleTrue
    <2> QED
      BY <1>0, <2>1, <2>2, <2>3, <2>4, LookStirred DEF DiagnoseInv, DiagnoseTyped
  <1>7. ASSUME LookStarts PROVE DiagnoseInv'
    <2> DEFINE y == [NoLook EXCEPT !.step = "mesh"]
               x == [y EXCEPT !.readable = Registered]
    <2>1. Looks(x)
      BY <1>7 DEF LookStarts, NoLook, Registered
    <2>2. /\ y \in LookRec /\ y.step = "mesh" /\ ~y.told /\ y.status = NoBody
          /\ y.remote = "unreached"
      <3>1. /\ NoLook \in LookRec /\ ~NoLook.told /\ NoLook.status = NoBody
            /\ NoLook.remote = "unreached"
        BY DEF NoLook, LookRec, LookStep
      <3> QED
        BY <3>1 DEF LookRec, LookStep
    <2>3. /\ x \in LookRec /\ x.step = "mesh" /\ ~x.told /\ x.status = NoBody
          /\ x.remote = "unreached"
      <3> HIDE DEF y
      <3>1. Registered \in BOOLEAN
        BY DEF Registered
      <3> QED
        BY <2>2, <3>1 DEF LookRec
    <2> HIDE DEF x
    <2> QED
      BY <2>1, <2>3, LookGoesOn
  <1>8. ASSUME LookMesh PROVE DiagnoseInv'
    <2> DEFINE x == [[o EXCEPT !.step = "status"] EXCEPT !.laptop = "laptop" \notin fault]
    <2>1. o.step = "mesh" /\ Looks(x)
      BY <1>0, <1>8 DEF LookMesh, OnStep, LookRec
    <2>2. x \in LookRec /\ x.step = "status" /\ x.told = o.told /\ x.status = o.status /\ x.calm = o.calm
          /\ x.drift = o.drift /\ x.remote = o.remote
      BY <1>0 DEF LookRec, LookStep
    <2> HIDE DEF x
    <2> QED
      BY <1>0, <2>1, <2>2, LookGoesOn DEF LookTrue
  <1>9. ASSUME LookStatus PROVE DiagnoseInv'
    <2>1. o.step = "status" /\ o.remote = "unreached" /\ ~o.told
      BY <1>0, <1>9 DEF LookStatus, OnStep, LookTrue
    <2>2. CASE "aggregator" \in fault
      <3> DEFINE x == [o EXCEPT !.step = "inox"]
      <3>1. Looks(x)
        BY <1>9, <2>2 DEF LookStatus
      <3>2. x \in LookRec /\ x.step = "inox" /\ x.told = o.told /\ x.status = o.status /\ x.calm = o.calm
            /\ x.remote = o.remote
        BY <1>0 DEF LookRec, LookStep
      <3> HIDE DEF x
      <3> QED
        BY <1>0, <2>1, <2>2, <3>1, <3>2, LookGoesOn DEF LookTrue
    <2>3. CASE "aggregator" \notin fault
      <3> DEFINE v == IF "sick" \in fault THEN "sick" ELSE "ok"
                 t == "tool_host" \notin fault
                 y == [o EXCEPT !.step = "blackboard"]
                 z == [y EXCEPT !.face = Face]
                 w == [z EXCEPT !.remote = v]
                 x == [w EXCEPT !.fresh = t]
      <3>1. Looks(x)
        BY <1>9, <2>3 DEF LookStatus
      <3>2. y \in LookRec /\ y.step = "blackboard" /\ y.told = o.told /\ y.status = o.status
            /\ y.calm = o.calm
        BY <1>0 DEF LookRec, LookStep
      <3>3. z \in LookRec /\ z.step = "blackboard" /\ z.told = o.told /\ z.status = o.status
            /\ z.calm = o.calm /\ z.face = Face
        <4> HIDE DEF y
        <4> QED BY <3>2 DEF LookRec, Face
      <3>4. w \in LookRec /\ w.step = "blackboard" /\ w.told = o.told /\ w.status = o.status
            /\ w.calm = o.calm /\ w.face = Face /\ w.remote = v
        <4>1. v \in {"unreached", "sick", "ok"}
          OBVIOUS
        <4> HIDE DEF z, v
        <4> QED BY <3>3, <4>1 DEF LookRec
      <3>5. x \in LookRec /\ x.step = "blackboard" /\ x.told = o.told /\ x.status = o.status
            /\ x.calm = o.calm /\ x.face = Face /\ x.remote = v
        <4>1. t \in BOOLEAN
          OBVIOUS
        <4> HIDE DEF w, v, t
        <4> QED BY <3>4, <4>1 DEF LookRec
      <3>6. v = "ok" <=> fault \cap {"aggregator", "sick"} = {}
        BY <2>3
      <3> HIDE DEF x, v
      <3> QED
        BY <1>0, <2>1, <2>3, <3>1, <3>5, <3>6, LookGoesOn DEF LookTrue
    <2> QED
      BY <2>2, <2>3
  <1>10. ASSUME LookBlackboard PROVE DiagnoseInv'
    <2> DEFINE t == IF "aggregator" \in fault THEN o.fresh ELSE "tool_host" \notin fault
               y == [o EXCEPT !.step = "inox"]
               x == [y EXCEPT !.fresh = t]
    <2>1. o.step = "blackboard" /\ Looks(x)
      BY <1>0, <1>10 DEF LookBlackboard, OnStep, LookRec
    <2>2. y \in LookRec /\ y.step = "inox" /\ y.told = o.told /\ y.status = o.status
          /\ y.calm = o.calm /\ y.face = o.face /\ y.remote = o.remote
      BY <1>0 DEF LookRec, LookStep
    <2>3. x \in LookRec /\ x.step = "inox" /\ x.told = o.told /\ x.status = o.status
          /\ x.calm = o.calm /\ x.face = o.face /\ x.remote = o.remote
      <3>1. t \in BOOLEAN
        BY <1>0 DEF LookRec
      <3> HIDE DEF y, t
      <3> QED BY <2>2, <3>1 DEF LookRec
    <2> HIDE DEF x
    <2> QED
      BY <1>0, <2>1, <2>3, LookGoesOn DEF LookTrue
  <1>11. ASSUME LookInox PROVE DiagnoseInv'
    <2> DEFINE v == IF "inox" \notin Probes \/ ~o.readable THEN "skipped"
                    ELSE IF "inox" \in fault THEN "fail" ELSE "pass"
               y == [o EXCEPT !.step = "ona_status"]
               z == [y EXCEPT !.inox = v]
               x == [z EXCEPT !.drift = UpDrift(z)]
    <2>1. o.step = "inox" /\ Looks(x)
      BY <1>11 DEF LookInox, OnStep
    <2>2. y \in LookRec /\ y.step = "ona_status" /\ y.told = o.told /\ y.status = o.status
          /\ y.calm = o.calm /\ y.face = o.face /\ y.remote = o.remote
      BY <1>0 DEF LookRec, LookStep
    <2>3. z \in LookRec /\ z.step = "ona_status" /\ z.told = o.told /\ z.status = o.status
          /\ z.calm = o.calm /\ z.face = o.face /\ z.remote = o.remote
      <3>1. v \in {"skipped", "fail", "pass"}
        OBVIOUS
      <3> HIDE DEF y, v
      <3> QED BY <2>2, <3>1 DEF LookRec
    <2>4. x \in LookRec /\ x.step = "ona_status" /\ x.told = o.told /\ x.status = o.status
          /\ x.calm = o.calm /\ x.face = o.face /\ x.remote = o.remote
      <3>1. UpDrift(z) \in SUBSET DriftItem
        BY DEF UpDrift
      <3> HIDE DEF z
      <3> QED BY <2>3, <3>1 DEF LookRec
    <2> HIDE DEF x
    <2> QED
      BY <1>0, <2>1, <2>4, LookGoesOn DEF LookTrue
  <1>12. ASSUME LookOnaStatus PROVE DiagnoseInv'
    <2> DEFINE y == [o EXCEPT !.step = "ona_drift"]
    <2>1. o.step = "ona_status" /\ ~o.told
      BY <1>0, <1>12 DEF LookOnaStatus, OnStep, LookTrue
    <2>2. y \in LookRec /\ y.step = "ona_drift" /\ y.told = o.told /\ y.status = o.status
          /\ y.calm = o.calm /\ y.face = o.face /\ y.remote = o.remote
      BY <1>0 DEF LookRec, LookStep
    <2>3. CASE agent.phase # "serving"
      <3>1. Looks(y)
        BY <1>12, <2>3 DEF LookOnaStatus
      <3> HIDE DEF y
      <3> QED
        BY <1>0, <2>1, <2>2, <3>1, LookGoesOn DEF LookTrue
    <2>4. CASE agent.phase = "serving"
      <3> DEFINE b == o.calm /\ row.calm
                 z == [y EXCEPT !.status = row]
                 x == [z EXCEPT !.calm = b]
      <3>1. Looks(x)
        BY <1>0, <1>12, <2>4 DEF LookOnaStatus, LookRec
      <3>2. z \in LookRec /\ z.step = "ona_drift" /\ z.told = o.told /\ z.status = row
            /\ z.face = o.face /\ z.remote = o.remote
        <4> HIDE DEF y
        <4> QED BY <1>0, <2>2 DEF LookRec
      <3>3. x \in LookRec /\ x.step = "ona_drift" /\ x.told = o.told /\ x.status = row
            /\ x.face = o.face /\ x.remote = o.remote /\ x.calm = b
        <4>1. b \in BOOLEAN
          OBVIOUS
        <4> HIDE DEF z, b
        <4> QED BY <3>2, <4>1 DEF LookRec
      <3>4. x.calm <=> o.calm /\ row.calm
        BY <3>3
      <3> HIDE DEF x, b
      <3> QED
        BY <1>0, <2>1, <2>4, <3>1, <3>3, <3>4, LookGoesOn DEF LookTrue, CycleTrue
    <2> QED
      BY <2>3, <2>4
  <1>13. ASSUME LookOnaDrift PROVE DiagnoseInv'
    <2> DEFINE y == [o EXCEPT !.step = "verdict"]
    <2>1. o.step = "ona_drift" /\ ~o.told
      BY <1>0, <1>13 DEF LookOnaDrift, OnStep, LookTrue
    <2>2. y \in LookRec /\ y.step = "verdict" /\ y.told = o.told /\ y.status = o.status
          /\ y.calm = o.calm /\ y.face = o.face /\ y.remote = o.remote
      BY <1>0 DEF LookRec, LookStep
    <2>3. CASE agent.phase # "serving"
      <3>1. Looks(y)
        BY <1>13, <2>3 DEF LookOnaDrift
      <3> HIDE DEF y
      <3> QED
        BY <1>0, <2>1, <2>2, <3>1, LookGoesOn DEF LookTrue
    <2>4. CASE agent.phase = "serving"
      <3> DEFINE d == UpDrift(o) \cup NodeDrift
                 z == [y EXCEPT !.told = TRUE]
                 x == [z EXCEPT !.drift = d]
      <3>1. Looks(x)
        BY <1>13, <2>4 DEF LookOnaDrift
      <3>2. z \in LookRec /\ z.step = "verdict" /\ z.told /\ z.status = o.status
            /\ z.calm = o.calm /\ z.face = o.face /\ z.remote = o.remote
        <4> HIDE DEF y
        <4> QED BY <2>2 DEF LookRec
      <3>3. x \in LookRec /\ x.step = "verdict" /\ x.told /\ x.status = o.status
            /\ x.calm = o.calm /\ x.face = o.face /\ x.remote = o.remote /\ x.drift = d
        <4>1. d \in SUBSET DriftItem
          BY DEF UpDrift, NodeDrift
        <4> HIDE DEF z, d
        <4> QED BY <3>2, <4>1 DEF LookRec
      <3>4. ASSUME x.calm, x.status # NoBody, ~x.status.boot, ~Unsound
            PROVE  ~HasError(x.drift)
        <4>1. o.calm /\ o.status # NoBody /\ row.calm /\ ~row.boot
          BY <1>0, <3>3, <3>4 DEF LookTrue
        <4>2. ~HasError(NodeDrift)
          BY <1>0, <3>4, <4>1, NodeDriftSound
        <4>3. o.remote = "ok"
          BY <1>0, <2>1, <3>4, <4>1 DEF LookTrue, Unsound
        <4>4. ~HasError(UpDrift(o))
          BY <4>3, UpDriftErrors
        <4> HIDE DEF x
        <4> QED
          BY <3>3, <4>2, <4>4 DEF HasError
      <3> HIDE DEF x, d
      <3> QED
        BY <1>0, <2>1, <2>4, <3>1, <3>3, <3>4, LookGoesOn DEF LookTrue
    <2> QED
      BY <2>3, <2>4
  <1>14. ASSUME Verdict PROVE DiagnoseInv'
    <2> DEFINE k == DiagnoseCode(o)
               y == [o EXCEPT !.step = "done"]
               x == [y EXCEPT !.code = k]
    <2>1. o.step = "verdict" /\ Looks(x)
      BY <1>14 DEF Verdict, OnStep
    <2>2. /\ y \in LookRec /\ y.step = "done" /\ y.told = o.told /\ y.status = o.status
          /\ y.calm = o.calm /\ y.face = o.face /\ y.remote = o.remote /\ y.drift = o.drift
          /\ y.readable = o.readable /\ y.laptop = o.laptop /\ y.fresh = o.fresh /\ y.inox = o.inox
      BY <1>0 DEF LookRec, LookStep
    <2>3. /\ x \in LookRec /\ x.step = "done" /\ x.told = o.told /\ x.status = o.status
          /\ x.calm = o.calm /\ x.face = o.face /\ x.remote = o.remote /\ x.drift = o.drift
          /\ x.readable = o.readable /\ x.laptop = o.laptop /\ x.fresh = o.fresh /\ x.inox = o.inox
          /\ x.code = k
      <3>1. k \in 0 .. 3
        BY <1>0, CodeIs
      <3> HIDE DEF y, k
      <3> QED BY <2>2, <3>1 DEF LookRec
    <2>4. DiagnoseCode(x) = k
      <3> HIDE DEF x
      <3> QED BY <2>3, CodeSame
    <2> HIDE DEF x, k
    <2> QED
      BY <1>0, <2>1, <2>3, <2>4, LookGoesOn DEF LookTrue
  <1> QED
    BY <1>1, <1>2, <1>3, <1>4, <1>5, <1>6, <1>7, <1>8, <1>9, <1>10, <1>11, <1>12, <1>13, <1>14
    DEF DiagnoseNext

\* What the invariant says of a verdict.
LEMMA DiagnoseInvImplies == DiagnoseInv => VerdictExact
  <1> SUFFICES ASSUME DiagnoseInv, observer.step = "done" PROVE VerdictExact
    BY DEF VerdictExact
  <1> DEFINE o == observer
  <1>1. /\ o \in LookRec /\ fault \subseteq Fault /\ o.code = DiagnoseCode(o)
        /\ o.status # NoBody => o.status \in RowRec
    BY DEF DiagnoseInv, DiagnoseTyped, LookTrue, LookRec
  <1>2. o.code = 0 => o.status # NoBody
    BY <1>1, CodeIs
  <1>3. o.status # NoBody => o.code >= StatusCode(o.status.score)
    BY <1>1, CodeIs
  <1>4. ASSUME o.calm PROVE /\ o.remote = "ok" <=> fault \cap {"aggregator", "sick"} = {}
                            /\ "aggregator" \notin fault => o.face = Face
                            /\ o.status # NoBody => ResultTrue(o.status)
    BY <1>4 DEF DiagnoseInv, LookTrue
  <1>5. ASSUME o.calm, o.code = 0 PROVE ~Unsound
    <2>1. o.status # NoBody /\ o.status.failed = {} /\ o.status.score > 3 /\ o.remote = "ok"
          /\ o.face # {}
      BY <1>1, <1>2, <1>5, CodeIs
    <2>2. fault \cap {"aggregator", "sick"} = {} /\ Face # {}
      BY <1>4, <1>5, <2>1
    <2> QED
      BY <1>1, <1>4, <1>5, <2>1, <2>2, ResultUnsound
  <1>6. ASSUME o.calm, ~Unsound, o.status # NoBody, ~o.status.boot,
               ~(Cardinality(o.status.passed) < 3)
        PROVE  o.code = 0
    <2>1. o.status.failed = {} /\ o.status.score = 4
      BY <1>1, <1>4, <1>6, ResultSound
    <2>2. fault \cap {"aggregator", "sick"} = {} /\ "aggregator" \notin fault /\ Face # {}
      BY <1>6 DEF Unsound
    <2>3. o.remote = "ok" /\ o.face # {}
      BY <1>4, <1>6, <2>2
    <2>4. o.told => ~HasError(o.drift)
      BY <1>6 DEF DiagnoseInv, LookTrue
    <2> QED
      BY <1>1, <1>6, <2>1, <2>3, <2>4, CodeIs
  <1> QED
    BY <1>2, <1>3, <1>5, <1>6 DEF VerdictExact

\* Exit code 0 of the diagnosis means sound and any other means that
\* something is wrong (or that the agent was not heard, or speaks of its
\* first cycle, or of less than three probes), whatever the agent and the
\* world do between the calls, as long as nothing changed since the cycle
\* began that the agent tells of (node-diagnose.js).
THEOREM VerdictsExact == DiagnoseSpec => []VerdictExact
  <1>1. DiagnoseInit => DiagnoseInv
    BY DiagnoseInvInit
  <1>2. DiagnoseInv /\ [DiagnoseNext]_diagnoseVars => DiagnoseInv'
    BY DiagnoseInvStep
  <1>3. DiagnoseInv => VerdictExact
    BY DiagnoseInvImplies
  <1> QED
    BY <1>1, <1>2, <1>3, PTL DEF DiagnoseSpec

---------------------------------------------------------------------------
(* How wakes become rows.                                                  *)

EventRec == [id : WakeId, packet : Packet \cup {NoPacket}, wake : WakeFile \cup {NoWake},
             of : Obligation \cup {NoRef}]
RowOfWake == [work : STRING, next : Nat, wake : WakeFile, status : {"active"}]
CallerRec == [step : {"idle"}] \cup [step : {"put", "log"}, wake : WakeFile]
             \cup [step : {"upsert"}, wake : WakeFile, inner : Packet,
                   dropped : BOOLEAN, overtaken : BOOLEAN]

WakeTyped ==
    /\ events \in Seq(EventRec) /\ obligations \in [Obligation -> {NoObligation} \cup RowOfWake]
    /\ caller \in [Scheduler -> CallerRec]
    /\ calls \in 0 .. MaxCall /\ deaths \in 0 .. MaxDeath
    /\ ignored \subseteq Obligation /\ behind \subseteq Obligation

\* The log holds the wake for the obligation.
Held(log, o, w) == \E i \in WakesOf(log, o) : log[i].wake = w

\* A row is of a wake of its own obligation, with work that the log holds
\* (or the copy did) for it.
RowOwned ==
    \A o \in Obligation : obligations[o] # NoObligation =>
        LET w == obligations[o].wake IN
        /\ ObligationId(w) = o
        /\ \E inner \in Inner(events, w.packet, w.ref) : inner.work = obligations[o].work

\* A wake about to be written to its row is in the log, or its id was; and
\* it is the last one there that no other call has overtaken.
CallerLogged ==
    \A c \in Scheduler : caller[c].step = "upsert" =>
        LET w == caller[c].wake IN
        /\ Taken(EventId(w)) /\ caller[c].inner \in Inner(events, w.packet, w.ref)
        /\ ~caller[c].dropped => Held(events, ObligationId(w), w)
        /\ ~caller[c].dropped /\ ~caller[c].overtaken => LastWake(events, ObligationId(w)) = w

\* Whoever handles a packet has opened the database before.
LogOpened == calls = 0 \/ \A o \in Obligation : ~Unlogged(o)
NobodyYet == calls = 0 => \A c \in Scheduler : caller[c].step = "idle"

\* What writes the row of the last wake there is.
WritesLast(c, o) == Writes(c, o) /\ ~caller[c].dropped /\ ~caller[c].overtaken

RowLogged ==
    \A o \in Obligation :
        obligations[o] # NoObligation /\ o \notin ignored /\ ~Unlogged(o) =>
            Held(events, o, obligations[o].wake)

RowLatest ==
    \A o \in Obligation :
        obligations[o] # NoObligation /\ o \notin ignored \cup behind /\ ~Unlogged(o) =>
            \/ LastWake(events, o) = obligations[o].wake
            \/ \E c \in Scheduler : WritesLast(c, o)

\* The inductive invariant of WakeSchedule.
WakeInv ==
    WakeTyped /\ RowOwned /\ CallerLogged /\ LogOpened /\ NobodyYet /\ RowLogged /\ RowLatest

\* The id of a wake, and that of its event, tell its obligation.
LEMMA WakeIds ==
    ASSUME NEW w \in WakeFile
    PROVE  ObligationId(w) \in Obligation /\ EventId(w) \in WakeId
  <1>1. w.id \in WakeId \cup {NoRef} /\ w.of \in Obligation
    BY WakeFileAssumption
  <1>2. \A o \in Obligation : CopWake(o)[2] = o /\ CopWake(o) \in WakeId
    BY DEF CopWake, WakeId
  <1>3. ObligationId(w) \in Obligation
    BY <1>1, <1>2 DEF ObligationId, WakeId
  <1> QED
    BY <1>1, <1>2, <1>3 DEF EventId

LEMMA EventIdsApart ==
    ASSUME NEW v \in WakeFile, NEW w \in WakeFile, EventId(v) = EventId(w)
    PROVE  ObligationId(v) = ObligationId(w)
  <1>1. \A o \in Obligation : CopWake(o)[2] = o /\ CopWake(o) \notin Obligation
    BY WakeFileAssumption DEF CopWake
  <1>2. \A x \in WakeFile : \/ EventId(x) = CopWake(ObligationId(x))
                            \/ EventId(x) = x.id /\ x.id \in Obligation /\ ObligationId(x) = x.id
    <2>1. ASSUME NEW x \in WakeFile, x.id # NoRef, x.id \notin Obligation
          PROVE  x.id = CopWake(ObligationId(x))
      <3>1. PICK o \in Obligation : x.id = CopWake(o)
        BY <2>1, WakeFileAssumption DEF WakeId
      <3>2. ObligationId(x) = o
        BY <1>1, <2>1, <3>1 DEF ObligationId
      <3> QED BY <3>1, <3>2
    <2> QED
      BY <2>1 DEF EventId, ObligationId
  <1>3. ObligationId(v) \in Obligation /\ ObligationId(w) \in Obligation
    BY WakeIds
  <1> QED
    BY <1>1, <1>2, <1>3

\* An event at the end of the log.
LEMMA AppendedLog ==
    ASSUME NEW log \in Seq(EventRec), NEW e \in EventRec, NEW more, more = Append(log, e)
    PROVE  /\ more \in Seq(EventRec)
           /\ \A p, r : Inner(log, p, r) \subseteq Inner(more, p, r)
           /\ \A id : (\E i \in DOMAIN log : log[i].id = id) => \E i \in DOMAIN more : more[i].id = id
           /\ \E i \in DOMAIN more : more[i].id = e.id
           /\ \A id : (\E i \in DOMAIN more : more[i].id = id) =>
                 id = e.id \/ \E i \in DOMAIN log : log[i].id = id
  <1> DEFINE n == Len(log)
  <1>1. /\ n \in Nat /\ DOMAIN log = 1 .. n /\ DOMAIN more = 1 .. (n + 1)
        /\ more[n + 1] = e /\ \A i \in 1 .. n : more[i] = log[i]
    OBVIOUS
  <1>2. more \in Seq(EventRec)
    OBVIOUS
  <1>3. \A p, r : Inner(log, p, r) \subseteq Inner(more, p, r)
    BY <1>1 DEF Inner, Found
  <1> QED
    BY <1>1, <1>2, <1>3

LEMMA AppendedApart ==
    ASSUME NEW log \in Seq(EventRec), NEW e \in EventRec, NEW more, more = Append(log, e),
           NEW o \in Obligation, e.wake = NoWake \/ e.of # o
    PROVE  WakesOf(more, o) = WakesOf(log, o) /\ LastWake(more, o) = LastWake(log, o)
  <1> DEFINE n == Len(log)
  <1>1. /\ n \in Nat /\ DOMAIN log = 1 .. n /\ DOMAIN more = 1 .. (n + 1)
        /\ more[n + 1] = e /\ \A i \in 1 .. n : more[i] = log[i]
    OBVIOUS
  <1>2. WakesOf(more, o) = WakesOf(log, o)
    BY <1>1 DEF WakesOf
  <1>3. CASE WakesOf(log, o) = {}
    BY <1>2, <1>3 DEF LastWake
  <1>4. CASE WakesOf(log, o) # {}
    <2> DEFINE k == CHOOSE i \in WakesOf(log, o) : \A j \in WakesOf(log, o) : j <= i
    <2>1. WakesOf(log, o) \in SUBSET (0 .. n)
      BY <1>1 DEF WakesOf
    <2>2. \E i \in WakesOf(log, o) : \A j \in WakesOf(log, o) : j <= i
      <3> HIDE DEF n
      <3> QED BY <1>1, <1>4, <2>1, GreatestElement
    <2>3. k \in WakesOf(log, o)
      BY <2>2
    <2>4. more[k] = log[k]
      BY <1>1, <2>3 DEF WakesOf
    <2> QED
      BY <1>2, <1>4, <2>4 DEF LastWake
  <1> QED
    BY <1>3, <1>4

LEMMA AppendedWake ==
    ASSUME NEW log \in Seq(EventRec), NEW e \in EventRec, NEW more, more = Append(log, e),
           NEW o \in Obligation, e.wake # NoWake, e.of = o
    PROVE  WakesOf(more, o) # {} /\ LastWake(more, o) = e.wake
  <1> DEFINE n == Len(log)
  <1>1. /\ n \in Nat /\ DOMAIN more = 1 .. (n + 1) /\ more[n + 1] = e
    OBVIOUS
  <1>2. n + 1 \in WakesOf(more, o) /\ WakesOf(more, o) \subseteq 1 .. (n + 1)
    BY <1>1 DEF WakesOf
  <1>3. \A i \in WakesOf(more, o) : (\A j \in WakesOf(more, o) : j <= i) => i = n + 1
    BY <1>1, <1>2
  <1>4. (CHOOSE i \in WakesOf(more, o) : \A j \in WakesOf(more, o) : j <= i) = n + 1
    BY <1>1, <1>2, <1>3
  <1> QED
    BY <1>1, <1>2, <1>4 DEF LastWake

LEMMA InnerIs ==
    ASSUME events \in Seq(EventRec), NEW w \in WakeFile
    PROVE  Inner(events, w.packet, w.ref) \subseteq Packet
  <1>1. w.packet \in Packet \cup {NoPacket}
    BY WakeFileAssumption
  <1>2. \A i \in DOMAIN events : events[i].packet \in Packet \cup {NoPacket}
    <2>1. \A i \in DOMAIN events : events[i] \in EventRec
      OBVIOUS
    <2> QED
      BY <2>1 DEF EventRec
  <1> QED
    BY <1>1, <1>2 DEF Inner, Found

LEMMA RowIs ==
    ASSUME NEW w \in WakeFile, NEW p \in Packet, NEW now \in Nat
    PROVE  /\ ObligationFromWake(w, p, now) \in RowOfWake
           /\ ObligationFromWake(w, p, now).wake = w /\ ObligationFromWake(w, p, now).work = p.work
  <1>1. w.due \in Nat \cup {NoTime} /\ w.cadence \in Cadence
    BY WakeFileAssumption
  <1>2. p.work \in STRING
    BY WakeFileAssumption
  <1>3. w.cadence.kind \in {"once", "after_first", "interval"} /\ w.cadence.delay \in Nat
    BY <1>1 DEF Cadence
  <1>4. FirstRun(w, now) \in Nat
    BY <1>1, <1>3 DEF FirstRun
  <1> QED
    BY <1>2, <1>4 DEF ObligationFromWake, RowOfWake

LEMMA LoggedIs ==
    ASSUME NEW w \in WakeFile
    PROVE  /\ LoggedAs(w) \in EventRec /\ LoggedAs(w).wake = w /\ w # NoWake
           /\ LoggedAs(w).of = ObligationId(w) /\ LoggedAs(w).id = EventId(w)
  <1>1. w.packet \in Packet \cup {NoPacket} /\ w # NoWake
    BY WakeFileAssumption DEF NoWake
  <1> QED
    BY <1>1, WakeIds DEF LoggedAs, EventRec

\* The log grows by at most one event.
LEMMA LogGrows ==
    ASSUME events \in Seq(EventRec), NEW e \in EventRec, AppendIgnoring(e)
    PROVE  /\ events' \in Seq(EventRec)
           /\ \A p, r : Inner(events, p, r) \subseteq Inner(events', p, r)
           /\ \A id : Taken(id) => Taken(id)'
           /\ Taken(e.id)'
           /\ \A id : Taken(id)' => id = e.id \/ Taken(id)
           /\ \A o \in Obligation : e.wake = NoWake \/ e.of # o =>
                 WakesOf(events', o) = WakesOf(events, o) /\ LastWake(events', o) = LastWake(events, o)
           /\ \A o \in Obligation : e.wake # NoWake /\ e.of = o /\ ~Taken(e.id) => LastWake(events', o) = e.wake
           /\ \A o \in Obligation : WakesOf(events, o) # {} => WakesOf(events', o) # {}
           /\ \A o, w : Held(events, o, w) => Held(events', o, w)
           /\ \A o \in Obligation : e.wake # NoWake /\ e.of = o /\ ~Taken(e.id) => Held(events', o, e.wake)
           /\ Taken(e.id) => events' = events
  <1>1. CASE Taken(e.id)
    <2>1. events' = events
      BY <1>1 DEF AppendIgnoring
    <2> QED
      BY <1>1, <2>1 DEF Taken
  <1>2. CASE ~Taken(e.id)
    <2>1. events' = Append(events, e)
      BY <1>2 DEF AppendIgnoring
    <2>2. \A id : Taken(id) <=> \E i \in DOMAIN events : events[i].id = id
      BY DEF Taken
    <2>3. \A id : Taken(id)' <=> \E i \in DOMAIN events' : events'[i].id = id
      BY DEF Taken
    <2>4. /\ events' \in Seq(EventRec)
          /\ \A p, r : Inner(events, p, r) \subseteq Inner(events', p, r)
      BY <2>1, AppendedLog
    <2>5. /\ \A id : Taken(id) => Taken(id)'
          /\ Taken(e.id)'
          /\ \A id : Taken(id)' => id = e.id \/ Taken(id)
      BY <2>1, <2>2, <2>3, AppendedLog
    <2>6. ASSUME NEW o \in Obligation, e.wake = NoWake \/ e.of # o
          PROVE  WakesOf(events', o) = WakesOf(events, o) /\ LastWake(events', o) = LastWake(events, o)
      BY <2>1, <2>6, AppendedApart
    <2>7. ASSUME NEW o \in Obligation, e.wake # NoWake, e.of = o
          PROVE  WakesOf(events', o) # {} /\ LastWake(events', o) = e.wake
      BY <2>1, <2>7, AppendedWake
    <2>8. /\ DOMAIN events \subseteq DOMAIN events' /\ Len(events) + 1 \in DOMAIN events'
          /\ \A i \in DOMAIN events : events'[i] = events[i]
          /\ events'[Len(events) + 1] = e
      BY <2>1
    <2>9. \A o, w : Held(events, o, w) => Held(events', o, w)
      BY <2>8 DEF Held, WakesOf
    <2>10. ASSUME NEW o \in Obligation, e.wake # NoWake, e.of = o PROVE Held(events', o, e.wake)
      BY <2>8, <2>10 DEF Held, WakesOf
    <2> QED
      BY <1>2, <2>4, <2>5, <2>6, <2>7, <2>9, <2>10
  <1> QED
    BY <1>1, <1>2

LEMMA WakeInvInit == WakeInit => WakeInv
  <1> SUFFICES ASSUME WakeInit PROVE WakeInv
    OBVIOUS
  <1>1. events = <<>> /\ events \in Seq(EventRec) /\ DOMAIN events = {}
    BY DEF WakeInit
  <1>2. PICK old \in SUBSET Legacy :
          obligations = [o \in Obligation |->
              IF \E w \in old : ObligationId(w) = o
              THEN LET w == CHOOSE v \in old : ObligationId(v) = o
                   IN ObligationFromWake(w, w.packet, 0)
              ELSE NoObligation]
    BY DEF WakeInit
  <1>3. ASSUME NEW o \in Obligation, NEW v \in old, ObligationId(v) = o
        PROVE  \E w \in old : /\ ObligationId(w) = o
                              /\ obligations[o] = ObligationFromWake(w, w.packet, 0)
    <2> DEFINE w == CHOOSE u \in old : ObligationId(u) = o
    <2>1. w \in old /\ ObligationId(w) = o
      BY <1>3
    <2>2. obligations[o] = ObligationFromWake(w, w.packet, 0)
      BY <1>2, <1>3
    <2> HIDE DEF w
    <2> QED
      BY <2>1, <2>2
  <1>4. ASSUME NEW o \in Obligation
        PROVE  \/ obligations[o] = NoObligation
               \/ \E w \in Legacy : /\ ObligationId(w) = o
                                    /\ obligations[o] = ObligationFromWake(w, w.packet, 0)
    BY <1>2, <1>3
  <1>5. \A w \in Legacy : w \in WakeFile /\ w.packet \in Packet /\ w.packet # NoPacket
    BY WakeFileAssumption
  <1>6. ASSUME NEW o \in Obligation, obligations[o] # NoObligation
        PROVE  /\ obligations[o] \in RowOfWake /\ obligations[o].wake \in WakeFile
               /\ ObligationId(obligations[o].wake) = o
               /\ \E inner \in Inner(events, obligations[o].wake.packet, obligations[o].wake.ref) :
                     inner.work = obligations[o].work
    <2>1. PICK w \in Legacy : /\ ObligationId(w) = o
                              /\ obligations[o] = ObligationFromWake(w, w.packet, 0)
      BY <1>4, <1>6
    <2>2. obligations[o] \in RowOfWake /\ obligations[o].wake = w /\ obligations[o].work = w.packet.work
      BY <1>5, <2>1, RowIs
    <2> QED
      BY <1>5, <2>1, <2>2 DEF Inner
  <1>7. WakeTyped
    <2>1. obligations \in [Obligation -> {NoObligation} \cup RowOfWake]
      BY <1>2, <1>6
    <2>2. caller \in [Scheduler -> CallerRec]
      BY DEF WakeInit, CallerRec
    <2> QED
      BY <1>1, <2>1, <2>2, WakeFileAssumption DEF WakeInit, WakeTyped
  <1>8. \A c \in Scheduler : caller[c].step = "idle"
    BY DEF WakeInit
  <1>9. RowLogged /\ RowLatest
    BY <1>1 DEF RowLogged, RowLatest, Unlogged, WakesOf, Taken, WakeInit
  <1> QED
    BY <1>6, <1>7, <1>8, <1>9 DEF WakeInit, WakeInv, RowOwned, CallerLogged, LogOpened, NobodyYet

\* No row changes, the log has grown, and nobody but c moves.
LEMMA LogOnly ==
    ASSUME WakeInv, UNCHANGED obligations, NEW e \in EventRec, AppendIgnoring(e),
           caller' \in [Scheduler -> CallerRec]
    PROVE  /\ events' \in Seq(EventRec) /\ RowOwned'
           /\ \A o \in Obligation : ~Unlogged(o) => ~Unlogged(o)'
           /\ \A o, w : Held(events, o, w) => Held(events', o, w)
           /\ \A c \in Scheduler : caller'[c] = caller[c] /\ caller[c].step = "upsert" =>
                 /\ Taken(EventId(caller[c].wake))'
                 /\ caller[c].inner \in Inner(events', caller[c].wake.packet, caller[c].wake.ref)
  <1>1. events \in Seq(EventRec)
    BY DEF WakeInv, WakeTyped
  <1>2. /\ events' \in Seq(EventRec)
        /\ \A p, r : Inner(events, p, r) \subseteq Inner(events', p, r)
        /\ \A id : Taken(id) => Taken(id)'
        /\ \A o \in Obligation : WakesOf(events, o) # {} => WakesOf(events', o) # {}
        /\ \A o, w : Held(events, o, w) => Held(events', o, w)
    BY <1>1, LogGrows
  <1>3. RowOwned'
    BY <1>2 DEF WakeInv, RowOwned, ObligationId
  <1>4. ASSUME NEW o \in Obligation, ~Unlogged(o) PROVE ~Unlogged(o)'
    <2>1. Taken(EventId(obligations[o].wake)) => Taken(EventId(obligations[o].wake))'
      BY <1>2 DEF EventId, ObligationId
    <2> QED
      BY <1>2, <1>4, <2>1 DEF Unlogged, EventId, ObligationId
  <1>5. ASSUME NEW c \in Scheduler, caller'[c] = caller[c], caller[c].step = "upsert"
        PROVE  /\ Taken(EventId(caller[c].wake))'
               /\ caller[c].inner \in Inner(events', caller[c].wake.packet, caller[c].wake.ref)
    <2>1. /\ Taken(EventId(caller[c].wake))
          /\ caller[c].inner \in Inner(events, caller[c].wake.packet, caller[c].wake.ref)
      BY <1>5 DEF WakeInv, CallerLogged
    <2>2. EventId(caller[c].wake)' = EventId(caller[c].wake)
      BY <1>5 DEF EventId, ObligationId
    <2>3. Taken(EventId(caller[c].wake))'
      BY <1>2, <2>1, <2>2 DEF Taken
    <2> QED
      BY <1>2, <2>1, <2>3
  <1> QED
    BY <1>2, <1>3, <1>4, <1>5

LEMMA WakeInvStep == WakeInv /\ [WakeNext]_wakeVars => WakeInv'
  <1> SUFFICES ASSUME WakeInv, [WakeNext]_wakeVars PROVE WakeInv'
    OBVIOUS
  <1>0. /\ events \in Seq(EventRec) /\ obligations \in [Obligation -> {NoObligation} \cup RowOfWake]
        /\ caller \in [Scheduler -> CallerRec] /\ calls \in 0 .. MaxCall /\ deaths \in 0 .. MaxDeath
        /\ ignored \subseteq Obligation /\ behind \subseteq Obligation
        /\ RowOwned /\ CallerLogged /\ LogOpened /\ NobodyYet /\ RowLogged /\ RowLatest
    BY DEF WakeInv, WakeTyped
  <1>00. \A o \in Obligation : obligations[o] # NoObligation => obligations[o].wake \in WakeFile
    BY <1>0 DEF RowOfWake
  <1>1. CASE UNCHANGED wakeVars
    BY <1>0, <1>1 DEF wakeVars, WakeInv, WakeTyped, RowOwned, CallerLogged, LogOpened, NobodyYet,
       RowLogged, RowLatest, WritesLast, Writes, Unlogged, Taken, EventId, ObligationId
  <1>2. ASSUME NEW b \in Obligation, BackfillWake(b) PROVE WakeInv'
    <2> PICK w : w = obligations[b].wake
      OBVIOUS
    <2>1. /\ Unlogged(b) /\ AppendIgnoring(LoggedAs(w))
          /\ UNCHANGED <<obligations, caller, calls, deaths, ignored, behind>>
      BY <1>2 DEF BackfillWake
    <2>2. w \in WakeFile /\ ObligationId(w) = b /\ ~Taken(EventId(w)) /\ obligations[b] # NoObligation
      BY <1>0, <1>00, <2>1 DEF Unlogged, RowOwned
    <2> PICK e : e = LoggedAs(w)
      OBVIOUS
    <2>3. e \in EventRec /\ e.wake = w /\ w # NoWake /\ e.of = b /\ e.id = EventId(w)
      BY <2>2, LoggedIs
    <2>4. calls = 0
      BY <1>0, <2>1 DEF LogOpened
    <2>5. /\ events' \in Seq(EventRec) /\ RowOwned'
          /\ \A o \in Obligation : ~Unlogged(o) => ~Unlogged(o)'
          /\ \A o, v : Held(events, o, v) => Held(events', o, v)
      BY <1>0, <2>1, <2>3, LogOnly
    <2>6. /\ \A id : Taken(id)' => id = e.id \/ Taken(id)
          /\ \A o \in Obligation : e.of # o =>
                WakesOf(events', o) = WakesOf(events, o) /\ LastWake(events', o) = LastWake(events, o)
          /\ LastWake(events', b) = w /\ Held(events', b, w)
      BY <1>0, <2>1, <2>2, <2>3, LogGrows
    <2>7. ASSUME NEW o \in Obligation, obligations[o] # NoObligation, o \notin ignored, ~Unlogged(o)'
          PROVE  /\ Held(events', o, obligations[o].wake)
                 /\ o \in behind \/ LastWake(events', o) = obligations[o].wake
      <3>1. CASE o = b
        BY <2>6, <3>1
      <3>2. CASE o # b
        <4> PICK v : v = obligations[o].wake
          OBVIOUS
        <4>1. v \in WakeFile /\ ObligationId(v) = o
          BY <1>0, <1>00, <2>7 DEF RowOwned
        <4>2. EventId(v) # e.id
          BY <2>2, <2>3, <3>2, <4>1, EventIdsApart
        <4>3. Taken(EventId(v))' => Taken(EventId(v))
          <5>1. EventId(v)' = EventId(v)
            BY DEF EventId, ObligationId
          <5>2. Taken(EventId(v))' <=> \E i \in DOMAIN events' : events'[i].id = EventId(v)
            BY <5>1 DEF Taken
          <5>3. (\E i \in DOMAIN events' : events'[i].id = EventId(v)) => Taken(EventId(v))
            <6>1. \A id : (\E i \in DOMAIN events' : events'[i].id = id) => id = e.id \/ Taken(id)
              BY <2>6 DEF Taken
            <6> QED
              BY <4>2, <6>1
          <5> QED
            BY <5>2, <5>3
        <4>4. WakesOf(events', o) = WakesOf(events, o) /\ LastWake(events', o) = LastWake(events, o)
          BY <2>3, <2>6, <3>2
        <4>5. EventId(obligations[o].wake)' = EventId(v)
          BY <2>1 DEF EventId, ObligationId
        <4>6. ~Unlogged(o)
          <5>1. WakesOf(events', o) # {} \/ Taken(EventId(v))'
            BY <2>1, <2>7, <4>5 DEF Unlogged, Taken, EventId, ObligationId
          <5> QED
            BY <4>3, <4>4, <5>1 DEF Unlogged
        <4>7. Held(events', o, obligations[o].wake)
          BY <1>0, <2>5, <2>7, <4>6 DEF RowLogged
        <4>8. o \in behind \/ LastWake(events, o) = obligations[o].wake
          BY <1>0, <2>4, <2>7, <4>6 DEF RowLatest, WritesLast, Writes, NobodyYet
        <4> QED
          BY <4>4, <4>7, <4>8
      <3> QED
        BY <3>1, <3>2, <2>7
    <2>8. RowLogged' /\ RowLatest'
      BY <2>1, <2>7 DEF RowLogged, RowLatest
    <2>9. CallerLogged'
      BY <1>0, <2>1, <2>4 DEF CallerLogged, NobodyYet
    <2> QED
      BY <1>0, <2>1, <2>4, <2>5, <2>8, <2>9 DEF WakeInv, WakeTyped, LogOpened, NobodyYet
  <1>3. ASSUME NEW c \in Scheduler, ScheduleCalendar(c) PROVE WakeInv'
    <2>1. PICK w \in WakeFile : caller' = [caller EXCEPT ![c] = [step |-> "put", wake |-> w]]
      BY <1>3 DEF ScheduleCalendar, Goes
    <2>2. /\ UNCHANGED <<events, obligations, deaths, ignored, behind>> /\ calls' = calls + 1
          /\ calls < MaxCall /\ caller[c].step = "idle" /\ \A o \in Obligation : ~Unlogged(o)
      BY <1>3 DEF ScheduleCalendar
    <2>3. [step |-> "put", wake |-> w] \in CallerRec
      BY DEF CallerRec
    <2>4. /\ caller' \in [Scheduler -> CallerRec] /\ caller'[c].step = "put"
          /\ \A d \in Scheduler \ {c} : caller'[d] = caller[d]
      BY <1>0, <2>1, <2>3
    <2>5. calls' \in 0 .. MaxCall /\ calls' # 0
      BY <1>0, <2>2, WakeFileAssumption
    <2>6. RowOwned' /\ (\A o \in Obligation : ~Unlogged(o)')
      BY <1>0, <2>2 DEF RowOwned, ObligationId, Unlogged, Taken, EventId
    <2>7. CallerLogged'
      BY <1>0, <2>2, <2>4 DEF CallerLogged, ObligationId, Taken, EventId
    <2>8. \A o : \A d \in Scheduler : WritesLast(d, o)' <=> WritesLast(d, o)
      BY <2>2, <2>4 DEF WritesLast, Writes, ObligationId
    <2>9. RowLogged' /\ RowLatest'
      BY <1>0, <2>2, <2>8 DEF RowLogged, RowLatest
    <2> QED
      BY <1>0, <2>2, <2>4, <2>5, <2>6, <2>7, <2>9 DEF WakeInv, WakeTyped, LogOpened, NobodyYet
  <1>4. ASSUME NEW c \in Scheduler, PutCopPacket(c) PROVE WakeInv'
    <2> PICK w : w = caller[c].wake
      OBVIOUS
    <2>1. /\ caller[c].step = "put" /\ caller' = [caller EXCEPT ![c] = [step |-> "log", wake |-> w]]
          /\ UNCHANGED <<obligations, calls, deaths, ignored, behind>>
      BY <1>4 DEF PutCopPacket, Goes
    <2>2. w \in WakeFile
      BY <1>0, <2>1 DEF CallerRec
    <2>3. [step |-> "log", wake |-> w] \in CallerRec
      BY <2>2 DEF CallerRec
    <2>4. /\ caller' \in [Scheduler -> CallerRec] /\ caller'[c].step = "log"
          /\ \A d \in Scheduler \ {c} : caller'[d] = caller[d]
      BY <1>0, <2>1, <2>3
    <2>5. calls # 0 /\ \A o \in Obligation : ~Unlogged(o)
      BY <1>0, <2>1 DEF NobodyYet, LogOpened
    <2>8. \A o : \A d \in Scheduler : WritesLast(d, o)' <=> WritesLast(d, o)
      BY <2>1, <2>4 DEF WritesLast, Writes, ObligationId
    <2>6. CASE events' = events
      <3>1. RowOwned' /\ (\A o \in Obligation : ~Unlogged(o)')
        BY <1>0, <2>1, <2>5, <2>6 DEF RowOwned, ObligationId, Unlogged, Taken, EventId
      <3>2. CallerLogged'
        BY <1>0, <2>1, <2>4, <2>6 DEF CallerLogged, ObligationId, Taken, EventId
      <3>3. RowLogged' /\ RowLatest'
        BY <1>0, <2>1, <2>5, <2>6, <2>8 DEF RowLogged, RowLatest
      <3> QED
        BY <1>0, <2>1, <2>4, <2>5, <2>6, <3>1, <3>2, <3>3 DEF WakeInv, WakeTyped, LogOpened, NobodyYet
    <2>7. CASE events' # events
      <3> PICK e : e = [id |-> w.packet.id, packet |-> w.packet, wake |-> NoWake, of |-> NoRef]
        OBVIOUS
      <3>1. w.packet # NoPacket /\ w.packet.id # NoRef /\ AppendIgnoring(e)
        BY <1>4, <2>7 DEF PutCopPacket
      <3>2. w.packet \in Packet
        BY <2>2, <3>1, WakeFileAssumption
      <3>3. w.packet.id \in WakeId
        BY <3>1, <3>2, WakeFileAssumption DEF WakeId
      <3>4. e \in EventRec /\ e.wake = NoWake
        BY <3>2, <3>3 DEF EventRec
      <3>5. /\ events' \in Seq(EventRec) /\ RowOwned'
            /\ \A o \in Obligation : ~Unlogged(o)'
            /\ \A o, v : Held(events, o, v) => Held(events', o, v)
            /\ \A d \in Scheduler : caller'[d] = caller[d] /\ caller[d].step = "upsert" =>
                  /\ Taken(EventId(caller[d].wake))'
                  /\ caller[d].inner \in Inner(events', caller[d].wake.packet, caller[d].wake.ref)
        BY <1>0, <2>1, <2>4, <2>5, <3>1, <3>4, LogOnly
      <3>6. \A o \in Obligation : LastWake(events', o) = LastWake(events, o)
        BY <1>0, <3>1, <3>4, LogGrows
      <3>9. CallerLogged'
        <4> SUFFICES ASSUME NEW d \in Scheduler, caller'[d].step = "upsert"
                     PROVE  /\ \E i \in DOMAIN events' : events'[i].id = EventId(caller'[d].wake)
                            /\ caller'[d].inner \in Inner(events', caller'[d].wake.packet, caller'[d].wake.ref)
                            /\ ~caller'[d].dropped =>
                                  Held(events', ObligationId(caller'[d].wake), caller'[d].wake)
                            /\ ~caller'[d].dropped /\ ~caller'[d].overtaken =>
                                  LastWake(events', ObligationId(caller'[d].wake)) = caller'[d].wake
          BY DEF CallerLogged, ObligationId, EventId, Taken
        <4>1. caller'[d] = caller[d]
          BY <2>4
        <4>2. caller[d].wake \in WakeFile
          BY <1>0, <4>1 DEF CallerRec
        <4>3. ObligationId(caller[d].wake) \in Obligation
          BY <4>2, WakeIds
        <4>4. Taken(EventId(caller[d].wake))
          BY <1>0, <4>1 DEF CallerLogged
        <4>5. \E i \in DOMAIN events' : events'[i].id = EventId(caller[d].wake)
          <5>1. \A id : Taken(id) => \E i \in DOMAIN events' : events'[i].id = id
            BY <1>0, <3>1, <3>4, LogGrows DEF Taken
          <5> QED
            BY <4>4, <5>1
        <4> QED
          BY <1>0, <3>5, <3>6, <4>1, <4>3, <4>5 DEF CallerLogged
      <3>8. RowLogged' /\ RowLatest'
        BY <1>0, <2>1, <2>5, <2>8, <3>5, <3>6 DEF RowLogged, RowLatest
      <3> QED
        BY <1>0, <2>1, <2>4, <2>5, <3>5, <3>8, <3>9 DEF WakeInv, WakeTyped, LogOpened, NobodyYet
    <2> QED
      BY <2>6, <2>7
  <1>5. ASSUME NEW c \in Scheduler, caller' = [caller EXCEPT ![c] = [step |-> "idle"]],
               behind' = behind \cup {o \in Obligation : WritesLast(c, o)},
               caller[c].step # "idle", UNCHANGED <<events, obligations, calls, ignored>>,
               deaths' \in 0 .. MaxDeath
        PROVE  WakeInv'
    <2>1. [step |-> "idle"] \in CallerRec
      BY DEF CallerRec
    <2>2. /\ caller' \in [Scheduler -> CallerRec] /\ caller'[c].step = "idle"
          /\ \A d \in Scheduler \ {c} : caller'[d] = caller[d]
      BY <1>0, <1>5, <2>1
    <2>3. calls # 0 /\ \A o \in Obligation : ~Unlogged(o)
      BY <1>0, <1>5 DEF NobodyYet, LogOpened
    <2>4. RowOwned' /\ (\A o \in Obligation : ~Unlogged(o)')
      BY <1>0, <1>5, <2>3 DEF RowOwned, ObligationId, Unlogged, Taken, EventId
    <2>5. CallerLogged'
      BY <1>0, <1>5, <2>2 DEF CallerLogged, ObligationId, Taken, EventId
    <2>6. ASSUME NEW o \in Obligation \ behind', NEW d \in Scheduler, WritesLast(d, o)
          PROVE  WritesLast(d, o)'
      BY <1>5, <2>2, <2>6 DEF WritesLast, Writes, ObligationId
    <2>7. RowLogged' /\ RowLatest'
      <3>1. RowLogged'
        BY <1>0, <1>5, <2>3 DEF RowLogged
      <3>2. RowLatest'
        BY <1>0, <1>5, <2>3, <2>6 DEF RowLatest
      <3> QED
        BY <3>1, <3>2
    <2>8. behind' \subseteq Obligation
      BY <1>0, <1>5
    <2> QED
      BY <1>0, <1>5, <2>2, <2>3, <2>4, <2>5, <2>7, <2>8 DEF WakeInv, WakeTyped, LogOpened, NobodyYet
  <1>6. ASSUME NEW c \in Scheduler, RefuseWake(c) PROVE WakeInv'
    <2>1. behind' = behind \cup {o \in Obligation : WritesLast(c, o)}
      BY <1>6 DEF RefuseWake, WritesLast, Writes
    <2> QED
      BY <1>0, <1>5, <1>6, <2>1 DEF RefuseWake, Goes
  <1>7. ASSUME NEW c \in Scheduler, SchedulerDies(c) PROVE WakeInv'
    <2>1. deaths' \in 0 .. MaxDeath
      BY <1>0, <1>7, WakeFileAssumption DEF SchedulerDies
    <2>2. behind' = behind \cup {o \in Obligation : WritesLast(c, o)}
      BY <1>7 DEF SchedulerDies, WritesLast
    <2> QED
      BY <1>0, <1>5, <1>7, <2>1, <2>2 DEF SchedulerDies, Goes
  <1>8. ASSUME NEW c \in Scheduler, AppendWake(c) PROVE WakeInv'
    <2> PICK w : w = caller[c].wake
      OBVIOUS
    <2> PICK b : b = ObligationId(w)
      OBVIOUS
    <2> PICK e : e = LoggedAs(w)
      OBVIOUS
    <2> DEFINE new == ~Taken(EventId(w))
               met(d) == new /\ Writes(d, b)
               now(inner) == [step |-> "upsert", wake |-> w, inner |-> inner, dropped |-> Dropped(w),
                              overtaken |-> ~new /\ LastWake(events, b) # w]
    <2>1. PICK inner \in Inner(events, w.packet, w.ref) :
             caller' = [d \in Scheduler |->
                IF d = c THEN now(inner)
                ELSE IF met(d) THEN [caller[d] EXCEPT !.overtaken = TRUE] ELSE caller[d]]
      BY <1>8 DEF AppendWake
    <2>2. /\ caller[c].step = "log" /\ AppendIgnoring(e)
          /\ UNCHANGED <<obligations, calls, deaths, ignored, behind>>
      BY <1>8 DEF AppendWake
    <2>3. w \in WakeFile /\ b \in Obligation
      BY <1>0, <2>2, WakeIds DEF CallerRec
    <2>4. inner \in Packet
      BY <1>0, <2>1, <2>3, InnerIs
    <2>5. now(inner) \in CallerRec /\ caller'[c] = now(inner)
      <3>1. Dropped(w) \in BOOLEAN /\ (~new /\ LastWake(events, b) # w) \in BOOLEAN
        BY DEF Dropped
      <3> QED
        BY <2>1, <2>3, <2>4, <3>1 DEF CallerRec
    <2>6. ASSUME NEW d \in Scheduler \ {c}
          PROVE  /\ caller'[d] \in CallerRec /\ caller'[d].step = caller[d].step
                 /\ caller[d].step = "upsert" =>
                       /\ caller'[d].wake = caller[d].wake /\ caller'[d].inner = caller[d].inner
                       /\ caller'[d].dropped = caller[d].dropped
                 /\ met(d) => caller'[d].overtaken
                 /\ ~met(d) => caller'[d] = caller[d]
      <3>1. caller[d] \in CallerRec
        BY <1>0
      <3>2. CASE ~met(d)
        BY <2>1, <3>1, <3>2
      <3>3. CASE met(d)
        <4>1. caller[d] \in [step : {"upsert"}, wake : WakeFile, inner : Packet,
                              dropped : BOOLEAN, overtaken : BOOLEAN]
          BY <3>1, <3>3 DEF CallerRec, Writes
        <4>2. caller'[d] = [caller[d] EXCEPT !.overtaken = TRUE]
          BY <2>1, <3>3
        <4> QED
          BY <3>3, <4>1, <4>2 DEF CallerRec
      <3> QED
        BY <3>2, <3>3
    <2>7. calls # 0 /\ \A o \in Obligation : ~Unlogged(o)
      BY <1>0, <2>2 DEF NobodyYet, LogOpened
    <2>8. /\ e \in EventRec /\ e.of = b /\ e.id = EventId(w)
          /\ e.wake = w /\ w # NoWake
      BY <2>3, LoggedIs
    <2>15. caller' \in [Scheduler -> CallerRec]
      BY <2>1, <2>5, <2>6
    <2>9. /\ events' \in Seq(EventRec) /\ RowOwned'
          /\ \A o \in Obligation : ~Unlogged(o)'
          /\ \A o, v : Held(events, o, v) => Held(events', o, v)
      BY <1>0, <2>2, <2>7, <2>8, <2>15, LogOnly
    <2>10. /\ \A p, q : Inner(events, p, q) \subseteq Inner(events', p, q)
           /\ \A id : Taken(id) => Taken(id)'
           /\ Taken(e.id)'
           /\ \A o \in Obligation : b # o => LastWake(events', o) = LastWake(events, o)
           /\ new => LastWake(events', b) = w /\ Held(events', b, w)
           /\ ~new => events' = events
      BY <1>0, <2>2, <2>3, <2>8, LogGrows
    <2>11. /\ ~Dropped(w) => Held(events', b, w)
           /\ ~now(inner).overtaken => LastWake(events', b) = w
      <3>1. CASE new
        BY <2>10, <3>1
      <3>2. CASE ~new
        <4>1. PICK i \in DOMAIN events : events[i].id = EventId(w)
          BY <3>2 DEF Taken
        <4>2. ~Dropped(w) => i \in WakesOf(events, b) /\ events[i].wake = w
          BY <2>8, <4>1 DEF Dropped, WakesOf
        <4> QED
          BY <2>10, <3>2, <4>2 DEF Held
      <3> QED
        BY <3>1, <3>2
    <2>12. CallerLogged'
      <3> SUFFICES ASSUME NEW d \in Scheduler, caller'[d].step = "upsert"
                   PROVE  /\ \E i \in DOMAIN events' : events'[i].id = EventId(caller'[d].wake)
                          /\ caller'[d].inner \in Inner(events', caller'[d].wake.packet, caller'[d].wake.ref)
                          /\ ~caller'[d].dropped =>
                                Held(events', ObligationId(caller'[d].wake), caller'[d].wake)
                          /\ ~caller'[d].dropped /\ ~caller'[d].overtaken =>
                                LastWake(events', ObligationId(caller'[d].wake)) = caller'[d].wake
        BY DEF CallerLogged, ObligationId, EventId, Taken
      <3> PICK v : v = caller'[d].wake
        OBVIOUS
      <3>0. /\ \E i \in DOMAIN events' : events'[i].id = e.id
            /\ \A id : Taken(id) => \E i \in DOMAIN events' : events'[i].id = id
        BY <1>0, <2>2, <2>8, LogGrows DEF Taken
      <3>1. CASE d = c
        <4>1. v = w /\ caller'[d] = now(inner)
          BY <2>5, <3>1
        <4>2. \E i \in DOMAIN events' : events'[i].id = EventId(v)
          BY <2>8, <3>0, <4>1
        <4>3. caller'[d].inner = inner /\ inner \in Inner(events', v.packet, v.ref)
          BY <2>1, <2>10, <4>1
        <4>4. /\ caller'[d].dropped = Dropped(w)
              /\ caller'[d].overtaken = now(inner).overtaken
          BY <4>1
        <4> QED
          BY <2>11, <4>1, <4>2, <4>3, <4>4
      <3>2. CASE d # c
        <4>1. /\ caller[d].step = "upsert" /\ v = caller[d].wake /\ caller'[d].inner = caller[d].inner
              /\ caller'[d].dropped = caller[d].dropped
          BY <2>6, <3>2
        <4>2. v \in WakeFile /\ ObligationId(v) \in Obligation
          BY <1>0, <4>1, WakeIds DEF CallerRec
        <4>3. /\ Taken(EventId(v)) /\ caller[d].inner \in Inner(events, v.packet, v.ref)
              /\ ~caller[d].dropped => Held(events, ObligationId(v), v)
              /\ ~caller[d].dropped /\ ~caller[d].overtaken => LastWake(events, ObligationId(v)) = v
          BY <1>0, <4>1 DEF CallerLogged
        <4>4. \E i \in DOMAIN events' : events'[i].id = EventId(v)
          BY <3>0, <4>3
        <4>5. ~caller'[d].overtaken => ~caller[d].overtaken /\ (new => ObligationId(v) # b)
          BY <2>6, <3>2, <4>1 DEF Writes
        <4>6. ~caller'[d].overtaken /\ ~caller[d].dropped => LastWake(events', ObligationId(v)) = v
          BY <2>10, <4>2, <4>3, <4>5
        <4>7. /\ caller'[d].inner \in Inner(events', v.packet, v.ref)
              /\ ~caller'[d].dropped => Held(events', ObligationId(v), v)
          BY <2>9, <2>10, <4>1, <4>3
        <4> QED
          BY <4>1, <4>4, <4>6, <4>7
      <3> QED
        BY <3>1, <3>2
    <2>13. RowLatest'
      <3> SUFFICES ASSUME NEW o \in Obligation, obligations[o] # NoObligation, o \notin ignored \cup behind
                   PROVE  \/ LastWake(events', o) = obligations[o].wake
                          \/ \E d \in Scheduler : WritesLast(d, o)'
        BY <2>2 DEF RowLatest
      <3>1. CASE o = b /\ new
        <4>1. ~Dropped(w)
          BY <3>1 DEF Dropped, Taken
        <4>2. /\ caller'[c].step = "upsert" /\ caller'[c].wake = w
              /\ ~caller'[c].dropped /\ ~caller'[c].overtaken
          <5>1. caller'[c].step = "upsert" /\ caller'[c].wake = w
            BY <2>5
          <5>2. ~now(inner).dropped
            BY <4>1
          <5>3. now(inner).overtaken = FALSE
            BY <3>1
          <5> HIDE DEF now
          <5> QED
            BY <2>5, <5>1, <5>2, <5>3
        <4>3. WritesLast(c, o)'
          BY <3>1, <4>2 DEF WritesLast, Writes, ObligationId
        <4> QED
          BY <4>3
      <3>2. CASE o # b \/ ~new
        <4>1. LastWake(events', o) = LastWake(events, o)
          BY <2>10, <3>2
        <4>2. ASSUME NEW d \in Scheduler, WritesLast(d, o) PROVE WritesLast(d, o)'
          <5>1. d # c /\ ~met(d)
            BY <2>2, <3>2, <4>2 DEF WritesLast, Writes
          <5>2. caller'[d] = caller[d]
            BY <2>6, <5>1
          <5> QED
            BY <4>2, <5>2 DEF WritesLast, Writes, ObligationId
        <4> QED
          BY <1>0, <2>7, <4>1, <4>2 DEF RowLatest
      <3> QED
        BY <3>1, <3>2
    <2>14. RowLogged'
      BY <1>0, <2>2, <2>7, <2>9 DEF RowLogged
    <2> QED
      BY <1>0, <2>2, <2>7, <2>9, <2>12, <2>13, <2>14, <2>15 DEF WakeInv, WakeTyped, LogOpened, NobodyYet
  <1>9. ASSUME NEW c \in Scheduler, UpsertObligation(c) PROVE WakeInv'
    <2> PICK w : w = caller[c].wake
      OBVIOUS
    <2> PICK b : b = ObligationId(w)
      OBVIOUS
    <2> PICK new : new = ObligationFromWake(w, caller[c].inner, calls)
      OBVIOUS
    <2>1. /\ caller[c].step = "upsert" /\ caller' = [caller EXCEPT ![c] = [step |-> "idle"]]
          /\ obligations' = [obligations EXCEPT ![b] = new] /\ UNCHANGED <<events, calls, deaths>>
          /\ ignored' = IF caller[c].dropped THEN ignored \cup {b} ELSE ignored \ {b}
          /\ behind' = IF caller[c].overtaken THEN behind \cup {b} ELSE behind \ {b}
      BY <1>9 DEF UpsertObligation, Goes
    <2>2. w \in WakeFile /\ b \in Obligation /\ caller[c].inner \in Packet
      BY <1>0, <2>1, WakeIds DEF CallerRec
    <2>3. new \in RowOfWake /\ new.wake = w /\ new.work = caller[c].inner.work
      BY <1>0, <2>2, RowIs
    <2>4. /\ obligations' \in [Obligation -> {NoObligation} \cup RowOfWake] /\ obligations'[b] = new
          /\ \A o \in Obligation \ {b} : obligations'[o] = obligations[o]
      BY <1>0, <2>1, <2>2, <2>3
    <2>5. /\ Taken(EventId(w)) /\ caller[c].inner \in Inner(events, w.packet, w.ref)
          /\ ~caller[c].dropped => Held(events, b, w)
          /\ ~caller[c].dropped /\ ~caller[c].overtaken => LastWake(events, b) = w
      BY <1>0, <2>1 DEF CallerLogged
    <2>6. [step |-> "idle"] \in CallerRec
      BY DEF CallerRec
    <2>7. /\ caller' \in [Scheduler -> CallerRec] /\ caller'[c].step = "idle"
          /\ \A d \in Scheduler \ {c} : caller'[d] = caller[d]
      BY <1>0, <2>1, <2>6
    <2>8. calls # 0 /\ \A o \in Obligation : ~Unlogged(o)
      BY <1>0, <2>1 DEF NobodyYet, LogOpened
    <2>9. RowOwned'
      <3>1. \A v : ObligationId(v)' = ObligationId(v)
        BY DEF ObligationId
      <3>2. ASSUME NEW o \in Obligation, obligations'[o] # NoObligation
            PROVE  /\ ObligationId(obligations'[o].wake) = o
                   /\ \E inner \in Inner(events, obligations'[o].wake.packet, obligations'[o].wake.ref) :
                         inner.work = obligations'[o].work
        <4>1. CASE o = b
          BY <2>3, <2>4, <2>5, <4>1
        <4>2. CASE o # b
          BY <1>0, <2>4, <3>2, <4>2 DEF RowOwned
        <4> QED
          BY <4>1, <4>2
      <3> QED
        BY <2>1, <3>1, <3>2 DEF RowOwned
    <2>10. \A o \in Obligation : ~Unlogged(o)'
      <3>1. \A v : (EventId(v)' = EventId(v)) /\ (Taken(EventId(v))' <=> Taken(EventId(v)))
        BY <2>1 DEF EventId, ObligationId, Taken
      <3>2. ~Unlogged(b)'
        BY <2>1, <2>3, <2>4, <2>5, <3>1 DEF Unlogged
      <3>3. ASSUME NEW o \in Obligation \ {b} PROVE ~Unlogged(o)'
        <4>1. ~Unlogged(o) /\ obligations'[o] = obligations[o]
          BY <2>4, <2>8
        <4> QED
          BY <2>1, <3>1, <4>1 DEF Unlogged
      <3> QED
        BY <3>2, <3>3
    <2>11. CallerLogged'
      BY <1>0, <2>1, <2>7 DEF CallerLogged, ObligationId, Taken, EventId
    <2>12. ASSUME NEW o \in Obligation, obligations'[o] # NoObligation, o \notin ignored'
           PROVE  /\ Held(events, o, obligations'[o].wake)
                  /\ \/ o \in behind' \/ LastWake(events, o) = obligations'[o].wake
                     \/ \E d \in Scheduler : WritesLast(d, o)'
      <3>1. CASE o = b
        BY <2>1, <2>3, <2>4, <2>5, <2>12, <3>1
      <3>2. CASE o # b
        <4>1. o \notin ignored /\ (o \notin behind' => o \notin behind) /\ obligations'[o] = obligations[o]
          BY <2>1, <2>4, <2>12, <3>2
        <4>2. ASSUME NEW d \in Scheduler, WritesLast(d, o) PROVE WritesLast(d, o)'
          <5>1. d # c
            BY <2>1, <3>2, <4>2 DEF WritesLast, Writes
          <5> QED
            BY <2>7, <4>2, <5>1 DEF WritesLast, Writes, ObligationId
        <4> QED
          BY <1>0, <2>8, <2>12, <4>1, <4>2 DEF RowLogged, RowLatest
      <3> QED
        BY <3>1, <3>2
    <2>14. RowLogged' /\ RowLatest'
      BY <2>1, <2>12 DEF RowLogged, RowLatest
    <2>13. ignored' \subseteq Obligation /\ behind' \subseteq Obligation
      BY <1>0, <2>1, <2>2
    <2> QED
      BY <1>0, <2>1, <2>4, <2>7, <2>8, <2>9, <2>10, <2>11, <2>13, <2>14
      DEF WakeInv, WakeTyped, LogOpened, NobodyYet
  <1> QED
    BY <1>1, <1>2, <1>3, <1>4, <1>6, <1>7, <1>8, <1>9 DEF WakeNext

\* Whatever processes share the database, however their statements fall
\* between each other's and wherever they die, a row is of a wake that the log
\* holds for it, and of the last one where nothing overtook the call that wrote
\* it (cop-packets.js, calendar-store.js).
THEOREM RowsFromLog == WakeSpec => []RowFromLog
  <1>1. WakeInit => WakeInv
    BY WakeInvInit
  <1>2. WakeInv /\ [WakeNext]_wakeVars => WakeInv'
    BY WakeInvStep
  <1>3. WakeInv => RowFromLog
    BY DEF WakeInv, RowOwned, RowLogged, RowLatest, Held, WritesLast, RowFromLog
  <1> QED
    BY <1>1, <1>2, <1>3, PTL DEF WakeSpec

---------------------------------------------------------------------------
(* The mail server.                                                        *)

DaemonRec == [state : {"down", "starting", "up"}, env : Mode, tls : Pair]
ScriptRec == [step : Step, flag : BOOLEAN, torn : BOOLEAN, crossed : BOOLEAN, running : BOOLEAN,
              taken : Archive \cup {NoArchive}]

MailTyped ==
    /\ daemon \in DaemonRec /\ envFile \in Mode /\ tls \in Pair /\ source \in Nat
    /\ password \in {"none", "placeholder", "real"}
    /\ archive \in Archive \cup {NoArchive} /\ mixed \in BOOLEAN
    /\ job \in [Job -> ScriptRec] /\ started \in 0 .. MaxJob /\ forgotten \subseteq Left
    /\ \A j \in Job : job[j].step \in {"halt", "data", "config"} => job[j].taken \in Archive \ {NoArchive}

\* A script that copies data, that nothing crossed and that had the server
\* stopped is alone, and the server has been at rest since; of what is torn
\* it is known why.
AloneAtRest ==
    /\ archive # NoArchive /\ archive.torn => Excused(archive)
    /\ \A j \in Job :
          /\ job[j].taken # NoArchive /\ job[j].taken.torn => Excused(job[j].taken)
          /\ job[j].step \in ForData /\ ~Excused(job[j]) =>
                /\ \A k \in Job \ {j} : job[k].step = "idle"
                /\ job[j].step \in {"pack", "tar", "data"} => daemon.state = "down"
                /\ job[j].step = "tar" => ~job[j].torn

\* The inductive invariant of MailServer.
MailInv == MailTyped /\ MailAccounted /\ AloneAtRest

LEMMA DaemonTurns ==
    ASSUME NEW s \in {"down", "starting", "up"}
    PROVE  Unloaded(s) \in DaemonRec /\ Unloaded(s).state = s
  BY DEF DaemonRec, Unloaded, Mode, First, Pair

LEMMA DaemonStarts ==
    ASSUME daemon \in DaemonRec, Start
    PROVE  /\ daemon' \in DaemonRec
           /\ daemon.state = "down" => daemon'.state = "starting"
           /\ daemon.state # "down" => daemon' = daemon
  BY DaemonTurns DEF Start

\* A script goes on as x.
LEMMA JobBecomes ==
    ASSUME job \in [Job -> ScriptRec], NEW j \in Job, NEW x \in ScriptRec, job' = [job EXCEPT ![j] = x]
    PROVE  /\ job' \in [Job -> ScriptRec] /\ job'[j] = x
           /\ \A k \in Job \ {j} : job'[k] = job[k]
  OBVIOUS

LEMMA JobGoesTo ==
    ASSUME job \in [Job -> ScriptRec], NEW j \in Job, NEW s \in Step, GoTo(j, s)
    PROVE  /\ job' \in [Job -> ScriptRec] /\ job'[j].step = s
           /\ job'[j].flag = job[j].flag /\ job'[j].torn = job[j].torn
           /\ job'[j].crossed = job[j].crossed /\ job'[j].running = job[j].running
           /\ job'[j].taken = job[j].taken
           /\ \A k \in Job \ {j} : job'[k] = job[k]
  <1> DEFINE x == [job[j] EXCEPT !.step = s]
  <1>1. job[j] \in ScriptRec /\ job' = [job EXCEPT ![j] = x]
    BY DEF GoTo
  <1>2. /\ x \in ScriptRec /\ x.step = s /\ x.flag = job[j].flag /\ x.torn = job[j].torn
        /\ x.crossed = job[j].crossed /\ x.running = job[j].running /\ x.taken = job[j].taken
    BY <1>1 DEF ScriptRec
  <1> HIDE DEF x
  <1> QED
    BY <1>1, <1>2, JobBecomes

\* A script goes on with another flag of its own.
LEMMA JobFlags ==
    ASSUME job \in [Job -> ScriptRec], NEW j \in Job, NEW s \in Step, NEW b \in BOOLEAN,
           job' = [job EXCEPT ![j].step = s, ![j].flag = b]
    PROVE  /\ job' \in [Job -> ScriptRec] /\ job'[j].step = s
           /\ (job'[j].flag <=> b) /\ job'[j].torn = job[j].torn
           /\ job'[j].crossed = job[j].crossed /\ job'[j].running = job[j].running
           /\ job'[j].taken = job[j].taken
           /\ \A k \in Job \ {j} : job'[k] = job[k]
  <1> DEFINE x == [job[j] EXCEPT !.step = s]
             y == [x EXCEPT !.flag = b]
  <1>1. job' = [job EXCEPT ![j] = y] /\ job[j] \in ScriptRec
    OBVIOUS
  <1>2. /\ x \in ScriptRec /\ x.step = s /\ x.torn = job[j].torn
        /\ x.crossed = job[j].crossed /\ x.running = job[j].running /\ x.taken = job[j].taken
    BY <1>1 DEF ScriptRec
  <1>3. /\ y \in ScriptRec /\ y.step = s /\ y.flag = b /\ y.torn = job[j].torn
        /\ y.crossed = job[j].crossed /\ y.running = job[j].running /\ y.taken = job[j].taken
    <2> HIDE DEF x
    <2> QED BY <1>2 DEF ScriptRec
  <1> HIDE DEF y
  <1> QED
    BY <1>1, <1>3, JobBecomes

\* A script has copied its data.
LEMMA JobCopied ==
    ASSUME job \in [Job -> ScriptRec], NEW j \in Job, NEW s \in Step, CopyDone(j, s)
    PROVE  /\ job' \in [Job -> ScriptRec] /\ job'[j].step = s
           /\ job'[j].flag = job[j].flag /\ job'[j].taken = job[j].taken
           /\ \A k \in Job \ {j} : job'[k] = job[k]
  <1> DEFINE x == [job[j] EXCEPT !.step = s]
             y == [x EXCEPT !.torn = FALSE]
             z == [y EXCEPT !.crossed = FALSE]
             w == [z EXCEPT !.running = FALSE]
  <1>1. job' = [job EXCEPT ![j] = w] /\ job[j] \in ScriptRec
    BY DEF CopyDone
  <1>2. x \in ScriptRec /\ x.step = s /\ x.flag = job[j].flag /\ x.taken = job[j].taken
    BY <1>1 DEF ScriptRec
  <1>3. y \in ScriptRec /\ y.step = s /\ y.flag = job[j].flag /\ y.taken = job[j].taken
    <2> HIDE DEF x
    <2> QED BY <1>2 DEF ScriptRec
  <1>4. z \in ScriptRec /\ z.step = s /\ z.flag = job[j].flag /\ z.taken = job[j].taken
    <2> HIDE DEF y
    <2> QED BY <1>3 DEF ScriptRec
  <1>5. w \in ScriptRec /\ w.step = s /\ w.flag = job[j].flag /\ w.taken = job[j].taken
    <2> HIDE DEF z
    <2> QED BY <1>4 DEF ScriptRec
  <1> HIDE DEF w
  <1> QED
    BY <1>1, <1>5, JobBecomes

LEMMA NoJobIs ==
    /\ NoJob \in ScriptRec /\ NoJob.step = "idle" /\ ~NoJob.flag /\ ~NoJob.torn /\ ~NoJob.crossed
    /\ ~NoJob.running /\ NoJob.taken = NoArchive
  BY DEF NoJob, ScriptRec, Step

LEMMA JobOver ==
    ASSUME job \in [Job -> ScriptRec], NEW j \in Job, JobEnds(j)
    PROVE  /\ job' \in [Job -> ScriptRec] /\ job'[j] = NoJob
           /\ \A k \in Job \ {j} : job'[k] = job[k]
  BY NoJobIs DEF JobEnds

LEMMA JobBegins ==
    ASSUME job \in [Job -> ScriptRec], NEW j \in Job, NEW call \in ScriptRec, Begin(j, call),
           started \in 0 .. MaxJob
    PROVE  /\ job' \in [Job -> ScriptRec] /\ started' \in 0 .. MaxJob
           /\ job[j].step = "idle" /\ job'[j].step = call.step /\ job'[j].flag = call.flag
           /\ job'[j].torn = call.torn /\ job'[j].running = call.running
           /\ job'[j].taken = call.taken
           /\ (job'[j].crossed <=>
                 call.step \in ForData /\ (Others(j) # {} \/ daemon.state = "starting"))
           /\ \A k \in Job \ {j} :
                 /\ job'[k].step = job[k].step /\ job'[k].flag = job[k].flag
                 /\ job'[k].torn = job[k].torn /\ job'[k].running = job[k].running
                 /\ job'[k].taken = job[k].taken
                 /\ (job'[k].crossed <=> job[k].crossed \/ job[k].step \in ForData)
  <1> DEFINE b == call.step \in ForData /\ (Others(j) # {} \/ daemon.state = "starting")
             x == [call EXCEPT !.crossed = b]
  <1>1. /\ started' \in 0 .. MaxJob /\ job[j].step = "idle"
        /\ job' = [k \in Job |-> IF k = j THEN x
                                 ELSE [job[k] EXCEPT !.crossed = @ \/ job[k].step \in ForData]]
    BY MailServerAssumption DEF Begin, At
  <1>2. /\ x \in ScriptRec /\ x.step = call.step /\ x.flag = call.flag /\ x.torn = call.torn
        /\ x.running = call.running /\ x.taken = call.taken /\ x.crossed = b
    <2>1. b \in BOOLEAN
      OBVIOUS
    <2> HIDE DEF b
    <2> QED BY <2>1 DEF ScriptRec
  <1>3. ASSUME NEW k \in Job \ {j}
        PROVE  /\ job'[k] \in ScriptRec
               /\ job'[k].step = job[k].step /\ job'[k].flag = job[k].flag
               /\ job'[k].torn = job[k].torn /\ job'[k].running = job[k].running
               /\ job'[k].taken = job[k].taken
               /\ (job'[k].crossed <=> job[k].crossed \/ job[k].step \in ForData)
    <2> DEFINE c == job[k].crossed \/ job[k].step \in ForData
               y == [job[k] EXCEPT !.crossed = c]
    <2>1. job'[k] = y /\ job[k] \in ScriptRec
      BY <1>1
    <2>2. /\ y \in ScriptRec /\ y.step = job[k].step /\ y.flag = job[k].flag
          /\ y.torn = job[k].torn /\ y.running = job[k].running /\ y.taken = job[k].taken
          /\ y.crossed = c
      <3>1. c \in BOOLEAN
        OBVIOUS
      <3> HIDE DEF c
      <3> QED BY <2>1, <3>1 DEF ScriptRec
    <2> HIDE DEF y
    <2> QED
      BY <2>1, <2>2
  <1>4. job'[j] = x
    BY <1>1
  <1>5. job' \in [Job -> ScriptRec]
    <2>1. \A k \in Job : job'[k] \in ScriptRec
      BY <1>2, <1>3, <1>4
    <2> QED
      BY <1>1, <2>1
  <1> HIDE DEF x
  <1> QED
    BY <1>1, <1>2, <1>3, <1>4, <1>5

LEMMA MailInvInit == MailInit => MailInv
  <1> SUFFICES ASSUME MailInit PROVE MailInv
    OBVIOUS
  <1>1. MailTyped
    <2>1. First \in Pair /\ 0 \in 0 .. MaxJob
      BY MailServerAssumption DEF First, Pair
    <2>2. daemon \in DaemonRec /\ envFile \in Mode
      BY <2>1 DEF MailInit, DaemonRec, Mode
    <2> QED
      BY <2>1, <2>2, NoJobIs DEF MailInit, MailTyped
  <1>2. MailAccounted
    BY DEF MailInit, MailAccounted, LoadedUnlessForgotten, DownUnlessForgotten, RecoveryUnlessForgotten
  <1>3. AloneAtRest
    BY NoJobIs DEF MailInit, AloneAtRest, ForData
  <1> QED
    BY <1>1, <1>2, <1>3 DEF MailInv

LEMMA MailInvStep == MailInv /\ [MailServerNext]_mailVars => MailInv'
  <1> SUFFICES ASSUME MailInv, [MailServerNext]_mailVars PROVE MailInv'
    OBVIOUS
  <1>0. /\ daemon \in DaemonRec /\ envFile \in Mode /\ tls \in Pair /\ source \in Nat
        /\ password \in {"none", "placeholder", "real"}
        /\ archive \in Archive \cup {NoArchive} /\ mixed \in BOOLEAN
        /\ job \in [Job -> ScriptRec] /\ started \in 0 .. MaxJob /\ forgotten \subseteq Left
        /\ \A j \in Job : job[j].step \in {"halt", "data", "config"} => job[j].taken \in Archive \ {NoArchive}
    BY DEF MailInv, MailTyped
  <1>00. LoadedUnlessForgotten /\ DownUnlessForgotten /\ RecoveryUnlessForgotten /\ AloneAtRest
    BY DEF MailInv, MailAccounted
  <1> USE DEF At
  <1>1. CASE UNCHANGED mailVars
    BY <1>0, <1>00, <1>1 DEF mailVars, MailInv, MailTyped, MailAccounted, LoadedUnlessForgotten,
       DownUnlessForgotten, RecoveryUnlessForgotten, AloneAtRest, Excused, Owes, Stopper, Opened, Up
  <1>2. ASSUME Started PROVE MailInv'
    <2> DEFINE b(j) == job[j].torn \/ job[j].step = "tar"
               x(j) == [job[j] EXCEPT !.torn = b(j)]
    <2>1. /\ daemon.state = "starting" /\ daemon' = [state |-> "up", env |-> envFile, tls |-> tls]
          /\ job' = [j \in Job |-> x(j)] /\ forgotten' = forgotten \ {"unloaded", "down"}
          /\ UNCHANGED <<envFile, tls, source, password, archive, mixed, started>>
      BY <1>2 DEF Started
    <2>2. ASSUME NEW j \in Job
          PROVE  /\ x(j) \in ScriptRec /\ x(j).step = job[j].step /\ x(j).flag = job[j].flag
                 /\ x(j).crossed = job[j].crossed /\ x(j).running = job[j].running
                 /\ x(j).taken = job[j].taken
                 /\ (x(j).torn <=> b(j))
      <3>1. b(j) \in BOOLEAN /\ job[j] \in ScriptRec
        BY <1>0 DEF ScriptRec
      <3> HIDE DEF b
      <3> QED BY <3>1 DEF ScriptRec
    <2>3. /\ job' \in [Job -> ScriptRec]
          /\ \A j \in Job : /\ job'[j].step = job[j].step /\ job'[j].flag = job[j].flag
                            /\ job'[j].crossed = job[j].crossed
                            /\ job'[j].running = job[j].running /\ job'[j].taken = job[j].taken
                            /\ (job'[j].torn <=> job[j].torn \/ job[j].step = "tar")
      <3> HIDE DEF x
      <3> QED BY <2>1, <2>2
    <2>4. daemon' \in DaemonRec /\ daemon'.state = "up" /\ daemon'.env = envFile /\ daemon'.tls = tls
      BY <1>0, <2>1 DEF DaemonRec
    <2>5. MailTyped'
      BY <1>0, <2>1, <2>3, <2>4 DEF MailTyped
    <2>6. LoadedUnlessForgotten' /\ DownUnlessForgotten'
      BY <2>1, <2>4 DEF LoadedUnlessForgotten, DownUnlessForgotten
    <2>7. RecoveryUnlessForgotten'
      BY <1>00, <2>1, <2>3 DEF RecoveryUnlessForgotten, Opened
    <2>8. AloneAtRest'
      <3> HIDE DEF b, x
      <3> QED BY <1>00, <2>1, <2>3 DEF AloneAtRest, Excused, ForData
    <2> QED
      BY <2>5, <2>6, <2>7, <2>8 DEF MailInv, MailAccounted
  <1>3. ASSUME StartFails \/ ServerDies PROVE MailInv'
    <2>1. /\ \/ daemon.state = "starting" /\ daemon' = Unloaded("down") /\ forgotten' = forgotten \cup {"down"}
             \/ daemon.state = "up" /\ daemon' = Unloaded("starting") /\ forgotten' = forgotten
          /\ UNCHANGED <<envFile, tls, source, password, archive, mixed, job, started>>
      BY <1>3 DEF StartFails, ServerDies, Stop, Restart, Up
    <2>2. /\ daemon' \in DaemonRec
          /\ \/ daemon.state = "starting" /\ daemon'.state = "down"
             \/ daemon.state = "up" /\ daemon'.state = "starting"
      BY <2>1, DaemonTurns
    <2>3. MailTyped'
      BY <1>0, <2>1, <2>2 DEF MailTyped, Left
    <2>4. LoadedUnlessForgotten' /\ DownUnlessForgotten' /\ RecoveryUnlessForgotten'
      BY <1>00, <2>1, <2>2 DEF LoadedUnlessForgotten, DownUnlessForgotten,
         RecoveryUnlessForgotten, Opened, Up
    <2>5. AloneAtRest'
      BY <1>00, <2>1, <2>2 DEF AloneAtRest, Excused, ForData
    <2> QED
      BY <2>3, <2>4, <2>5 DEF MailInv, MailAccounted
  <1>4. ASSUME RenewCert \/ WritePassword \/ \E j \in Job : ForwardAsks(j) PROVE MailInv'
    <2>1. /\ source' \in Nat /\ password' \in {"none", "placeholder", "real"}
          /\ started' \in 0 .. MaxJob
          /\ UNCHANGED <<daemon, envFile, tls, archive, mixed, job, forgotten>>
      BY <1>0, <1>4, MailServerAssumption DEF RenewCert, WritePassword, ForwardAsks
    <2>2. MailTyped'
      BY <1>0, <2>1 DEF MailTyped
    <2> QED
      BY <1>00, <2>1, <2>2 DEF MailInv, MailAccounted, LoadedUnlessForgotten,
         DownUnlessForgotten, RecoveryUnlessForgotten, AloneAtRest, Excused, Owes, Stopper, Opened, Up
  <1>5. ASSUME NEW j \in Job, BackupStarts(j) \/ RestoreStarts(j) \/ SyncStarts(j) \/ ForwardStarts(j)
        PROVE  MailInv'
    <2>1. PICK call \in ScriptRec :
             /\ Begin(j, call) /\ ~call.flag /\ ~call.torn
             /\ call.step \in {"stop", "pack", "halt", "cert", "open"}
             /\ call.step = "halt" => call.taken \in Archive \ {NoArchive}
             /\ call.step = "pack" => ~Up \/ call.running
             /\ call.taken \in {NoArchive, archive}
      <3>1. CASE Begin(j, [NoJob EXCEPT !.step = BackupAsks])
        <4> DEFINE call == [NoJob EXCEPT !.step = BackupAsks]
        <4>1. BackupAsks \in {"stop", "pack"} /\ (BackupAsks = "pack" => ~Up)
          BY DEF BackupAsks
        <4>2. /\ call \in ScriptRec /\ call.step = BackupAsks /\ ~call.flag /\ ~call.torn
              /\ call.taken = NoArchive
          BY <4>1, NoJobIs DEF ScriptRec, Step
        <4>3. Begin(j, call)
          BY <3>1
        <4> HIDE DEF call
        <4> QED BY <4>1, <4>2, <4>3
      <3>4. CASE Begin(j, [NoJob EXCEPT !.step = "pack", !.running = TRUE])
        <4> DEFINE x == [NoJob EXCEPT !.step = "pack"]
                   call == [x EXCEPT !.running = TRUE]
        <4>1. x \in ScriptRec /\ x.step = "pack" /\ ~x.flag /\ ~x.torn /\ x.taken = NoArchive
          BY NoJobIs DEF ScriptRec, Step
        <4>2. /\ call \in ScriptRec /\ call.step = "pack" /\ ~call.flag /\ ~call.torn
              /\ call.taken = NoArchive /\ call.running = TRUE
          <5> HIDE DEF x
          <5> QED BY <4>1 DEF ScriptRec
        <4>3. Begin(j, call)
          BY <3>4
        <4> HIDE DEF call
        <4> QED BY <4>2, <4>3
      <3>2. CASE RestoreStarts(j)
        <4> DEFINE x == [NoJob EXCEPT !.step = "halt"]
                   call == [x EXCEPT !.taken = archive]
        <4>1. /\ x \in ScriptRec /\ x.step = "halt" /\ ~x.flag /\ ~x.torn
          BY NoJobIs DEF ScriptRec, Step
        <4>2. archive \in Archive \ {NoArchive}
          BY <1>0, <3>2 DEF RestoreStarts
        <4>3. /\ call \in ScriptRec /\ call.step = "halt" /\ ~call.flag /\ ~call.torn
              /\ call.taken = archive
          <5> HIDE DEF x
          <5> QED BY <4>1, <4>2 DEF ScriptRec
        <4>4. Begin(j, call)
          BY <3>2 DEF RestoreStarts
        <4> HIDE DEF call
        <4> QED BY <4>2, <4>3, <4>4
      <3>3. ASSUME NEW s \in {"cert", "open"}, Begin(j, [NoJob EXCEPT !.step = s])
            PROVE  \E call \in ScriptRec :
                     /\ Begin(j, call) /\ ~call.flag /\ ~call.torn
                     /\ call.step \in {"stop", "pack", "halt", "cert", "open"}
                     /\ call.step = "halt" => call.taken \in Archive \ {NoArchive}
                     /\ call.step = "pack" => ~Up \/ call.running
                     /\ call.taken \in {NoArchive, archive}
        <4> DEFINE call == [NoJob EXCEPT !.step = s]
        <4>1. /\ call \in ScriptRec /\ call.step = s /\ ~call.flag /\ ~call.torn
              /\ call.taken = NoArchive
          BY NoJobIs DEF ScriptRec, Step
        <4> HIDE DEF call
        <4> QED BY <3>3, <4>1 DEF call
      <3> QED
        BY <1>5, <3>1, <3>2, <3>3, <3>4 DEF BackupStarts, SyncStarts, ForwardStarts
    <2>2. UNCHANGED <<daemon, envFile, tls, source, password, archive, mixed, forgotten>>
      BY <1>5 DEF BackupStarts, RestoreStarts, SyncStarts, ForwardStarts
    <2>3. /\ job' \in [Job -> ScriptRec] /\ started' \in 0 .. MaxJob
          /\ job[j].step = "idle" /\ job'[j].step = call.step /\ ~job'[j].flag
          /\ job'[j].torn = call.torn /\ job'[j].running = call.running
          /\ job'[j].taken = call.taken
          /\ (job'[j].crossed <=>
                call.step \in ForData /\ (Others(j) # {} \/ daemon.state = "starting"))
          /\ \A k \in Job \ {j} :
                /\ job'[k].step = job[k].step /\ job'[k].flag = job[k].flag
                /\ job'[k].torn = job[k].torn /\ job'[k].running = job[k].running
                /\ job'[k].taken = job[k].taken
                /\ (job'[k].crossed <=> job[k].crossed \/ job[k].step \in ForData)
      BY <1>0, <2>1, JobBegins
    <2>4. MailTyped'
      BY <1>0, <2>1, <2>2, <2>3 DEF MailTyped
    <2>5. LoadedUnlessForgotten' /\ DownUnlessForgotten' /\ RecoveryUnlessForgotten'
      BY <1>00, <2>1, <2>2, <2>3 DEF LoadedUnlessForgotten,
         DownUnlessForgotten, RecoveryUnlessForgotten, Owes, Stopper, Opened, Up
    <2>6. AloneAtRest'
      <3>1. archive' # NoArchive /\ archive'.torn => Excused(archive')
        BY <1>00, <2>2 DEF AloneAtRest
      <3>2. ASSUME NEW k \in Job
            PROVE  job'[k].taken # NoArchive /\ job'[k].taken.torn => Excused(job'[k].taken)
        BY <1>00, <2>1, <2>3 DEF AloneAtRest
      <3>3. ASSUME NEW k \in Job, job'[k].step \in ForData, ~Excused(job'[k])
            PROVE  /\ k = j /\ \A i \in Job \ {j} : job'[i].step = "idle"
                   /\ job'[j].step \in {"pack", "tar", "data"} => daemon.state = "down"
                   /\ job'[j].step = "tar" => ~job'[j].torn
        <4>1. k = j /\ ~job'[j].crossed /\ ~job'[j].running
          BY <2>3, <3>3 DEF Excused
        <4>2. Others(j) = {} /\ daemon.state # "starting"
          BY <2>3, <3>3, <4>1
        <4>3. \A i \in Job \ {j} : job'[i].step = "idle"
          BY <2>3, <4>2 DEF Others
        <4>4. job'[j].step \in {"pack", "tar", "data"} => daemon.state = "down"
          BY <1>0, <2>1, <2>3, <4>1, <4>2 DEF Up, DaemonRec
        <4> QED
          BY <2>1, <2>3, <4>1, <4>3, <4>4
      <3>4. daemon' = daemon
        BY <2>2
      <3> QED
        BY <3>1, <3>2, <3>3, <3>4 DEF AloneAtRest
    <2> QED
      BY <2>4, <2>5, <2>6 DEF MailInv, MailAccounted
  <1>6. ASSUME NEW j \in Job, BackupStops(j) PROVE MailInv'
    <2>1. /\ job[j].step = "stop" /\ daemon' = Unloaded("down")
          /\ job' = [job EXCEPT ![j].step = "pack", ![j].flag = TRUE]
          /\ UNCHANGED <<envFile, tls, source, password, archive, mixed, started, forgotten>>
      BY <1>6 DEF BackupStops, Stop
    <2>2. /\ job' \in [Job -> ScriptRec] /\ job'[j].step = "pack"
          /\ job'[j].flag /\ job'[j].torn = job[j].torn
          /\ job'[j].crossed = job[j].crossed /\ job'[j].running = job[j].running
          /\ job'[j].taken = job[j].taken
          /\ \A k \in Job \ {j} : job'[k] = job[k]
      BY <1>0, <2>1, JobFlags DEF Step
    <2>3. daemon' \in DaemonRec /\ daemon'.state = "down"
      BY <2>1, DaemonTurns
    <2>4. MailTyped'
      BY <1>0, <2>1, <2>2, <2>3 DEF MailTyped, Mode, Left
    <2>5. LoadedUnlessForgotten' /\ DownUnlessForgotten' /\ RecoveryUnlessForgotten'
      BY <1>0, <1>00, <2>1, <2>2, <2>3 DEF LoadedUnlessForgotten, DownUnlessForgotten,
         RecoveryUnlessForgotten, Owes, Stopper, Opened, Up
    <2>6. AloneAtRest'
      BY <1>0, <1>00, <2>1, <2>2, <2>3 DEF AloneAtRest, Excused, ForData
    <2> QED
      BY <2>4, <2>5, <2>6 DEF MailInv, MailAccounted
  <1>7. ASSUME NEW j \in Job, BackupPacks(j) PROVE MailInv'
    <2> DEFINE x == [job[j] EXCEPT !.step = "tar"]
               y == [x EXCEPT !.torn = Up]
    <2>1. /\ job[j].step = "pack" /\ job' = [job EXCEPT ![j] = y]
          /\ UNCHANGED <<daemon, envFile, tls, source, password, archive, mixed, started, forgotten>>
      BY <1>7 DEF BackupPacks
    <2>2. /\ x \in ScriptRec /\ x.step = "tar" /\ x.flag = job[j].flag
          /\ x.crossed = job[j].crossed /\ x.running = job[j].running /\ x.taken = job[j].taken
      BY <1>0 DEF ScriptRec, Step
    <2>3. /\ y \in ScriptRec /\ y.step = "tar" /\ y.flag = job[j].flag /\ (y.torn <=> Up)
          /\ y.crossed = job[j].crossed /\ y.running = job[j].running /\ y.taken = job[j].taken
      <3>1. Up \in BOOLEAN
        BY DEF Up
      <3> HIDE DEF x
      <3> QED BY <2>2, <3>1 DEF ScriptRec
    <2> HIDE DEF x, y
    <2>4. job' \in [Job -> ScriptRec] /\ job'[j] = y /\ \A k \in Job \ {j} : job'[k] = job[k]
      BY <1>0, <2>1, <2>3
    <2>5. MailTyped'
      BY <1>0, <2>1, <2>2, <2>3, <2>4 DEF MailTyped, Mode, Left
    <2>6. LoadedUnlessForgotten' /\ DownUnlessForgotten' /\ RecoveryUnlessForgotten'
      BY <1>0, <1>00, <2>1, <2>2, <2>3, <2>4 DEF LoadedUnlessForgotten, DownUnlessForgotten,
         RecoveryUnlessForgotten, Owes, Stopper, Opened, Up
    <2>7. AloneAtRest'
      BY <1>0, <1>00, <2>1, <2>2, <2>3, <2>4 DEF AloneAtRest, Excused, ForData, Up
    <2> QED
      BY <2>5, <2>6, <2>7 DEF MailInv, MailAccounted
  <1>8. ASSUME NEW j \in Job, BackupWritten(j) PROVE MailInv'
    <2>1. /\ job[j].step = "tar" /\ CopyDone(j, "clean")
          /\ archive' = [torn |-> job[j].torn, crossed |-> job[j].crossed, running |-> job[j].running,
                         env |-> envFile, tls |-> tls]
          /\ UNCHANGED <<daemon, envFile, tls, source, password, mixed, started, forgotten>>
      BY <1>8 DEF BackupWritten
    <2>2. /\ job' \in [Job -> ScriptRec] /\ job'[j].step = "clean"
          /\ job'[j].flag = job[j].flag /\ job'[j].taken = job[j].taken
          /\ \A k \in Job \ {j} : job'[k] = job[k]
      BY <1>0, <2>1, JobCopied DEF Step
    <2>3. /\ archive' \in Archive /\ archive'.torn = job[j].torn
          /\ archive'.crossed = job[j].crossed /\ archive'.running = job[j].running
      BY <1>0, <2>1 DEF Archive, ScriptRec
    <2>4. MailTyped'
      BY <1>0, <2>1, <2>2, <2>3 DEF MailTyped, Mode, Left
    <2>5. LoadedUnlessForgotten' /\ DownUnlessForgotten' /\ RecoveryUnlessForgotten'
      BY <1>0, <1>00, <2>1, <2>2, <2>3 DEF LoadedUnlessForgotten, DownUnlessForgotten,
         RecoveryUnlessForgotten, Owes, Stopper, Opened, Up
    <2>6. AloneAtRest'
      BY <1>0, <1>00, <2>1, <2>2, <2>3 DEF AloneAtRest, Excused, ForData
    <2> QED
      BY <2>4, <2>5, <2>6 DEF MailInv, MailAccounted
  <1>9. ASSUME NEW j \in Job, BackupFails(j) PROVE MailInv'
    <2>1. /\ job[j].step \in {"stop", "pack", "tar"} /\ CopyDone(j, "clean")
          /\ UNCHANGED <<daemon, envFile, tls, source, password, archive, mixed, started, forgotten>>
      BY <1>9 DEF BackupFails
    <2>2. /\ job' \in [Job -> ScriptRec] /\ job'[j].step = "clean"
          /\ job'[j].flag = job[j].flag /\ job'[j].taken = job[j].taken
          /\ \A k \in Job \ {j} : job'[k] = job[k]
      BY <1>0, <2>1, JobCopied DEF Step
    <2>3. MailTyped'
      BY <1>0, <2>1, <2>2 DEF MailTyped, Mode, Left
    <2>4. LoadedUnlessForgotten' /\ DownUnlessForgotten' /\ RecoveryUnlessForgotten'
      BY <1>0, <1>00, <2>1, <2>2 DEF LoadedUnlessForgotten, DownUnlessForgotten,
         RecoveryUnlessForgotten, Owes, Stopper, Opened, Up
    <2>5. AloneAtRest'
      BY <1>0, <1>00, <2>1, <2>2 DEF AloneAtRest, Excused, ForData
    <2> QED
      BY <2>3, <2>4, <2>5 DEF MailInv, MailAccounted
  <1>10. ASSUME NEW j \in Job, Cleanup(j) PROVE MailInv'
    <2>1. /\ job[j].step = "clean" /\ JobEnds(j)
          /\ IF job[j].flag THEN Start ELSE daemon' = daemon
          /\ UNCHANGED <<envFile, tls, source, password, archive, mixed, started, forgotten>>
      BY <1>10 DEF Cleanup
    <2>2. /\ job' \in [Job -> ScriptRec] /\ job'[j] = NoJob
          /\ \A k \in Job \ {j} : job'[k] = job[k]
      BY <1>0, <2>1, JobOver
    <2>3. NoJob.step = "idle" /\ ~NoJob.flag /\ NoJob.taken = NoArchive
      BY NoJobIs
    <2>4. /\ daemon' \in DaemonRec
          /\ job[j].flag => daemon'.state # "down"
          /\ daemon' = daemon \/ daemon'.state = "starting"
      BY <1>0, <2>1, DaemonStarts
    <2>5. MailTyped'
      BY <1>0, <2>1, <2>2, <2>3, <2>4 DEF MailTyped, Mode, Left
    <2>6. LoadedUnlessForgotten' /\ DownUnlessForgotten' /\ RecoveryUnlessForgotten'
      BY <1>0, <1>00, <2>1, <2>2, <2>3, <2>4 DEF LoadedUnlessForgotten, DownUnlessForgotten,
         RecoveryUnlessForgotten, Owes, Stopper, Opened, Up
    <2>7. AloneAtRest'
      BY <1>0, <1>00, <2>1, <2>2, <2>3, <2>4 DEF AloneAtRest, Excused, ForData
    <2> QED
      BY <2>5, <2>6, <2>7 DEF MailInv, MailAccounted
  <1>11. ASSUME NEW j \in Job, RestoreStops(j) PROVE MailInv'
    <2>1. /\ job[j].step = "halt" /\ daemon' = Unloaded("down") /\ GoTo(j, "data")
          /\ UNCHANGED <<envFile, tls, source, password, archive, mixed, started, forgotten>>
      BY <1>11 DEF RestoreStops, Stop
    <2>2. /\ job' \in [Job -> ScriptRec] /\ job'[j].step = "data"
          /\ job'[j].flag = job[j].flag /\ job'[j].torn = job[j].torn
          /\ job'[j].crossed = job[j].crossed /\ job'[j].running = job[j].running
          /\ job'[j].taken = job[j].taken
          /\ \A k \in Job \ {j} : job'[k] = job[k]
      BY <1>0, <2>1, JobGoesTo DEF Step
    <2>3. daemon' \in DaemonRec /\ daemon'.state = "down"
      BY <2>1, DaemonTurns
    <2>4. MailTyped'
      BY <1>0, <2>1, <2>2, <2>3 DEF MailTyped, Mode, Left
    <2>5. LoadedUnlessForgotten' /\ DownUnlessForgotten' /\ RecoveryUnlessForgotten'
      BY <1>0, <1>00, <2>1, <2>2, <2>3 DEF LoadedUnlessForgotten, DownUnlessForgotten,
         RecoveryUnlessForgotten, Owes, Stopper, Opened, Up
    <2>6. AloneAtRest'
      BY <1>0, <1>00, <2>1, <2>2, <2>3 DEF AloneAtRest, Excused, ForData
    <2> QED
      BY <2>4, <2>5, <2>6 DEF MailInv, MailAccounted
  <1>12. ASSUME NEW j \in Job, RestoreData(j) PROVE MailInv'
    <2>1. /\ job[j].step = "data" /\ CopyDone(j, "config")
          /\ mixed' = (daemon.state # "down" \/ job[j].taken.torn)
          /\ UNCHANGED <<daemon, envFile, tls, source, password, archive, started, forgotten>>
      BY <1>12 DEF RestoreData
    <2>2. /\ job' \in [Job -> ScriptRec] /\ job'[j].step = "config"
          /\ job'[j].flag = job[j].flag /\ job'[j].taken = job[j].taken
          /\ \A k \in Job \ {j} : job'[k] = job[k]
      BY <1>0, <2>1, JobCopied DEF Step
    <2>3. mixed' \in BOOLEAN
      <3>1. job[j].taken \in Archive
        BY <1>0, <2>1
      <3>2. job[j].taken.torn \in BOOLEAN
        BY <3>1 DEF Archive
      <3> QED
        BY <2>1, <3>2
    <2>4. MailTyped'
      BY <1>0, <2>1, <2>2, <2>3 DEF MailTyped, Mode, Left
    <2>5. LoadedUnlessForgotten' /\ DownUnlessForgotten' /\ RecoveryUnlessForgotten'
      BY <1>0, <1>00, <2>1, <2>2, <2>3 DEF LoadedUnlessForgotten, DownUnlessForgotten,
         RecoveryUnlessForgotten, Owes, Stopper, Opened, Up
    <2>6. AloneAtRest'
      BY <1>0, <1>00, <2>1, <2>2, <2>3 DEF AloneAtRest, Excused, ForData
    <2> QED
      BY <2>4, <2>5, <2>6 DEF MailInv, MailAccounted
  <1>13. ASSUME NEW j \in Job, RestoreConfig(j) PROVE MailInv'
    <2> DEFINE x == [job[j] EXCEPT !.step = "start"]
               y == [x EXCEPT !.taken = NoArchive]
    <2>1. /\ job[j].step = "config" /\ job' = [job EXCEPT ![j] = y]
          /\ envFile' = job[j].taken.env /\ tls' = job[j].taken.tls
          /\ forgotten' = IF envFile' = "recovery" THEN forgotten \cup {"recovery"} ELSE forgotten
          /\ UNCHANGED <<daemon, source, password, archive, mixed, started>>
      BY <1>13 DEF RestoreConfig
    <2>2. /\ job' \in [Job -> ScriptRec] /\ job'[j].step = "start"
          /\ job'[j].flag = job[j].flag /\ job'[j].taken = NoArchive
          /\ \A k \in Job \ {j} : job'[k] = job[k]
      <3>1. x \in ScriptRec /\ x.step = "start" /\ x.flag = job[j].flag
        BY <1>0 DEF ScriptRec, Step
      <3>2. y \in ScriptRec /\ y.step = "start" /\ y.flag = job[j].flag /\ y.taken = NoArchive
        <4> HIDE DEF x
        <4> QED BY <3>1 DEF ScriptRec
      <3> HIDE DEF y
      <3> QED
        BY <1>0, <2>1, <3>2, JobBecomes
    <2> HIDE DEF y
    <2>3. envFile' \in Mode /\ tls' \in Pair
      <3>1. job[j].taken \in Archive
        BY <1>0, <2>1
      <3> QED
        BY <2>1, <3>1 DEF Archive
    <2>4. MailTyped'
      BY <1>0, <2>1, <2>2, <2>3 DEF MailTyped, Mode, Left
    <2>5. LoadedUnlessForgotten' /\ DownUnlessForgotten' /\ RecoveryUnlessForgotten'
      BY <1>0, <1>00, <2>1, <2>2, <2>3 DEF LoadedUnlessForgotten, DownUnlessForgotten,
         RecoveryUnlessForgotten, Owes, Stopper, Opened, Up
    <2>6. AloneAtRest'
      BY <1>0, <1>00, <2>1, <2>2, <2>3 DEF AloneAtRest, Excused, ForData
    <2> QED
      BY <2>4, <2>5, <2>6 DEF MailInv, MailAccounted
  <1>14. ASSUME NEW j \in Job, RestoreStartsServer(j) PROVE MailInv'
    <2>1. /\ job[j].step = "start" /\ GoTo(j, "check")
          /\ Start
          /\ forgotten' = IF daemon.state = "down" THEN forgotten ELSE forgotten \cup {"unloaded"}
          /\ UNCHANGED <<envFile, tls, source, password, archive, mixed, started>>
      BY <1>14 DEF RestoreStartsServer
    <2>2. /\ job' \in [Job -> ScriptRec] /\ job'[j].step = "check"
          /\ job'[j].flag = job[j].flag /\ job'[j].torn = job[j].torn
          /\ job'[j].crossed = job[j].crossed /\ job'[j].running = job[j].running
          /\ job'[j].taken = job[j].taken
          /\ \A k \in Job \ {j} : job'[k] = job[k]
      BY <1>0, <2>1, JobGoesTo DEF Step
    <2>3. /\ daemon' \in DaemonRec
          /\ daemon.state = "down" => daemon'.state = "starting"
          /\ daemon.state # "down" => daemon' = daemon
      BY <1>0, <2>1, DaemonStarts
    <2>4. MailTyped'
      BY <1>0, <2>1, <2>2, <2>3 DEF MailTyped, Mode, Left
    <2>5. LoadedUnlessForgotten' /\ DownUnlessForgotten' /\ RecoveryUnlessForgotten'
      BY <1>0, <1>00, <2>1, <2>2, <2>3 DEF LoadedUnlessForgotten, DownUnlessForgotten,
         RecoveryUnlessForgotten, Owes, Stopper, Opened, Up
    <2>6. AloneAtRest'
      BY <1>0, <1>00, <2>1, <2>2, <2>3 DEF AloneAtRest, Excused, ForData
    <2> QED
      BY <2>4, <2>5, <2>6 DEF MailInv, MailAccounted
  <1>15. ASSUME NEW j \in Job, SyncCert(j) PROVE MailInv'
    <2> DEFINE b == source # tls.cert
    <2>1. /\ job[j].step = "cert" /\ tls' = [tls EXCEPT !.cert = source]
          /\ job' = [job EXCEPT ![j].step = "key", ![j].flag = b]
          /\ UNCHANGED <<daemon, envFile, source, password, archive, mixed, started, forgotten>>
      BY <1>15 DEF SyncCert
    <2>2. /\ job' \in [Job -> ScriptRec] /\ job'[j].step = "key"
          /\ (job'[j].flag <=> source # tls.cert) /\ job'[j].torn = job[j].torn
          /\ job'[j].crossed = job[j].crossed /\ job'[j].running = job[j].running
          /\ job'[j].taken = job[j].taken
          /\ \A k \in Job \ {j} : job'[k] = job[k]
      BY <1>0, <2>1, JobFlags DEF Step
    <2>3. tls' \in Pair /\ (source = tls.cert => tls' = tls)
      BY <1>0, <2>1 DEF Pair
    <2> HIDE DEF b
    <2>4. MailTyped'
      BY <1>0, <2>1, <2>2, <2>3 DEF MailTyped, Mode, Left
    <2>5. LoadedUnlessForgotten' /\ DownUnlessForgotten' /\ RecoveryUnlessForgotten'
      BY <1>0, <1>00, <2>1, <2>2, <2>3 DEF LoadedUnlessForgotten, DownUnlessForgotten,
         RecoveryUnlessForgotten, Owes, Stopper, Opened, Up
    <2>6. AloneAtRest'
      BY <1>0, <1>00, <2>1, <2>2, <2>3 DEF AloneAtRest, Excused, ForData
    <2> QED
      BY <2>4, <2>5, <2>6 DEF MailInv, MailAccounted
  <1>16. ASSUME NEW j \in Job, SyncKey(j), Changed(j) PROVE MailInv'
    <2>1. /\ job[j].step = "key" /\ tls' = [tls EXCEPT !.key = source] /\ GoTo(j, "restart")
          /\ UNCHANGED <<daemon, envFile, source, password, archive, mixed, started, forgotten>>
      BY <1>16 DEF SyncKey
    <2>2. /\ job' \in [Job -> ScriptRec] /\ job'[j].step = "restart"
          /\ job'[j].flag = job[j].flag /\ job'[j].torn = job[j].torn
          /\ job'[j].crossed = job[j].crossed /\ job'[j].running = job[j].running
          /\ job'[j].taken = job[j].taken
          /\ \A k \in Job \ {j} : job'[k] = job[k]
      BY <1>0, <2>1, JobGoesTo DEF Step
    <2>3. tls' \in Pair
      BY <1>0, <2>1 DEF Pair
    <2>4. MailTyped'
      BY <1>0, <2>1, <2>2, <2>3 DEF MailTyped, Mode, Left
    <2>5. LoadedUnlessForgotten' /\ DownUnlessForgotten' /\ RecoveryUnlessForgotten'
      BY <1>0, <1>00, <2>1, <2>2, <2>3 DEF LoadedUnlessForgotten, DownUnlessForgotten,
         RecoveryUnlessForgotten, Owes, Stopper, Opened, Up
    <2>6. AloneAtRest'
      BY <1>0, <1>00, <2>1, <2>2, <2>3 DEF AloneAtRest, Excused, ForData
    <2> QED
      BY <2>4, <2>5, <2>6 DEF MailInv, MailAccounted
  <1>17. ASSUME NEW j \in Job, SyncKey(j), ~Changed(j) PROVE MailInv'
    <2>1. /\ job[j].step = "key" /\ ~job[j].flag /\ source = tls.key /\ JobEnds(j)
          /\ tls' = [tls EXCEPT !.key = source]
          /\ UNCHANGED <<daemon, envFile, source, password, archive, mixed, started, forgotten>>
      BY <1>17 DEF SyncKey, Changed
    <2>2. /\ job' \in [Job -> ScriptRec] /\ job'[j] = NoJob
          /\ \A k \in Job \ {j} : job'[k] = job[k]
      BY <1>0, <2>1, JobOver
    <2>3. NoJob.step = "idle" /\ ~NoJob.flag /\ NoJob.taken = NoArchive
      BY NoJobIs
    <2>4. tls' = tls
      BY <1>0, <2>1 DEF Pair
    <2>5. MailTyped'
      BY <1>0, <2>1, <2>2, <2>3, <2>4 DEF MailTyped, Mode, Left
    <2>6. LoadedUnlessForgotten' /\ DownUnlessForgotten' /\ RecoveryUnlessForgotten'
      BY <1>0, <1>00, <2>1, <2>2, <2>3, <2>4 DEF LoadedUnlessForgotten, DownUnlessForgotten,
         RecoveryUnlessForgotten, Owes, Stopper, Opened, Up
    <2>7. AloneAtRest'
      BY <1>0, <1>00, <2>1, <2>2, <2>3, <2>4 DEF AloneAtRest, Excused, ForData
    <2> QED
      BY <2>5, <2>6, <2>7 DEF MailInv, MailAccounted
  <1>18. ASSUME NEW j \in Job, SyncRestarts(j) PROVE MailInv'
    <2>1. /\ job[j].step = "restart" /\ daemon' = Unloaded("starting")
          /\ GoTo(j, "check")
          /\ UNCHANGED <<envFile, tls, source, password, archive, mixed, started, forgotten>>
      BY <1>18 DEF SyncRestarts, Restart
    <2>2. /\ job' \in [Job -> ScriptRec] /\ job'[j].step = "check"
          /\ job'[j].flag = job[j].flag /\ job'[j].torn = job[j].torn
          /\ job'[j].crossed = job[j].crossed /\ job'[j].running = job[j].running
          /\ job'[j].taken = job[j].taken
          /\ \A k \in Job \ {j} : job'[k] = job[k]
      BY <1>0, <2>1, JobGoesTo DEF Step
    <2>3. daemon' \in DaemonRec /\ daemon'.state = "starting"
      BY <2>1, DaemonTurns
    <2>4. MailTyped'
      BY <1>0, <2>1, <2>2, <2>3 DEF MailTyped, Mode, Left
    <2>5. LoadedUnlessForgotten' /\ DownUnlessForgotten' /\ RecoveryUnlessForgotten'
      BY <1>0, <1>00, <2>1, <2>2, <2>3 DEF LoadedUnlessForgotten, DownUnlessForgotten,
         RecoveryUnlessForgotten, Owes, Stopper, Opened, Up
    <2>6. AloneAtRest'
      BY <1>0, <1>00, <2>1, <2>2, <2>3 DEF AloneAtRest, Excused, ForData
    <2> QED
      BY <2>4, <2>5, <2>6 DEF MailInv, MailAccounted
  <1>19. ASSUME NEW j \in Job, ReloadRecovery(j) PROVE MailInv'
    <2>1. /\ job[j].step = "reload" /\ daemon' = Unloaded("starting")
          /\ GoTo(j, "apply")
          /\ UNCHANGED <<envFile, tls, source, password, archive, mixed, started, forgotten>>
      BY <1>19 DEF ReloadRecovery, Restart
    <2>2. /\ job' \in [Job -> ScriptRec] /\ job'[j].step = "apply"
          /\ job'[j].flag = job[j].flag /\ job'[j].torn = job[j].torn
          /\ job'[j].crossed = job[j].crossed /\ job'[j].running = job[j].running
          /\ job'[j].taken = job[j].taken
          /\ \A k \in Job \ {j} : job'[k] = job[k]
      BY <1>0, <2>1, JobGoesTo DEF Step
    <2>3. daemon' \in DaemonRec /\ daemon'.state = "starting"
      BY <2>1, DaemonTurns
    <2>4. MailTyped'
      BY <1>0, <2>1, <2>2, <2>3 DEF MailTyped, Mode, Left
    <2>5. LoadedUnlessForgotten' /\ DownUnlessForgotten' /\ RecoveryUnlessForgotten'
      BY <1>0, <1>00, <2>1, <2>2, <2>3 DEF LoadedUnlessForgotten, DownUnlessForgotten,
         RecoveryUnlessForgotten, Owes, Stopper, Opened, Up
    <2>6. AloneAtRest'
      BY <1>0, <1>00, <2>1, <2>2, <2>3 DEF AloneAtRest, Excused, ForData
    <2> QED
      BY <2>4, <2>5, <2>6 DEF MailInv, MailAccounted
  <1>20. ASSUME NEW j \in Job, ReloadPlain(j) PROVE MailInv'
    <2>1. /\ job[j].step = "reload2" /\ daemon' = Unloaded("starting")
          /\ GoTo(j, "check")
          /\ UNCHANGED <<envFile, tls, source, password, archive, mixed, started, forgotten>>
      BY <1>20 DEF ReloadPlain, Restart
    <2>2. /\ job' \in [Job -> ScriptRec] /\ job'[j].step = "check"
          /\ job'[j].flag = job[j].flag /\ job'[j].torn = job[j].torn
          /\ job'[j].crossed = job[j].crossed /\ job'[j].running = job[j].running
          /\ job'[j].taken = job[j].taken
          /\ \A k \in Job \ {j} : job'[k] = job[k]
      BY <1>0, <2>1, JobGoesTo DEF Step
    <2>3. daemon' \in DaemonRec /\ daemon'.state = "starting"
      BY <2>1, DaemonTurns
    <2>4. MailTyped'
      BY <1>0, <2>1, <2>2, <2>3 DEF MailTyped, Mode, Left
    <2>5. LoadedUnlessForgotten' /\ DownUnlessForgotten' /\ RecoveryUnlessForgotten'
      BY <1>0, <1>00, <2>1, <2>2, <2>3 DEF LoadedUnlessForgotten, DownUnlessForgotten,
         RecoveryUnlessForgotten, Owes, Stopper, Opened, Up
    <2>6. AloneAtRest'
      BY <1>0, <1>00, <2>1, <2>2, <2>3 DEF AloneAtRest, Excused, ForData
    <2> QED
      BY <2>4, <2>5, <2>6 DEF MailInv, MailAccounted
  <1>21. ASSUME NEW j \in Job, OpenRecovery(j) PROVE MailInv'
    <2>1. /\ job[j].step = "open" /\ envFile' = "recovery" /\ GoTo(j, "reload")
          /\ UNCHANGED <<daemon, tls, source, password, archive, mixed, started, forgotten>>
      BY <1>21 DEF OpenRecovery
    <2>2. /\ job' \in [Job -> ScriptRec] /\ job'[j].step = "reload"
          /\ job'[j].flag = job[j].flag /\ job'[j].torn = job[j].torn
          /\ job'[j].crossed = job[j].crossed /\ job'[j].running = job[j].running
          /\ job'[j].taken = job[j].taken
          /\ \A k \in Job \ {j} : job'[k] = job[k]
      BY <1>0, <2>1, JobGoesTo DEF Step
    <2>3. MailTyped'
      BY <1>0, <2>1, <2>2 DEF MailTyped, Mode, Left
    <2>4. LoadedUnlessForgotten' /\ DownUnlessForgotten' /\ RecoveryUnlessForgotten'
      BY <1>0, <1>00, <2>1, <2>2 DEF LoadedUnlessForgotten, DownUnlessForgotten,
         RecoveryUnlessForgotten, Owes, Stopper, Opened, Up
    <2>5. AloneAtRest'
      BY <1>0, <1>00, <2>1, <2>2 DEF AloneAtRest, Excused, ForData
    <2> QED
      BY <2>3, <2>4, <2>5 DEF MailInv, MailAccounted
  <1>22. ASSUME NEW j \in Job, ApplyForward(j) PROVE MailInv'
    <2>1. /\ job[j].step = "apply" /\ GoTo(j, "close")
          /\ UNCHANGED <<daemon, envFile, tls, source, password, archive, mixed, started, forgotten>>
      BY <1>22 DEF ApplyForward
    <2>2. /\ job' \in [Job -> ScriptRec] /\ job'[j].step = "close"
          /\ job'[j].flag = job[j].flag /\ job'[j].torn = job[j].torn
          /\ job'[j].crossed = job[j].crossed /\ job'[j].running = job[j].running
          /\ job'[j].taken = job[j].taken
          /\ \A k \in Job \ {j} : job'[k] = job[k]
      BY <1>0, <2>1, JobGoesTo DEF Step
    <2>3. MailTyped'
      BY <1>0, <2>1, <2>2 DEF MailTyped, Mode, Left
    <2>4. LoadedUnlessForgotten' /\ DownUnlessForgotten' /\ RecoveryUnlessForgotten'
      BY <1>0, <1>00, <2>1, <2>2 DEF LoadedUnlessForgotten, DownUnlessForgotten,
         RecoveryUnlessForgotten, Owes, Stopper, Opened, Up
    <2>5. AloneAtRest'
      BY <1>0, <1>00, <2>1, <2>2 DEF AloneAtRest, Excused, ForData
    <2> QED
      BY <2>3, <2>4, <2>5 DEF MailInv, MailAccounted
  <1>23. ASSUME NEW j \in Job, CloseRecovery(j) PROVE MailInv'
    <2>1. /\ job[j].step = "close" /\ envFile' = "plain" /\ GoTo(j, "reload2")
          /\ forgotten' = forgotten \ {"recovery"}
          /\ UNCHANGED <<daemon, tls, source, password, archive, mixed, started>>
      BY <1>23 DEF CloseRecovery
    <2>2. /\ job' \in [Job -> ScriptRec] /\ job'[j].step = "reload2"
          /\ job'[j].flag = job[j].flag /\ job'[j].torn = job[j].torn
          /\ job'[j].crossed = job[j].crossed /\ job'[j].running = job[j].running
          /\ job'[j].taken = job[j].taken
          /\ \A k \in Job \ {j} : job'[k] = job[k]
      BY <1>0, <2>1, JobGoesTo DEF Step
    <2>3. MailTyped'
      BY <1>0, <2>1, <2>2 DEF MailTyped, Mode, Left
    <2>4. LoadedUnlessForgotten' /\ DownUnlessForgotten' /\ RecoveryUnlessForgotten'
      BY <1>0, <1>00, <2>1, <2>2 DEF LoadedUnlessForgotten, DownUnlessForgotten,
         RecoveryUnlessForgotten, Owes, Stopper, Opened, Up
    <2>5. AloneAtRest'
      BY <1>0, <1>00, <2>1, <2>2 DEF AloneAtRest, Excused, ForData
    <2> QED
      BY <2>3, <2>4, <2>5 DEF MailInv, MailAccounted
  <1>24. ASSUME NEW j \in Job, CheckActive(j) PROVE MailInv'
    <2>1. /\ job[j].step = "check" /\ JobEnds(j)
          /\ UNCHANGED <<daemon, envFile, tls, source, password, archive, mixed, started, forgotten>>
      BY <1>24 DEF CheckActive
    <2>2. /\ job' \in [Job -> ScriptRec] /\ job'[j] = NoJob
          /\ \A k \in Job \ {j} : job'[k] = job[k]
      BY <1>0, <2>1, JobOver
    <2>3. NoJob.step = "idle" /\ ~NoJob.flag /\ NoJob.taken = NoArchive
      BY NoJobIs
    <2>4. MailTyped'
      BY <1>0, <2>1, <2>2, <2>3 DEF MailTyped, Mode, Left
    <2>5. LoadedUnlessForgotten' /\ DownUnlessForgotten' /\ RecoveryUnlessForgotten'
      BY <1>0, <1>00, <2>1, <2>2, <2>3 DEF LoadedUnlessForgotten, DownUnlessForgotten,
         RecoveryUnlessForgotten, Owes, Stopper, Opened, Up
    <2>6. AloneAtRest'
      BY <1>0, <1>00, <2>1, <2>2, <2>3 DEF AloneAtRest, Excused, ForData
    <2> QED
      BY <2>4, <2>5, <2>6 DEF MailInv, MailAccounted
  <1>25. ASSUME NEW j \in Job, JobDies(j) PROVE MailInv'
    <2>1. /\ job[j].step # "idle" /\ JobEnds(j)
          /\ forgotten' = forgotten \cup (IF Owes(j) THEN {"unloaded"} ELSE {})
                \cup (IF Stopper(j) THEN {"down"} ELSE {}) \cup (IF Opened(j) THEN {"recovery"} ELSE {})
          /\ UNCHANGED <<daemon, envFile, tls, source, password, archive, mixed, started>>
      BY <1>25 DEF JobDies
    <2>2. /\ job' \in [Job -> ScriptRec] /\ job'[j] = NoJob
          /\ \A k \in Job \ {j} : job'[k] = job[k]
      BY <1>0, <2>1, JobOver
    <2>3. NoJob.step = "idle" /\ ~NoJob.flag /\ NoJob.taken = NoArchive
      BY NoJobIs
    <2>4. MailTyped'
      BY <1>0, <2>1, <2>2, <2>3 DEF MailTyped, Mode, Left
    <2>5. LoadedUnlessForgotten' /\ DownUnlessForgotten' /\ RecoveryUnlessForgotten'
      BY <1>0, <1>00, <2>1, <2>2, <2>3 DEF LoadedUnlessForgotten, DownUnlessForgotten,
         RecoveryUnlessForgotten, Owes, Stopper, Opened, Up
    <2>6. AloneAtRest'
      BY <1>0, <1>00, <2>1, <2>2, <2>3 DEF AloneAtRest, Excused, ForData
    <2> QED
      BY <2>4, <2>5, <2>6 DEF MailInv, MailAccounted
  <1>26. ASSUME NEW j \in Job, RestoreCannotStop(j) PROVE MailInv'
    <2> DEFINE x == [job[j] EXCEPT !.step = "data"]
               y == [x EXCEPT !.running = TRUE]
    <2>1. /\ job[j].step = "halt" /\ job' = [job EXCEPT ![j] = y]
          /\ UNCHANGED <<daemon, envFile, tls, source, password, archive, mixed, started, forgotten>>
      BY <1>26 DEF RestoreCannotStop
    <2>2. /\ job' \in [Job -> ScriptRec] /\ job'[j].step = "data" /\ job'[j].running
          /\ job'[j].flag = job[j].flag /\ job'[j].taken = job[j].taken
          /\ \A k \in Job \ {j} : job'[k] = job[k]
      <3>1. x \in ScriptRec /\ x.step = "data" /\ x.flag = job[j].flag /\ x.taken = job[j].taken
        BY <1>0 DEF ScriptRec, Step
      <3>2. /\ y \in ScriptRec /\ y.step = "data" /\ y.flag = job[j].flag /\ y.taken = job[j].taken
            /\ y.running = TRUE
        <4> HIDE DEF x
        <4> QED BY <3>1 DEF ScriptRec
      <3> HIDE DEF y
      <3> QED
        BY <1>0, <2>1, <3>2, JobBecomes
    <2> HIDE DEF y
    <2>3. MailTyped'
      BY <1>0, <2>1, <2>2 DEF MailTyped, Mode, Left
    <2>4. LoadedUnlessForgotten' /\ DownUnlessForgotten' /\ RecoveryUnlessForgotten'
      BY <1>0, <1>00, <2>1, <2>2 DEF LoadedUnlessForgotten, DownUnlessForgotten,
         RecoveryUnlessForgotten, Owes, Stopper, Opened, Up
    <2>5. AloneAtRest'
      BY <1>0, <1>00, <2>1, <2>2 DEF AloneAtRest, Excused, ForData
    <2> QED
      BY <2>3, <2>4, <2>5 DEF MailInv, MailAccounted
  <1> QED
    BY <1>1, <1>2, <1>3, <1>4, <1>5, <1>6, <1>7, <1>8, <1>9, <1>10, <1>11, <1>12, <1>13, <1>14,
    <1>15, <1>16, <1>17, <1>18, <1>19, <1>20, <1>21, <1>22, <1>23, <1>24, <1>25, <1>26
    DEF MailServerNext

LEMMA AtRestStep == MailInv /\ [MailServerNext]_mailVars => [AtRest]_mailVars
  <1> SUFFICES ASSUME MailInv, MailServerNext PROVE AtRest
    OBVIOUS
  <1>1. archive' # NoArchive /\ archive'.torn => Excused(archive')
    BY MailInvStep DEF MailInv, AloneAtRest
  <1>2. mixed' = mixed \/ \E j \in Job : RestoreData(j)
    BY DEF MailServerNext, Started, StartFails, ServerDies, RestoreCannotStop, RenewCert, WritePassword, BackupStarts, BackupStops,
       BackupPacks, BackupWritten, BackupFails, Cleanup, RestoreStarts, RestoreStops, RestoreConfig,
       RestoreStartsServer, SyncStarts, SyncCert, SyncKey, SyncRestarts, ForwardAsks, ForwardStarts,
       OpenRecovery, ReloadRecovery, ApplyForward, CloseRecovery, ReloadPlain, CheckActive, JobDies
  <1>3. ASSUME mixed', ~mixed
        PROVE  \E j \in Job : At(j, "data") /\ (Excused(job[j]) \/ Excused(job[j].taken))
    <2>1. PICK j \in Job : RestoreData(j)
      BY <1>2, <1>3
    <2>2. job[j].step = "data" /\ (daemon.state # "down" \/ job[j].taken.torn)
      BY <1>3, <2>1 DEF RestoreData, At
    <2>3. job[j].taken \in Archive /\ job[j].taken # NoArchive
      BY <2>2 DEF MailInv, MailTyped
    <2>4. job[j].taken.torn => Excused(job[j].taken)
      BY <2>3 DEF MailInv, AloneAtRest
    <2>5. daemon.state # "down" => Excused(job[j])
      BY <2>2 DEF MailInv, AloneAtRest, ForData
    <2> QED
      BY <2>2, <2>4, <2>5 DEF At
  <1> QED
    BY <1>1, <1>3 DEF AtRest

\* However the scripts that keep the mail server and the faults fall between
\* each other's steps: the server is always accounted for, and nothing in
\* motion goes into a backup, or under one, unless another script crossed
\* it, the server was about to start, the backup was told not to stop it or
\* the restore could not (stalwart-backup.sh, stalwart-restore.sh).
THEOREM MailStays == MailServerSpec => MailKept
  <1>1. MailInv => MailAccounted
    BY DEF MailInv
  <1> QED
    BY <1>1, MailInvInit, MailInvStep, AtRestStep, PTL
    DEF MailServerSpec, MailKept, SnapshotAtRest

---------------------------------------------------------------------------
(* The installation of the mail server.                                    *)

SetupRec == [script : Script, step : InstallStep, bak : Caddyfile, alone : BOOLEAN]

InstallTyped ==
    /\ present \in BOOLEAN /\ secrets \in BOOLEAN /\ config \in BOOLEAN /\ accounts \in BOOLEAN
    /\ opened \in BOOLEAN
    /\ serverEnv \in EnvKind /\ server \in {"absent", "down"} \cup EnvKind
    /\ rejects \subseteq {25, 8080} /\ caddyfile \in Caddyfile /\ caddy \in BOOLEAN
    /\ setup \in [Setup -> SetupRec]
    /\ setups \in 0 .. MaxSetup /\ typos \in 0 .. MaxTypo

\* What a script that has come so far has seen to. One that has had the host
\* for itself is alone now, and nobody has undone what it did.
SetupSound ==
    \A x \in Setup :
        /\ setup[x].step \in {"facade", "validate"} => rejects = {25, 8080}
        /\ setup[x].alone /\ setup[x].step # "idle" =>
              \A y \in Setup \ {x} : setup[y].step = "idle"
        /\ Finalizes(x) =>
              /\ setup[x].step \in {"close", "reload3"} => rejects = {25, 8080}
              /\ setup[x].step \in {"firewall", "facade", "validate", "close", "reload3"} => accounts
        /\ Finalizes(x) /\ setup[x].alone =>
              /\ setup[x].step = "validate" => caddyfile.mail
              /\ setup[x].step \in {"close", "reload3"} => caddy
              /\ setup[x].step = "reload3" => serverEnv = "plain"

\* The inductive invariant of MailInstall.
InstallInv == InstallTyped /\ RecoveryClosed /\ FacadeBehindRejects /\ SetupSound

LEMMA NoSetupIs ==
    NoSetup \in SetupRec /\ NoSetup.step = "idle" /\ NoSetup.script = "none" /\ NoSetup.bak \in Caddyfile
  BY DEF NoSetup, SetupRec, Script, InstallStep, Caddyfile

LEMMA InstallInvInit == InstallInit => InstallInv
  <1> SUFFICES ASSUME InstallInit PROVE InstallInv
    OBVIOUS
  <1>1. InstallTyped
    <2>1. setup \in [Setup -> SetupRec] /\ caddyfile \in Caddyfile
      BY NoSetupIs DEF InstallInit
    <2>2. setups \in 0 .. MaxSetup /\ typos \in 0 .. MaxTypo
      BY MailInstallAssumption DEF InstallInit
    <2>3. /\ present \in BOOLEAN /\ secrets \in BOOLEAN /\ config \in BOOLEAN /\ accounts \in BOOLEAN
          /\ opened \in BOOLEAN /\ caddy \in BOOLEAN
      BY Zenon DEF InstallInit
    <2>4. serverEnv \in EnvKind /\ server \in {"absent", "down"} \cup EnvKind /\ rejects \subseteq {25, 8080}
      BY DEF InstallInit, EnvKind
    <2> QED
      BY <2>1, <2>2, <2>3, <2>4 DEF InstallTyped
  <1>2. \A x \in Setup : setup[x] = NoSetup
    BY DEF InstallInit
  <1>3. SetupSound
    BY <1>2, NoSetupIs DEF SetupSound, Finalizes
  <1> QED
    BY <1>1, <1>3 DEF InstallInit, InstallInv, RecoveryClosed, FacadeBehindRejects

LEMMA SetupFollows ==
    ASSUME setup \in [Setup -> SetupRec], NEW x \in Setup, NEW s \in InstallStep, Follow(x, s)
    PROVE  /\ setup' \in [Setup -> SetupRec] /\ setup'[x].step = s
           /\ setup'[x].script = setup[x].script /\ setup'[x].alone = setup[x].alone
           /\ \A y \in Setup \ {x} : setup'[y] = setup[y]
  <1> DEFINE r == [setup[x] EXCEPT !.step = s]
  <1>1. setup' = [setup EXCEPT ![x] = r] /\ setup[x] \in SetupRec
    BY DEF Follow
  <1>2. r \in SetupRec /\ r.step = s /\ r.script = setup[x].script /\ r.alone = setup[x].alone
    BY <1>1 DEF SetupRec
  <1> HIDE DEF r
  <1> QED
    BY <1>1, <1>2

LEMMA SetupOver ==
    ASSUME setup \in [Setup -> SetupRec], NEW x \in Setup, SetupEnds(x)
    PROVE  /\ setup' \in [Setup -> SetupRec] /\ setup'[x].step = "idle"
           /\ setup'[x].script = "none" /\ \A y \in Setup \ {x} : setup'[y] = setup[y]
  BY NoSetupIs DEF SetupEnds

LEMMA SetupBegins ==
    ASSUME setup \in [Setup -> SetupRec], NEW x \in Setup, NEW script \in Script, NEW s \in InstallStep,
           BeginSetup(x, script, s), setups \in 0 .. MaxSetup
    PROVE  /\ setup' \in [Setup -> SetupRec] /\ setups' \in 0 .. MaxSetup
           /\ setup[x].step = "idle" /\ setup'[x].step = s /\ setup'[x].script = script
           /\ (setup'[x].alone <=> \A y \in Setup : setup[y].step = "idle")
           /\ \A y \in Setup \ {x} :
                 /\ setup'[y].step = setup[y].step /\ setup'[y].script = setup[y].script
                 /\ (setup'[y].alone <=> setup[y].alone /\ setup[y].step = "idle")
  <1> DEFINE busy == {y \in Setup : setup[y].step # "idle"}
             b == (busy = {})
             p == [NoSetup EXCEPT !.script = script]
             q == [p EXCEPT !.step = s]
             r == [q EXCEPT !.alone = b]
  <1>0. setups' \in 0 .. MaxSetup /\ setup[x].step = "idle"
    <2>1. setups < MaxSetup /\ setups' = setups + 1 /\ setup[x].step = "idle"
      BY Zenon DEF BeginSetup
    <2> QED
      BY <2>1, MailInstallAssumption
  <1>1. setup' = [y \in Setup |-> IF y = x THEN r
                                  ELSE [setup[y] EXCEPT !.alone = @ /\ y \notin busy]]
    BY Zenon DEF BeginSetup
  <1>2. p \in SetupRec /\ p.script = script
    BY NoSetupIs DEF SetupRec
  <1>3. q \in SetupRec /\ q.script = script /\ q.step = s
    <2> HIDE DEF p
    <2> QED BY <1>2 DEF SetupRec
  <1>4. r \in SetupRec /\ r.script = script /\ r.step = s /\ r.alone = b
    <2>1. b \in BOOLEAN
      OBVIOUS
    <2> HIDE DEF q, b
    <2> QED BY <1>3, <2>1 DEF SetupRec
  <1>5. ASSUME NEW y \in Setup \ {x}
        PROVE  /\ setup'[y] \in SetupRec
               /\ setup'[y].step = setup[y].step /\ setup'[y].script = setup[y].script
               /\ (setup'[y].alone <=> setup[y].alone /\ setup[y].step = "idle")
    <2> DEFINE c == setup[y].alone /\ y \notin busy
               t == [setup[y] EXCEPT !.alone = c]
    <2>1. setup'[y] = t /\ setup[y] \in SetupRec
      BY <1>1
    <2>2. c \in BOOLEAN /\ (c <=> setup[y].alone /\ setup[y].step = "idle")
      BY <2>1
    <2>3. t \in SetupRec /\ t.step = setup[y].step /\ t.script = setup[y].script /\ t.alone = c
      <3> HIDE DEF c
      <3> QED BY <2>1, <2>2 DEF SetupRec
    <2> HIDE DEF c, t
    <2> QED
      BY <2>1, <2>2, <2>3
  <1>6. b <=> \A y \in Setup : setup[y].step = "idle"
    OBVIOUS
  <1>7. setup'[x] = r
    BY <1>1
  <1>8. setup' \in [Setup -> SetupRec]
    <2>1. \A y \in Setup : setup'[y] \in SetupRec
      BY <1>4, <1>5, <1>7
    <2> QED
      BY <1>1, <2>1
  <1> HIDE DEF r, b
  <1> QED
    BY <1>0, <1>1, <1>4, <1>5, <1>6, <1>7, <1>8

LEMMA CaddyfileEdited ==
    ASSUME caddyfile \in Caddyfile, EditCaddyfile
    PROVE  caddyfile' \in Caddyfile /\ caddyfile'.mail = caddyfile.mail
  <1> PICK b \in BOOLEAN : b = ~caddyfile.valid
    OBVIOUS
  <1>1. caddyfile' = [caddyfile EXCEPT !.valid = b]
    BY DEF EditCaddyfile
  <1> QED
    BY <1>1 DEF Caddyfile

LEMMA VhostAdded ==
    ASSUME NEW x \in Setup, caddyfile \in Caddyfile, AppendVhost(x)
    PROVE  caddyfile' \in Caddyfile /\ caddyfile'.mail
  <1>1. caddyfile' \in Caddyfile /\ caddyfile'.mail = TRUE
    BY DEF Caddyfile, AppendVhost
  <1> QED
    BY <1>1

LEMMA ConfigWritten ==
    ASSUME NEW x \in Setup, config \in BOOLEAN, UpdateBootstrap(x) PROVE config' \in BOOLEAN
  BY Zenon DEF UpdateBootstrap

LEMMA PlanApplied ==
    ASSUME NEW x \in Setup, accounts \in BOOLEAN, ApplyPlan(x)
    PROVE  accounts' \in BOOLEAN /\ (accounts => accounts')
  <1>1. accounts' \in {accounts, TRUE}
    BY Zenon DEF ApplyPlan
  <1> QED
    BY <1>1, Zenon

LEMMA RecoveryRecorded ==
    ASSUME NEW x \in Setup, opened \in BOOLEAN, ~Opening(x),
           opened' = (opened \/ (server' = "down" /\ Opening(x)))
    PROVE  opened' \in BOOLEAN /\ (opened => opened')
  OBVIOUS

\* A script that ends before it has closed recovery mode leaves it recorded.
LEMMA OpeningEnds ==
    ASSUME RecoveryClosed, serverEnv' = serverEnv, NEW x \in Setup, opened \in BOOLEAN,
           opened' = (opened \/ Opening(x)), \A y \in Setup \ {x} : setup'[y] = setup[y]
    PROVE  RecoveryClosed' /\ opened' \in BOOLEAN
  <1>1. Opening(x) \in BOOLEAN
    BY DEF Opening
  <1>2. opened' \in BOOLEAN /\ (opened => opened') /\ (Opening(x) => opened')
    BY <1>1, Zenon
  <1>3. ASSUME NEW y \in Setup \ {x}, Opening(y) PROVE Opening(y)'
    BY <1>3 DEF Opening, Finalizes
  <1> QED
    BY <1>2, <1>3 DEF RecoveryClosed

LEMMA InstallInvStep == InstallInv /\ [InstallNext]_installVars => InstallInv'
  <1> SUFFICES ASSUME InstallInv, [InstallNext]_installVars PROVE InstallInv'
    OBVIOUS
  <1>0. /\ present \in BOOLEAN /\ secrets \in BOOLEAN /\ config \in BOOLEAN /\ accounts \in BOOLEAN
        /\ opened \in BOOLEAN
        /\ serverEnv \in EnvKind /\ server \in {"absent", "down"} \cup EnvKind
        /\ rejects \subseteq {25, 8080} /\ caddyfile \in Caddyfile /\ caddy \in BOOLEAN
        /\ setup \in [Setup -> SetupRec]
        /\ setups \in 0 .. MaxSetup /\ typos \in 0 .. MaxTypo
    BY DEF InstallInv, InstallTyped
  <1>00. RecoveryClosed /\ FacadeBehindRejects /\ SetupSound
    BY DEF InstallInv
  <1>1. CASE UNCHANGED installVars
    BY <1>0, <1>00, <1>1 DEF installVars, hostVars, facadeVars, InstallInv, InstallTyped,
       RecoveryClosed, FacadeBehindRejects, SetupSound, Finalizes, Opening
  <1>2. ASSUME NEW x \in Setup, StartPhase1(x) \/ StartBootstrap(x) \/ StartFinalize(x) PROVE InstallInv'
    <2>1. UNCHANGED <<hostVars, facadeVars, opened>>
      BY <1>2 DEF StartPhase1, StartBootstrap, StartFinalize
    <2> PICK script \in Script, s \in {"secrets", "open"} : BeginSetup(x, script, s)
      BY <1>2 DEF StartPhase1, StartBootstrap, StartFinalize, Script
    <2>2. /\ setup' \in [Setup -> SetupRec] /\ setups' \in 0 .. MaxSetup
          /\ setup[x].step = "idle" /\ setup'[x].step = s /\ setup'[x].script = script
          /\ (setup'[x].alone <=> \A y \in Setup : setup[y].step = "idle")
          /\ \A y \in Setup \ {x} :
                /\ setup'[y].step = setup[y].step /\ setup'[y].script = setup[y].script
                /\ (setup'[y].alone <=> setup[y].alone /\ setup[y].step = "idle")
      BY <1>0, SetupBegins DEF InstallStep
    <2>3. UNCHANGED <<present, secrets, config, serverEnv, server, accounts, rejects, caddyfile, caddy,
                      typos, opened>>
      BY <2>1 DEF hostVars, facadeVars
    <2>4. InstallTyped'
      BY <1>0, <2>1, <2>2, <2>3 DEF InstallTyped, EnvKind
    <2>5. RecoveryClosed'
      BY <1>0, <1>00, <2>1, <2>2, <2>3 DEF RecoveryClosed, Opening, Finalizes
    <2>6. FacadeBehindRejects'
      BY <1>0, <1>00, <2>1, <2>2, <2>3 DEF FacadeBehindRejects, SetupSound
    <2>7. SetupSound'
      BY <1>0, <1>00, <2>1, <2>2, <2>3 DEF SetupSound, Finalizes
    <2> QED
      BY <2>4, <2>5, <2>6, <2>7 DEF InstallInv
  <1>3. ASSUME NEW x \in Setup, GenerateSecrets(x) PROVE InstallInv'
    <2>1. /\ setup[x].step = "secrets"
          /\ secrets' = TRUE /\ Follow(x, "preseed")
          /\ UNCHANGED <<present, config, serverEnv, server, accounts, rejects, caddyfile, caddy, typos, setups, opened>>
      BY <1>0, <1>3 DEF GenerateSecrets, Runs, hostVars, facadeVars
    <2>2. /\ setup' \in [Setup -> SetupRec] /\ setup'[x].step = "preseed"
          /\ setup'[x].script = setup[x].script /\ setup'[x].alone = setup[x].alone
          /\ \A y \in Setup \ {x} : setup'[y] = setup[y]
      BY <1>0, <2>1, SetupFollows DEF InstallStep
    <2>3. InstallTyped'
      BY <1>0, <2>1, <2>2 DEF InstallTyped, EnvKind
    <2>4. RecoveryClosed'
      BY <1>0, <1>00, <2>1, <2>2 DEF RecoveryClosed, Opening, Finalizes
    <2>5. FacadeBehindRejects'
      BY <1>0, <1>00, <2>1, <2>2 DEF FacadeBehindRejects, SetupSound
    <2>6. SetupSound'
      BY <1>0, <1>00, <2>1, <2>2 DEF SetupSound, Finalizes
    <2> QED
      BY <2>3, <2>4, <2>5, <2>6 DEF InstallInv
  <1>4. ASSUME NEW x \in Setup, Preseed(x) PROVE InstallInv'
    <2>1. /\ setup[x].step = "preseed" /\ present' = TRUE
          /\ serverEnv' = "admin" /\ Follow(x, "installer")
          /\ UNCHANGED <<secrets, config, server, accounts, rejects, caddyfile, caddy, typos, setups, opened>>
      BY <1>0, <1>4 DEF Preseed, Runs, hostVars, facadeVars
    <2>2. /\ setup' \in [Setup -> SetupRec] /\ setup'[x].step = "installer"
          /\ setup'[x].script = setup[x].script /\ setup'[x].alone = setup[x].alone
          /\ \A y \in Setup \ {x} : setup'[y] = setup[y]
      BY <1>0, <2>1, SetupFollows DEF InstallStep
    <2>3. InstallTyped'
      BY <1>0, <2>1, <2>2 DEF InstallTyped, EnvKind
    <2>4. RecoveryClosed'
      BY <1>0, <1>00, <2>1, <2>2 DEF RecoveryClosed, Opening, Finalizes
    <2>5. FacadeBehindRejects'
      BY <1>0, <1>00, <2>1, <2>2 DEF FacadeBehindRejects, SetupSound
    <2>6. SetupSound'
      BY <1>0, <1>00, <2>1, <2>2 DEF SetupSound, Finalizes
    <2> QED
      BY <2>3, <2>4, <2>5, <2>6 DEF InstallInv
  <1>5. ASSUME NEW x \in Setup, Installer(x) PROVE InstallInv'
    <2>1. /\ setup[x].step = "installer" /\ server' \in {server, "down", "admin"}
          /\ serverEnv' = "admin" /\ Follow(x, "lock")
          /\ UNCHANGED <<present, secrets, config, accounts, rejects, caddyfile, caddy, typos, setups, opened>>
      BY <1>0, <1>5 DEF Installer, Runs, hostVars, facadeVars
    <2>2. /\ setup' \in [Setup -> SetupRec] /\ setup'[x].step = "lock"
          /\ setup'[x].script = setup[x].script /\ setup'[x].alone = setup[x].alone
          /\ \A y \in Setup \ {x} : setup'[y] = setup[y]
      BY <1>0, <2>1, SetupFollows DEF InstallStep
    <2>3. InstallTyped'
      BY <1>0, <2>1, <2>2 DEF InstallTyped, EnvKind
    <2>4. RecoveryClosed'
      BY <1>0, <1>00, <2>1, <2>2 DEF RecoveryClosed, Opening, Finalizes
    <2>5. FacadeBehindRejects'
      BY <1>0, <1>00, <2>1, <2>2 DEF FacadeBehindRejects, SetupSound
    <2>6. SetupSound'
      BY <1>0, <1>00, <2>1, <2>2 DEF SetupSound, Finalizes
    <2> QED
      BY <2>3, <2>4, <2>5, <2>6 DEF InstallInv
  <1>6. ASSUME NEW x \in Setup, LockPublicPorts(x) PROVE InstallInv'
    <2>1. /\ setup[x].step = "lock" /\ rejects' \in {rejects, rejects \cup {8080}}
          /\ Follow(x, "restart")
          /\ UNCHANGED <<present, secrets, config, serverEnv, server, accounts, caddyfile, caddy, typos, setups, opened>>
      BY <1>0, <1>6 DEF LockPublicPorts, Runs, hostVars, facadeVars
    <2>2. /\ setup' \in [Setup -> SetupRec] /\ setup'[x].step = "restart"
          /\ setup'[x].script = setup[x].script /\ setup'[x].alone = setup[x].alone
          /\ \A y \in Setup \ {x} : setup'[y] = setup[y]
      BY <1>0, <2>1, SetupFollows DEF InstallStep
    <2>3. InstallTyped'
      BY <1>0, <2>1, <2>2 DEF InstallTyped, EnvKind
    <2>4. RecoveryClosed'
      BY <1>0, <1>00, <2>1, <2>2 DEF RecoveryClosed, Opening, Finalizes
    <2>5. FacadeBehindRejects'
      BY <1>0, <1>00, <2>1, <2>2 DEF FacadeBehindRejects, SetupSound
    <2>6. SetupSound'
      BY <1>0, <1>00, <2>1, <2>2 DEF SetupSound, Finalizes
    <2> QED
      BY <2>3, <2>4, <2>5, <2>6 DEF InstallInv
  <1>7. ASSUME NEW x \in Setup, FirstRestart(x) PROVE InstallInv'
    <2>1. /\ setup[x].step = "restart" /\ server' \in {serverEnv, "down", server}
          /\ SetupEnds(x)
          /\ UNCHANGED <<present, secrets, config, serverEnv, accounts, rejects, caddyfile, caddy, typos, setups, opened>>
      BY <1>0, <1>7 DEF FirstRestart, Runs, RestartServer, hostVars, facadeVars
    <2>2. /\ setup' \in [Setup -> SetupRec] /\ setup'[x].step = "idle"
          /\ setup'[x].script = "none" /\ \A y \in Setup \ {x} : setup'[y] = setup[y]
      BY <1>0, <2>1, SetupOver
    <2>3. InstallTyped'
      BY <1>0, <2>1, <2>2 DEF InstallTyped, EnvKind
    <2>4. RecoveryClosed'
      BY <1>0, <1>00, <2>1, <2>2 DEF RecoveryClosed, Opening, Finalizes
    <2>5. FacadeBehindRejects'
      BY <1>0, <1>00, <2>1, <2>2 DEF FacadeBehindRejects, SetupSound
    <2>6. SetupSound'
      BY <1>0, <1>00, <2>1, <2>2 DEF SetupSound, Finalizes
    <2> QED
      BY <2>3, <2>4, <2>5, <2>6 DEF InstallInv
  <1>8. ASSUME NEW x \in Setup, OpenAdmin(x), Finalizes(x) PROVE InstallInv'
    <2>1. /\ Finalizes(x)
          /\ setup[x].step = "open" /\ serverEnv' = "recovery"
          /\ Follow(x, "reload2")
          /\ UNCHANGED <<present, secrets, config, server, accounts, rejects, caddyfile, caddy, typos, setups, opened>>
      BY <1>0, <1>8 DEF OpenAdmin, hostVars, facadeVars
    <2>2. /\ setup' \in [Setup -> SetupRec] /\ setup'[x].step = "reload2"
          /\ setup'[x].script = setup[x].script /\ setup'[x].alone = setup[x].alone
          /\ \A y \in Setup \ {x} : setup'[y] = setup[y]
      BY <1>0, <2>1, SetupFollows DEF InstallStep
    <2>3. InstallTyped'
      BY <1>0, <2>1, <2>2 DEF InstallTyped, EnvKind
    <2>4. RecoveryClosed'
      BY <1>0, <1>00, <2>1, <2>2 DEF RecoveryClosed, Opening, Finalizes
    <2>5. FacadeBehindRejects'
      BY <1>0, <1>00, <2>1, <2>2 DEF FacadeBehindRejects, SetupSound
    <2>6. SetupSound'
      BY <1>0, <1>00, <2>1, <2>2 DEF SetupSound, Finalizes
    <2> QED
      BY <2>3, <2>4, <2>5, <2>6 DEF InstallInv
  <1>9. ASSUME NEW x \in Setup, OpenAdmin(x), ~Finalizes(x) PROVE InstallInv'
    <2>1. /\ ~Finalizes(x)
          /\ setup[x].step = "open" /\ serverEnv' = "admin"
          /\ Follow(x, "reload")
          /\ UNCHANGED <<present, secrets, config, server, accounts, rejects, caddyfile, caddy, typos, setups, opened>>
      BY <1>0, <1>9 DEF OpenAdmin, hostVars, facadeVars
    <2>2. /\ setup' \in [Setup -> SetupRec] /\ setup'[x].step = "reload"
          /\ setup'[x].script = setup[x].script /\ setup'[x].alone = setup[x].alone
          /\ \A y \in Setup \ {x} : setup'[y] = setup[y]
      BY <1>0, <2>1, SetupFollows DEF InstallStep
    <2>3. InstallTyped'
      BY <1>0, <2>1, <2>2 DEF InstallTyped, EnvKind
    <2>4. RecoveryClosed'
      BY <1>0, <1>00, <2>1, <2>2 DEF RecoveryClosed, Opening, Finalizes
    <2>5. FacadeBehindRejects'
      BY <1>0, <1>00, <2>1, <2>2 DEF FacadeBehindRejects, SetupSound
    <2>6. SetupSound'
      BY <1>0, <1>00, <2>1, <2>2 DEF SetupSound, Finalizes
    <2> QED
      BY <2>3, <2>4, <2>5, <2>6 DEF InstallInv
  <1>10. ASSUME NEW x \in Setup, ReloadAdmin(x), server' # "down" PROVE InstallInv'
    <2>1. /\ setup[x].step = "reload" /\ server' \in {serverEnv, "down"}
          /\ opened' = opened /\ Follow(x, "configure")
          /\ UNCHANGED <<present, secrets, config, serverEnv, accounts, rejects, caddyfile, caddy, typos, setups>>
      BY <1>0, <1>10 DEF ReloadAdmin, Reload, RestartServer, hostVars, facadeVars
    <2>2. /\ setup' \in [Setup -> SetupRec] /\ setup'[x].step = "configure"
          /\ setup'[x].script = setup[x].script /\ setup'[x].alone = setup[x].alone
          /\ \A y \in Setup \ {x} : setup'[y] = setup[y]
      BY <1>0, <2>1, SetupFollows DEF InstallStep
    <2>3. InstallTyped'
      BY <1>0, <2>1, <2>2 DEF InstallTyped, EnvKind
    <2>4. RecoveryClosed'
      BY <1>0, <1>00, <2>1, <2>2 DEF RecoveryClosed, Opening, Finalizes
    <2>5. FacadeBehindRejects'
      BY <1>0, <1>00, <2>1, <2>2 DEF FacadeBehindRejects, SetupSound
    <2>6. SetupSound'
      BY <1>0, <1>00, <2>1, <2>2 DEF SetupSound, Finalizes
    <2> QED
      BY <2>3, <2>4, <2>5, <2>6 DEF InstallInv
  <1>11. ASSUME NEW x \in Setup, ReloadAdmin(x), server' = "down" PROVE InstallInv'
    <2>1. /\ server' = "down"
          /\ setup[x].step = "reload"
          /\ opened' = (opened \/ Opening(x)) /\ SetupEnds(x)
          /\ UNCHANGED <<present, secrets, config, serverEnv, accounts, rejects, caddyfile, caddy, typos, setups>>
      BY <1>0, <1>11 DEF ReloadAdmin, Reload, RestartServer, hostVars, facadeVars
    <2>2. /\ setup' \in [Setup -> SetupRec] /\ setup'[x].step = "idle"
          /\ setup'[x].script = "none" /\ \A y \in Setup \ {x} : setup'[y] = setup[y]
      BY <1>0, <2>1, SetupOver
    <2>3. RecoveryClosed' /\ opened' \in BOOLEAN
      BY <1>0, <1>00, <2>1, <2>2, OpeningEnds
    <2>4. InstallTyped'
      BY <1>0, <2>1, <2>2, <2>3 DEF InstallTyped, EnvKind
    <2>5. RecoveryClosed'
      BY <2>3
    <2>6. FacadeBehindRejects'
      BY <1>0, <1>00, <2>1, <2>2, <2>3 DEF FacadeBehindRejects, SetupSound
    <2>7. SetupSound'
      BY <1>0, <1>00, <2>1, <2>2, <2>3 DEF SetupSound, Finalizes
    <2> QED
      BY <2>4, <2>5, <2>6, <2>7 DEF InstallInv
  <1>12. ASSUME NEW x \in Setup, UpdateBootstrap(x), config' PROVE InstallInv'
    <2>1. /\ setup[x].step = "configure" /\ config' \in BOOLEAN
          /\ Follow(x, "reload2")
          /\ UNCHANGED <<present, secrets, serverEnv, server, accounts, rejects, caddyfile, caddy, typos, setups, opened>>
      BY <1>0, <1>12 DEF UpdateBootstrap, hostVars, facadeVars
    <2>2. /\ setup' \in [Setup -> SetupRec] /\ setup'[x].step = "reload2"
          /\ setup'[x].script = setup[x].script /\ setup'[x].alone = setup[x].alone
          /\ \A y \in Setup \ {x} : setup'[y] = setup[y]
      BY <1>0, <2>1, SetupFollows DEF InstallStep
    <2>3. InstallTyped'
      BY <1>0, <2>1, <2>2 DEF InstallTyped, EnvKind
    <2>4. RecoveryClosed'
      BY <1>0, <1>00, <2>1, <2>2 DEF RecoveryClosed, Opening, Finalizes
    <2>5. FacadeBehindRejects'
      BY <1>0, <1>00, <2>1, <2>2 DEF FacadeBehindRejects, SetupSound
    <2>6. SetupSound'
      BY <1>0, <1>00, <2>1, <2>2 DEF SetupSound, Finalizes
    <2> QED
      BY <2>3, <2>4, <2>5, <2>6 DEF InstallInv
  <1>13. ASSUME NEW x \in Setup, UpdateBootstrap(x), ~config' PROVE InstallInv'
    <2>1. /\ setup[x].step = "configure"
          /\ Follow(x, "minimal")
          /\ UNCHANGED <<present, secrets, serverEnv, server, accounts, rejects, caddyfile, caddy, typos, setups, opened>>
      BY <1>0, <1>13 DEF UpdateBootstrap, hostVars, facadeVars
    <2>2. /\ setup' \in [Setup -> SetupRec] /\ setup'[x].step = "minimal"
          /\ setup'[x].script = setup[x].script /\ setup'[x].alone = setup[x].alone
          /\ \A y \in Setup \ {x} : setup'[y] = setup[y]
      BY <1>0, <2>1, SetupFollows DEF InstallStep
    <2>3. config' \in BOOLEAN
      BY <1>0, <1>13, ConfigWritten
    <2>4. InstallTyped'
      BY <1>0, <2>1, <2>2, <2>3 DEF InstallTyped, EnvKind
    <2>5. RecoveryClosed'
      BY <1>0, <1>00, <2>1, <2>2, <2>3 DEF RecoveryClosed, Opening, Finalizes
    <2>6. FacadeBehindRejects'
      BY <1>0, <1>00, <2>1, <2>2, <2>3 DEF FacadeBehindRejects, SetupSound
    <2>7. SetupSound'
      BY <1>0, <1>00, <2>1, <2>2, <2>3 DEF SetupSound, Finalizes
    <2> QED
      BY <2>4, <2>5, <2>6, <2>7 DEF InstallInv
  <1>14. ASSUME NEW x \in Setup, MinimalConfig(x) PROVE InstallInv'
    <2>1. /\ setup[x].step = "minimal" /\ config' = TRUE
          /\ serverEnv' = "recovery" /\ Follow(x, "reload2")
          /\ UNCHANGED <<present, secrets, server, accounts, rejects, caddyfile, caddy, typos, setups, opened>>
      BY <1>0, <1>14 DEF MinimalConfig, hostVars, facadeVars
    <2>2. /\ setup' \in [Setup -> SetupRec] /\ setup'[x].step = "reload2"
          /\ setup'[x].script = setup[x].script /\ setup'[x].alone = setup[x].alone
          /\ \A y \in Setup \ {x} : setup'[y] = setup[y]
      BY <1>0, <2>1, SetupFollows DEF InstallStep
    <2>3. InstallTyped'
      BY <1>0, <2>1, <2>2 DEF InstallTyped, EnvKind
    <2>4. RecoveryClosed'
      BY <1>0, <1>00, <2>1, <2>2 DEF RecoveryClosed, Opening, Finalizes
    <2>5. FacadeBehindRejects'
      BY <1>0, <1>00, <2>1, <2>2 DEF FacadeBehindRejects, SetupSound
    <2>6. SetupSound'
      BY <1>0, <1>00, <2>1, <2>2 DEF SetupSound, Finalizes
    <2> QED
      BY <2>3, <2>4, <2>5, <2>6 DEF InstallInv
  <1>15. ASSUME NEW x \in Setup, ReloadConfigured(x), server' # "down" PROVE InstallInv'
    <2>1. /\ setup[x].step = "reload2" /\ server' \in {serverEnv, "down"}
          /\ opened' = opened /\ Follow(x, "apply")
          /\ UNCHANGED <<present, secrets, config, serverEnv, accounts, rejects, caddyfile, caddy, typos, setups>>
      BY <1>0, <1>15 DEF ReloadConfigured, Reload, RestartServer, hostVars, facadeVars
    <2>2. /\ setup' \in [Setup -> SetupRec] /\ setup'[x].step = "apply"
          /\ setup'[x].script = setup[x].script /\ setup'[x].alone = setup[x].alone
          /\ \A y \in Setup \ {x} : setup'[y] = setup[y]
      BY <1>0, <2>1, SetupFollows DEF InstallStep
    <2>3. InstallTyped'
      BY <1>0, <2>1, <2>2 DEF InstallTyped, EnvKind
    <2>4. RecoveryClosed'
      BY <1>0, <1>00, <2>1, <2>2 DEF RecoveryClosed, Opening, Finalizes
    <2>5. FacadeBehindRejects'
      BY <1>0, <1>00, <2>1, <2>2 DEF FacadeBehindRejects, SetupSound
    <2>6. SetupSound'
      BY <1>0, <1>00, <2>1, <2>2 DEF SetupSound, Finalizes
    <2> QED
      BY <2>3, <2>4, <2>5, <2>6 DEF InstallInv
  <1>16. ASSUME NEW x \in Setup, ReloadConfigured(x), server' = "down" PROVE InstallInv'
    <2>1. /\ server' = "down"
          /\ setup[x].step = "reload2"
          /\ opened' = (opened \/ Opening(x)) /\ SetupEnds(x)
          /\ UNCHANGED <<present, secrets, config, serverEnv, accounts, rejects, caddyfile, caddy, typos, setups>>
      BY <1>0, <1>16 DEF ReloadConfigured, Reload, RestartServer, hostVars, facadeVars
    <2>2. /\ setup' \in [Setup -> SetupRec] /\ setup'[x].step = "idle"
          /\ setup'[x].script = "none" /\ \A y \in Setup \ {x} : setup'[y] = setup[y]
      BY <1>0, <2>1, SetupOver
    <2>3. RecoveryClosed' /\ opened' \in BOOLEAN
      BY <1>0, <1>00, <2>1, <2>2, OpeningEnds
    <2>4. InstallTyped'
      BY <1>0, <2>1, <2>2, <2>3 DEF InstallTyped, EnvKind
    <2>5. RecoveryClosed'
      BY <2>3
    <2>6. FacadeBehindRejects'
      BY <1>0, <1>00, <2>1, <2>2, <2>3 DEF FacadeBehindRejects, SetupSound
    <2>7. SetupSound'
      BY <1>0, <1>00, <2>1, <2>2, <2>3 DEF SetupSound, Finalizes
    <2> QED
      BY <2>4, <2>5, <2>6, <2>7 DEF InstallInv
  <1>17. ASSUME NEW x \in Setup, ApplyPlan(x), Finalizes(x) PROVE InstallInv'
    <2>1. /\ Finalizes(x)
          /\ setup[x].step = "apply" /\ accounts' = TRUE
          /\ Follow(x, "firewall")
          /\ UNCHANGED <<present, secrets, config, serverEnv, server, rejects, caddyfile, caddy, typos, setups, opened>>
      BY <1>0, <1>17 DEF ApplyPlan, hostVars, facadeVars
    <2>2. /\ setup' \in [Setup -> SetupRec] /\ setup'[x].step = "firewall"
          /\ setup'[x].script = setup[x].script /\ setup'[x].alone = setup[x].alone
          /\ \A y \in Setup \ {x} : setup'[y] = setup[y]
      BY <1>0, <2>1, SetupFollows DEF InstallStep
    <2>3. InstallTyped'
      BY <1>0, <2>1, <2>2 DEF InstallTyped, EnvKind
    <2>4. RecoveryClosed'
      BY <1>0, <1>00, <2>1, <2>2 DEF RecoveryClosed, Opening, Finalizes
    <2>5. FacadeBehindRejects'
      BY <1>0, <1>00, <2>1, <2>2 DEF FacadeBehindRejects, SetupSound
    <2>6. SetupSound'
      BY <1>0, <1>00, <2>1, <2>2 DEF SetupSound, Finalizes
    <2> QED
      BY <2>3, <2>4, <2>5, <2>6 DEF InstallInv
  <1>18. ASSUME NEW x \in Setup, ApplyPlan(x), ~Finalizes(x) PROVE InstallInv'
    <2>1. /\ ~Finalizes(x)
          /\ setup[x].step = "apply"
          /\ Follow(x, "close")
          /\ UNCHANGED <<present, secrets, config, serverEnv, server, rejects, caddyfile, caddy, typos, setups, opened>>
      BY <1>0, <1>18 DEF ApplyPlan, hostVars, facadeVars
    <2>2. /\ setup' \in [Setup -> SetupRec] /\ setup'[x].step = "close"
          /\ setup'[x].script = setup[x].script /\ setup'[x].alone = setup[x].alone
          /\ \A y \in Setup \ {x} : setup'[y] = setup[y]
      BY <1>0, <2>1, SetupFollows DEF InstallStep
    <2>3. accounts' \in BOOLEAN /\ (accounts => accounts')
      BY <1>0, <1>18, PlanApplied
    <2>4. InstallTyped'
      BY <1>0, <2>1, <2>2, <2>3 DEF InstallTyped, EnvKind
    <2>5. RecoveryClosed'
      BY <1>0, <1>00, <2>1, <2>2, <2>3 DEF RecoveryClosed, Opening, Finalizes
    <2>6. FacadeBehindRejects'
      BY <1>0, <1>00, <2>1, <2>2, <2>3 DEF FacadeBehindRejects, SetupSound
    <2>7. SetupSound'
      BY <1>0, <1>00, <2>1, <2>2, <2>3 DEF SetupSound, Finalizes
    <2> QED
      BY <2>4, <2>5, <2>6, <2>7 DEF InstallInv
  <1>19. ASSUME NEW x \in Setup, RejectPublicPorts(x) PROVE InstallInv'
    <2>1. /\ setup[x].step = "firewall" /\ rejects' = {25, 8080}
          /\ Follow(x, "facade")
          /\ UNCHANGED <<present, secrets, config, serverEnv, server, accounts, caddyfile, caddy, typos, setups, opened>>
      BY <1>0, <1>19 DEF RejectPublicPorts, hostVars, facadeVars
    <2>2. /\ setup' \in [Setup -> SetupRec] /\ setup'[x].step = "facade"
          /\ setup'[x].script = setup[x].script /\ setup'[x].alone = setup[x].alone
          /\ \A y \in Setup \ {x} : setup'[y] = setup[y]
      BY <1>0, <2>1, SetupFollows DEF InstallStep
    <2>3. InstallTyped'
      BY <1>0, <2>1, <2>2 DEF InstallTyped, EnvKind
    <2>4. RecoveryClosed'
      BY <1>0, <1>00, <2>1, <2>2 DEF RecoveryClosed, Opening, Finalizes
    <2>5. FacadeBehindRejects'
      BY <1>0, <1>00, <2>1, <2>2 DEF FacadeBehindRejects, SetupSound
    <2>6. SetupSound'
      BY <1>0, <1>00, <2>1, <2>2 DEF SetupSound, Finalizes
    <2> QED
      BY <2>3, <2>4, <2>5, <2>6 DEF InstallInv
  <1>20. ASSUME NEW x \in Setup, AppendVhost(x), caddyfile.mail /\ ~Finalizes(x) PROVE InstallInv'
    <2>1. /\ ~Finalizes(x)
          /\ setup[x].step = "facade" /\ caddyfile' = [caddyfile EXCEPT !.mail = TRUE]
          /\ SetupEnds(x)
          /\ UNCHANGED <<present, secrets, config, serverEnv, server, accounts, rejects, caddy, typos, setups, opened>>
      BY <1>0, <1>20 DEF AppendVhost, hostVars, facadeVars
    <2>2. /\ setup' \in [Setup -> SetupRec] /\ setup'[x].step = "idle"
          /\ setup'[x].script = "none" /\ \A y \in Setup \ {x} : setup'[y] = setup[y]
      BY <1>0, <2>1, SetupOver
    <2>3. caddyfile' \in Caddyfile /\ caddyfile'.mail
      BY <1>0, <1>20, VhostAdded
    <2>4. InstallTyped'
      BY <1>0, <2>1, <2>2, <2>3 DEF InstallTyped, EnvKind
    <2>5. RecoveryClosed'
      BY <1>0, <1>00, <2>1, <2>2, <2>3 DEF RecoveryClosed, Opening, Finalizes
    <2>6. FacadeBehindRejects'
      BY <1>0, <1>00, <2>1, <2>2, <2>3 DEF FacadeBehindRejects, SetupSound
    <2>7. SetupSound'
      BY <1>0, <1>00, <2>1, <2>2, <2>3 DEF SetupSound, Finalizes
    <2> QED
      BY <2>4, <2>5, <2>6, <2>7 DEF InstallInv
  <1>21. ASSUME NEW x \in Setup, AppendVhost(x), ~(caddyfile.mail /\ ~Finalizes(x)) PROVE InstallInv'
    <2>1. /\ setup[x].step = "facade" /\ caddyfile' = [caddyfile EXCEPT !.mail = TRUE]
          /\ setup' = [setup EXCEPT ![x].step = "validate", ![x].bak = caddyfile]
          /\ UNCHANGED <<present, secrets, config, serverEnv, server, accounts, rejects, caddy, typos, setups, opened>>
      BY <1>0, <1>21 DEF AppendVhost, hostVars, facadeVars
    <2>2. /\ setup' \in [Setup -> SetupRec] /\ setup'[x].step = "validate"
          /\ setup'[x].script = setup[x].script /\ setup'[x].alone = setup[x].alone
          /\ \A y \in Setup \ {x} : setup'[y] = setup[y]
      <3> DEFINE p == [setup[x] EXCEPT !.step = "validate"]
                 q == [p EXCEPT !.bak = caddyfile]
      <3>1. setup' = [setup EXCEPT ![x] = q]
        BY <2>1
      <3>2. /\ p \in SetupRec /\ p.step = "validate" /\ p.script = setup[x].script
            /\ p.alone = setup[x].alone
        BY <1>0 DEF SetupRec, InstallStep
      <3>3. /\ q \in SetupRec /\ q.step = "validate" /\ q.script = setup[x].script
            /\ q.alone = setup[x].alone
        <4> HIDE DEF p
        <4> QED BY <1>0, <3>2 DEF SetupRec
      <3> HIDE DEF q
      <3> QED
        BY <1>0, <3>1, <3>3
    <2>3. caddyfile' \in Caddyfile /\ caddyfile'.mail
      BY <1>0, <1>21, VhostAdded
    <2>4. InstallTyped'
      BY <1>0, <2>1, <2>2, <2>3 DEF InstallTyped, EnvKind
    <2>5. RecoveryClosed'
      BY <1>0, <1>00, <2>1, <2>2, <2>3 DEF RecoveryClosed, Opening, Finalizes
    <2>6. FacadeBehindRejects'
      BY <1>0, <1>00, <2>1, <2>2, <2>3 DEF FacadeBehindRejects, SetupSound
    <2>7. SetupSound'
      BY <1>0, <1>00, <2>1, <2>2, <2>3 DEF SetupSound, Finalizes
    <2> QED
      BY <2>4, <2>5, <2>6, <2>7 DEF InstallInv
  <1>22. ASSUME NEW x \in Setup, ReloadCaddy(x), Finalizes(x) PROVE InstallInv'
    <2>1. /\ Finalizes(x)
          /\ setup[x].step = "validate" /\ caddy' = caddyfile.mail
          /\ Follow(x, "close")
          /\ UNCHANGED <<present, secrets, config, serverEnv, server, accounts, rejects, caddyfile, typos, setups, opened>>
      BY <1>0, <1>22 DEF ReloadCaddy, hostVars, facadeVars
    <2>2. /\ setup' \in [Setup -> SetupRec] /\ setup'[x].step = "close"
          /\ setup'[x].script = setup[x].script /\ setup'[x].alone = setup[x].alone
          /\ \A y \in Setup \ {x} : setup'[y] = setup[y]
      BY <1>0, <2>1, SetupFollows DEF InstallStep
    <2>3. caddy' \in BOOLEAN
      BY <1>0, <2>1 DEF Caddyfile
    <2>4. InstallTyped'
      BY <1>0, <2>1, <2>2, <2>3 DEF InstallTyped, EnvKind
    <2>5. RecoveryClosed'
      BY <1>0, <1>00, <2>1, <2>2, <2>3 DEF RecoveryClosed, Opening, Finalizes
    <2>6. FacadeBehindRejects'
      BY <1>0, <1>00, <2>1, <2>2, <2>3 DEF FacadeBehindRejects, SetupSound
    <2>7. SetupSound'
      BY <1>0, <1>00, <2>1, <2>2, <2>3 DEF SetupSound, Finalizes
    <2> QED
      BY <2>4, <2>5, <2>6, <2>7 DEF InstallInv
  <1>23. ASSUME NEW x \in Setup, ReloadCaddy(x), ~Finalizes(x) PROVE InstallInv'
    <2>1. /\ ~Finalizes(x)
          /\ setup[x].step = "validate" /\ caddy' = caddyfile.mail
          /\ SetupEnds(x)
          /\ UNCHANGED <<present, secrets, config, serverEnv, server, accounts, rejects, caddyfile, typos, setups, opened>>
      BY <1>0, <1>23 DEF ReloadCaddy, hostVars, facadeVars
    <2>2. /\ setup' \in [Setup -> SetupRec] /\ setup'[x].step = "idle"
          /\ setup'[x].script = "none" /\ \A y \in Setup \ {x} : setup'[y] = setup[y]
      BY <1>0, <2>1, SetupOver
    <2>3. caddy' \in BOOLEAN
      BY <1>0, <2>1 DEF Caddyfile
    <2>4. InstallTyped'
      BY <1>0, <2>1, <2>2, <2>3 DEF InstallTyped, EnvKind
    <2>5. RecoveryClosed'
      BY <1>0, <1>00, <2>1, <2>2, <2>3 DEF RecoveryClosed, Opening, Finalizes
    <2>6. FacadeBehindRejects'
      BY <1>0, <1>00, <2>1, <2>2, <2>3 DEF FacadeBehindRejects, SetupSound
    <2>7. SetupSound'
      BY <1>0, <1>00, <2>1, <2>2, <2>3 DEF SetupSound, Finalizes
    <2> QED
      BY <2>4, <2>5, <2>6, <2>7 DEF InstallInv
  <1>24. ASSUME NEW x \in Setup, RestoreCaddyfile(x) PROVE InstallInv'
    <2>1. PICK bak \in Backups(x) :
             caddyfile' = bak /\ caddy' = IF bak.valid /\ ~Finalizes(x) THEN bak.mail ELSE caddy
      BY <1>24 DEF RestoreCaddyfile
    <2>2. bak \in Caddyfile /\ caddyfile' \in Caddyfile /\ caddy' \in BOOLEAN
      <3>1. \A y \in Setup : setup[y].bak \in Caddyfile
        BY <1>0 DEF SetupRec
      <3>2. bak \in Caddyfile
        BY <3>1 DEF Backups
      <3> QED
        BY <1>0, <2>1, <3>2 DEF Caddyfile
    <2>3. /\ setup[x].step = "validate" /\ SetupEnds(x) /\ opened' = (opened \/ Finalizes(x))
          /\ UNCHANGED <<present, secrets, config, serverEnv, server, accounts, rejects, typos, setups>>
      BY <1>24 DEF RestoreCaddyfile, hostVars
    <2>4. /\ setup' \in [Setup -> SetupRec] /\ setup'[x].step = "idle"
          /\ setup'[x].script = "none" /\ \A y \in Setup \ {x} : setup'[y] = setup[y]
      BY <1>0, <2>3, SetupOver
    <2>5. opened' = (opened \/ Opening(x))
      <3>1. Finalizes(x) <=> Opening(x)
        BY <2>3 DEF Opening
      <3> QED
        BY <2>3, <3>1, Zenon DEF Opening, Finalizes
    <2>6. RecoveryClosed' /\ opened' \in BOOLEAN
      BY <1>0, <1>00, <2>3, <2>4, <2>5, OpeningEnds
    <2>7. InstallTyped'
      BY <1>0, <2>1, <2>2, <2>3, <2>4, <2>5, <2>6 DEF InstallTyped, EnvKind
    <2>8. RecoveryClosed'
      BY <2>6
    <2>9. FacadeBehindRejects'
      BY <1>0, <1>00, <2>1, <2>2, <2>3, <2>4, <2>5, <2>6 DEF FacadeBehindRejects, SetupSound
    <2>10. SetupSound'
      BY <1>0, <1>00, <2>1, <2>2, <2>3, <2>4, <2>5, <2>6 DEF SetupSound, Finalizes
    <2> QED
      BY <2>7, <2>8, <2>9, <2>10 DEF InstallInv
  <1>25. ASSUME NEW x \in Setup, CloseAdmin(x) PROVE InstallInv'
    <2>1. /\ setup[x].step = "close" /\ serverEnv' = "plain"
          /\ opened' = FALSE /\ Follow(x, "reload3")
          /\ UNCHANGED <<present, secrets, config, server, accounts, rejects, caddyfile, caddy, typos, setups>>
      BY <1>0, <1>25 DEF CloseAdmin, hostVars, facadeVars
    <2>2. /\ setup' \in [Setup -> SetupRec] /\ setup'[x].step = "reload3"
          /\ setup'[x].script = setup[x].script /\ setup'[x].alone = setup[x].alone
          /\ \A y \in Setup \ {x} : setup'[y] = setup[y]
      BY <1>0, <2>1, SetupFollows DEF InstallStep
    <2>3. opened' \in BOOLEAN
      BY <2>1, Zenon
    <2>4. InstallTyped'
      BY <1>0, <2>1, <2>2, <2>3 DEF InstallTyped, EnvKind
    <2>5. RecoveryClosed'
      BY <1>0, <1>00, <2>1, <2>2, <2>3 DEF RecoveryClosed, Opening, Finalizes
    <2>6. FacadeBehindRejects'
      BY <1>0, <1>00, <2>1, <2>2, <2>3 DEF FacadeBehindRejects, SetupSound
    <2>7. SetupSound'
      BY <1>0, <1>00, <2>1, <2>2, <2>3 DEF SetupSound, Finalizes
    <2> QED
      BY <2>4, <2>5, <2>6, <2>7 DEF InstallInv
  <1>26. ASSUME NEW x \in Setup, ReloadServed(x), server' # "down" /\ ~Finalizes(x) PROVE InstallInv'
    <2>1. /\ setup[x].step = "reload3" /\ server' \in {serverEnv, "down"}
          /\ opened' = opened /\ Follow(x, "firewall")
          /\ ~Finalizes(x)
          /\ UNCHANGED <<present, secrets, config, serverEnv, accounts, rejects, caddyfile, caddy, typos, setups>>
      BY <1>0, <1>26 DEF ReloadServed, Reload, RestartServer, hostVars, facadeVars
    <2>2. /\ setup' \in [Setup -> SetupRec] /\ setup'[x].step = "firewall"
          /\ setup'[x].script = setup[x].script /\ setup'[x].alone = setup[x].alone
          /\ \A y \in Setup \ {x} : setup'[y] = setup[y]
      BY <1>0, <2>1, SetupFollows DEF InstallStep
    <2>3. InstallTyped'
      BY <1>0, <2>1, <2>2 DEF InstallTyped, EnvKind
    <2>4. RecoveryClosed'
      BY <1>0, <1>00, <2>1, <2>2 DEF RecoveryClosed, Opening, Finalizes
    <2>5. FacadeBehindRejects'
      BY <1>0, <1>00, <2>1, <2>2 DEF FacadeBehindRejects, SetupSound
    <2>6. SetupSound'
      BY <1>0, <1>00, <2>1, <2>2 DEF SetupSound, Finalizes
    <2> QED
      BY <2>3, <2>4, <2>5, <2>6 DEF InstallInv
  <1>27. ASSUME NEW x \in Setup, ReloadServed(x), server' = "down" \/ Finalizes(x) PROVE InstallInv'
    <2>1. /\ setup[x].step = "reload3" /\ server' \in {serverEnv, "down"}
          /\ opened' = (opened \/ (server' = "down" /\ Opening(x))) /\ SetupEnds(x)
          /\ UNCHANGED <<present, secrets, config, serverEnv, accounts, rejects, caddyfile, caddy, typos, setups>>
      BY <1>0, <1>27 DEF ReloadServed, Reload, RestartServer, hostVars, facadeVars
    <2>2. /\ setup' \in [Setup -> SetupRec] /\ setup'[x].step = "idle"
          /\ setup'[x].script = "none" /\ \A y \in Setup \ {x} : setup'[y] = setup[y]
      BY <1>0, <2>1, SetupOver
    <2>3. ~Opening(x)
      BY <2>1 DEF Opening
    <2>4. opened' \in BOOLEAN /\ (opened => opened')
      BY <1>0, <2>1, <2>3, RecoveryRecorded
    <2>5. InstallTyped'
      BY <1>0, <2>1, <2>2, <2>3, <2>4 DEF InstallTyped, EnvKind
    <2>6. RecoveryClosed'
      BY <1>0, <1>00, <2>1, <2>2, <2>3, <2>4 DEF RecoveryClosed, Opening, Finalizes
    <2>7. FacadeBehindRejects'
      BY <1>0, <1>00, <2>1, <2>2, <2>3, <2>4 DEF FacadeBehindRejects, SetupSound
    <2>8. SetupSound'
      BY <1>0, <1>00, <2>1, <2>2, <2>3, <2>4 DEF SetupSound, Finalizes
    <2> QED
      BY <2>5, <2>6, <2>7, <2>8 DEF InstallInv
  <1>28. ASSUME NEW x \in Setup, SetupDies(x) PROVE InstallInv'
    <2>1. /\ setup[x].step # "idle"
          /\ opened' = (opened \/ Opening(x)) /\ SetupEnds(x)
          /\ UNCHANGED <<present, secrets, config, serverEnv, server, accounts, rejects, caddyfile, caddy, typos, setups>>
      BY <1>0, <1>28 DEF SetupDies, hostVars, facadeVars
    <2>2. /\ setup' \in [Setup -> SetupRec] /\ setup'[x].step = "idle"
          /\ setup'[x].script = "none" /\ \A y \in Setup \ {x} : setup'[y] = setup[y]
      BY <1>0, <2>1, SetupOver
    <2>3. RecoveryClosed' /\ opened' \in BOOLEAN
      BY <1>0, <1>00, <2>1, <2>2, OpeningEnds
    <2>4. InstallTyped'
      BY <1>0, <2>1, <2>2, <2>3 DEF InstallTyped, EnvKind
    <2>5. RecoveryClosed'
      BY <2>3
    <2>6. FacadeBehindRejects'
      BY <1>0, <1>00, <2>1, <2>2, <2>3 DEF FacadeBehindRejects, SetupSound
    <2>7. SetupSound'
      BY <1>0, <1>00, <2>1, <2>2, <2>3 DEF SetupSound, Finalizes
    <2> QED
      BY <2>4, <2>5, <2>6, <2>7 DEF InstallInv
  <1>29. ASSUME EditCaddyfile PROVE InstallInv'
    <2>1. /\ caddyfile' = [caddyfile EXCEPT !.valid = ~@] /\ typos' \in 0 .. MaxTypo
          /\ UNCHANGED <<present, secrets, config, serverEnv, server, accounts, rejects, caddy, setup,
                         setups, opened>>
      BY <1>0, <1>29, MailInstallAssumption DEF EditCaddyfile, hostVars
    <2>2. caddyfile' \in Caddyfile /\ caddyfile'.mail = caddyfile.mail
      BY <1>0, <1>29, CaddyfileEdited
    <2>3. InstallTyped'
      BY <1>0, <2>1, <2>2 DEF InstallTyped, EnvKind
    <2>4. RecoveryClosed'
      BY <1>0, <1>00, <2>1, <2>2 DEF RecoveryClosed, Opening, Finalizes
    <2>5. FacadeBehindRejects'
      BY <1>0, <1>00, <2>1, <2>2 DEF FacadeBehindRejects, SetupSound
    <2>6. SetupSound'
      BY <1>0, <1>00, <2>1, <2>2 DEF SetupSound, Finalizes
    <2> QED
      BY <2>3, <2>4, <2>5, <2>6 DEF InstallInv
  <1> QED
    BY <1>1, <1>2, <1>3, <1>4, <1>5, <1>6, <1>7, <1>8, <1>9, <1>10, <1>11, <1>12, <1>13, <1>14,
    <1>15, <1>16, <1>17, <1>18, <1>19, <1>20, <1>21, <1>22, <1>23, <1>24, <1>25, <1>26, <1>27,
    <1>28, <1>29
    DEF InstallNext

LEMMA FinalizedStep == InstallInv /\ [InstallNext]_installVars => [Finalized]_installVars
  <1> SUFFICES ASSUME InstallInv, NEW x \in Setup, Finalizes(x), ReloadServed(x), server' # "down"
               PROVE  /\ accounts /\ rejects = {25, 8080}
                      /\ setup[x].alone => caddy /\ server' = "plain"
    BY DEF Finalized
  <1>1. setup[x].step = "reload3" /\ server' \in {serverEnv, "down"}
    BY DEF ReloadServed, Reload, RestartServer
  <1> QED
    BY <1>1 DEF InstallInv, SetupSound

\* However often the three scripts are run, after and beside each other, and
\* wherever one of them fails: recovery mode stays on only if the script that
\* turned it on ended before it had closed it, Caddy serves the host only
\* behind the rejects, and a finalize that ends well has finished the
\* installation (fracta-stalwart-phase1-finalize).
THEOREM InstallStays == InstallSpec => InstallKept
  <1>1. InstallInv => RecoveryClosed /\ FacadeBehindRejects
    BY DEF InstallInv
  <1> QED
    BY <1>1, InstallInvInit, InstallInvStep, FinalizedStep, PTL DEF InstallSpec, InstallKept

---------------------------------------------------------------------------
(* The console.                                                            *)

PollRec == [open : BOOLEAN, mount : 1 .. MaxMount,
            status : Body \cup {Missing}, board : Body \cup {Missing}]
PageRec == [status : Body \cup {Missing}, board : Body \cup {Missing}, loading : BOOLEAN,
            error : BOOLEAN, by : 0 .. MaxPoll, blind : BOOLEAN]
PanelRec == [open : BOOLEAN, asking : BOOLEAN, result : Body \cup {Missing}, error : BOOLEAN]

ConsoleTyped ==
    /\ fleet \in FleetVersion /\ mount \in 1 .. MaxMount
    /\ \E n \in 1 .. MaxPoll : poll \in [1 .. n -> PollRec]
    /\ page \in PageRec /\ panel \in PanelRec

\* A later poll is of no earlier mount, and the page shows one that there is.
PollsOrdered ==
    /\ \A p \in DOMAIN poll : poll[p].mount <= mount
    /\ \A p, q \in DOMAIN poll : p <= q => poll[p].mount <= poll[q].mount
    /\ page.by \in DOMAIN poll \cup {0}

\* A page that is done loading has something to show for it.
PageSettled == page.loading \/ page.error \/ page.blind \/ page.board # Missing

\* The inductive invariant of Console.
ConsoleInv == ConsoleTyped /\ PollsOrdered /\ PageSettled /\ NoBugsIsTrue

LEMMA BodyIs == ASSUME NEW b \in Body PROVE b.ok \in BOOLEAN /\ b.version \in FleetVersion
  <1>1. CASE b \in [ok : {TRUE}, version : FleetVersion]
    BY <1>1
  <1>2. CASE b \in [ok : {FALSE}, version : {0}]
    <2>1. 0 \in FleetVersion
      BY ConsoleAssumption DEF FleetVersion
    <2> QED
      BY <1>2, <2>1
  <1> QED
    BY <1>1, <1>2 DEF Body

LEMMA ReplyIsBody ==
    ASSUME fleet \in FleetVersion, NEW b \in OpsReply PROVE b \in Body
  <1>1. [ok |-> TRUE, version |-> fleet] \in [ok : {TRUE}, version : FleetVersion]
    OBVIOUS
  <1>2. NotOk \in [ok : {FALSE}, version : {0}]
    BY DEF NotOk
  <1> QED
    BY <1>1, <1>2 DEF OpsReply, Body

LEMMA ConsoleInvInit == ConsoleInit => ConsoleInv
  <1> SUFFICES ASSUME ConsoleInit PROVE ConsoleInv
    OBVIOUS
  <1> DEFINE first == [open |-> TRUE, mount |-> 1, status |-> Missing, board |-> Missing]
  <1>1. first \in PollRec /\ first.mount = 1
    BY ConsoleAssumption DEF PollRec
  <1>2. poll = [p \in 1 .. 1 |-> first]
    BY DEF ConsoleInit
  <1>3. /\ page \in PageRec /\ page.loading /\ page.by = 0
        /\ panel \in PanelRec /\ ~panel.open
    BY ConsoleAssumption DEF ConsoleInit, PageRec, PanelRec, ClosedPanel
  <1>4. poll \in [1 .. 1 -> PollRec] /\ DOMAIN poll = {1} /\ poll[1].mount = 1
    <2> HIDE DEF first
    <2> QED BY <1>1, <1>2
  <1>5. ConsoleTyped
    BY <1>3, <1>4, ConsoleAssumption DEF ConsoleTyped, ConsoleInit
  <1>6. PollsOrdered
    BY <1>3, <1>4 DEF PollsOrdered, ConsoleInit
  <1> QED
    BY <1>3, <1>5, <1>6 DEF ConsoleInv, PageSettled, NoBugsIsTrue

\* A poll that begins is the last, and of the last mount.
LEMMA PollBegins ==
    ASSUME ConsoleInv, NEW m \in 1 .. MaxMount, mount <= m, mount' = m, BeginPoll(m),
           UNCHANGED <<fleet, panel>>
    PROVE  ConsoleInv'
  <1>0. mount \in 1 .. MaxMount /\ page \in PageRec /\ fleet \in FleetVersion /\ panel \in PanelRec
    BY DEF ConsoleInv, ConsoleTyped
  <1> PICK n \in 1 .. MaxPoll : poll \in [1 .. n -> PollRec]
    BY DEF ConsoleInv, ConsoleTyped
  <1> DEFINE new == [open |-> TRUE, mount |-> m, status |-> Missing, board |-> Missing]
  <1>1. DOMAIN poll = 1 .. n /\ Cardinality(DOMAIN poll) = n /\ n < MaxPoll
    <2>1. Cardinality(1 .. n) = n
      BY FS_Interval, ConsoleAssumption
    <2> QED
      BY <2>1 DEF BeginPoll
  <1>2. poll' = [p \in 1 .. n + 1 |-> IF p \in 1 .. n THEN poll[p] ELSE new]
    BY <1>1 DEF BeginPoll
  <1>3. new \in PollRec /\ new.mount = m
    BY DEF PollRec
  <1>4. /\ poll' \in [1 .. n + 1 -> PollRec] /\ DOMAIN poll' = 1 .. n + 1
        /\ \A p \in 1 .. n : poll'[p] = poll[p]
        /\ poll'[n + 1] = new
    <2> HIDE DEF new
    <2> QED BY <1>2, <1>3, ConsoleAssumption
  <1>5. page' \in PageRec /\ page'.loading /\ page'.by = page.by
    BY <1>0 DEF BeginPoll, PageRec
  <1>6. n + 1 \in 1 .. MaxPoll
    BY <1>1, ConsoleAssumption
  <1>7. ConsoleTyped'
    BY <1>0, <1>4, <1>5, <1>6 DEF ConsoleTyped
  <1>8. PollsOrdered'
    <2>1. \A p \in 1 .. n : poll[p].mount <= mount /\ poll[p].mount \in 1 .. MaxMount
      BY <1>1 DEF ConsoleInv, PollsOrdered, PollRec
    <2>2. \A p, q \in 1 .. n : p <= q => poll[p].mount <= poll[q].mount
      BY <1>1 DEF ConsoleInv, PollsOrdered
    <2>3. page.by \in 1 .. n \cup {0}
      BY <1>1 DEF ConsoleInv, PollsOrdered
    <2>4. \A p \in 1 .. n : poll[p].mount <= m
      BY <1>0, <2>1, ConsoleAssumption
    <2>5. \A p \in 1 .. n + 1 : p \in 1 .. n \/ p = n + 1
      BY <1>6, ConsoleAssumption
    <2> HIDE DEF new
    <2>6. \A p \in 1 .. n + 1 : poll'[p].mount <= m
      BY <1>3, <1>4, <2>4, <2>5, ConsoleAssumption
    <2>7. ASSUME NEW p \in 1 .. n + 1, NEW q \in 1 .. n + 1, p <= q
          PROVE  poll'[p].mount <= poll'[q].mount
      <3>1. CASE q = n + 1
        BY <1>3, <1>4, <2>6, <3>1
      <3>2. CASE q \in 1 .. n
        <4>1. p \in 1 .. n
          BY <2>7, <3>2
        <4> QED
          BY <1>4, <2>2, <2>7, <3>2, <4>1
      <3> QED
        BY <2>5, <3>1, <3>2
    <2> QED
      BY <1>4, <1>5, <2>3, <2>6, <2>7 DEF PollsOrdered
  <1> QED
    BY <1>5, <1>7, <1>8 DEF ConsoleInv, PageSettled, NoBugsIsTrue

\* What an answer, or the end of a poll, does to the polls.
LEMMA PollChanges ==
    ASSUME ConsoleInv, NEW p \in DOMAIN poll, NEW r \in PollRec, r.mount = poll[p].mount,
           poll' = [poll EXCEPT ![p] = r], mount' = mount, page' \in PageRec,
           page'.by \in {page.by, p}
    PROVE  /\ \E n \in 1 .. MaxPoll : poll' \in [1 .. n -> PollRec]
           /\ PollsOrdered'
  <1> PICK n \in 1 .. MaxPoll : poll \in [1 .. n -> PollRec]
    BY DEF ConsoleInv, ConsoleTyped
  <1>1. poll' \in [1 .. n -> PollRec] /\ DOMAIN poll' = DOMAIN poll
    OBVIOUS
  <1>2. \A q \in DOMAIN poll : poll'[q].mount = poll[q].mount
    OBVIOUS
  <1> QED
    BY <1>1, <1>2 DEF ConsoleInv, PollsOrdered

LEMMA ConsoleInvStep == ConsoleInv /\ [ConsoleNext]_consoleVars => ConsoleInv'
  <1> SUFFICES ASSUME ConsoleInv, [ConsoleNext]_consoleVars PROVE ConsoleInv'
    OBVIOUS
  <1>0. mount \in 1 .. MaxMount /\ page \in PageRec /\ fleet \in FleetVersion /\ panel \in PanelRec
    BY DEF ConsoleInv, ConsoleTyped
  <1>00. \A p \in DOMAIN poll : poll[p] \in PollRec
    BY DEF ConsoleInv, ConsoleTyped
  <1>1. CASE UNCHANGED consoleVars
    BY <1>1 DEF consoleVars, ConsoleInv, ConsoleTyped, PollsOrdered, PageSettled, NoBugsIsTrue
  <1>2. CASE Tick
    BY <1>0, <1>2, PollBegins DEF Tick
  <1>3. CASE Remount
    <2>1. mount + 1 \in 1 .. MaxMount /\ mount <= mount + 1
      BY <1>0, <1>3, ConsoleAssumption DEF Remount
    <2> QED
      BY <1>3, <2>1, PollBegins DEF Remount
  <1>4. CASE FleetChanges
    <2>1. fleet' \in FleetVersion /\ UNCHANGED <<mount, poll, page, panel>>
      BY <1>0, <1>4, ConsoleAssumption DEF FleetChanges, FleetVersion
    <2> QED
      BY <1>0, <2>1 DEF ConsoleInv, ConsoleTyped, PollsOrdered, PageSettled, NoBugsIsTrue
  <1>5. ASSUME NEW p \in DOMAIN poll, StatusAnswered(p) \/ BoardAnswered(p) PROVE ConsoleInv'
    <2> PICK b \in OpsReply : \/ poll' = [poll EXCEPT ![p].status = b]
                              \/ poll' = [poll EXCEPT ![p].board = b]
      BY <1>5 DEF StatusAnswered, BoardAnswered
    <2>1. b \in Body
      BY <1>0, ReplyIsBody
    <2> PICK r \in {[poll[p] EXCEPT !.status = b], [poll[p] EXCEPT !.board = b]} :
               poll' = [poll EXCEPT ![p] = r]
      OBVIOUS
    <2>2. r \in PollRec /\ r.mount = poll[p].mount
      BY <1>00, <2>1 DEF PollRec
    <2>3. UNCHANGED <<fleet, mount, page, panel>>
      BY <1>5 DEF StatusAnswered, BoardAnswered
    <2>4. (\E n \in 1 .. MaxPoll : poll' \in [1 .. n -> PollRec]) /\ PollsOrdered'
      BY <1>0, <2>2, <2>3, PollChanges
    <2> QED
      BY <1>0, <2>3, <2>4 DEF ConsoleInv, ConsoleTyped, PageSettled, NoBugsIsTrue
  <1>6. ASSUME NEW p \in DOMAIN poll, PollShown(p) \/ PollFails(p) \/ PollAborted(p)
        PROVE  ConsoleInv'
    <2> PICK r : r = [poll[p] EXCEPT !.open = FALSE]
      OBVIOUS
    <2>1. r \in PollRec /\ r.mount = poll[p].mount
      BY <1>00 DEF PollRec
    <2>2. poll' = [poll EXCEPT ![p] = r] /\ UNCHANGED <<fleet, mount, panel>>
      BY <1>6 DEF PollShown, PollFails, PollAborted
    <2>3. page' \in PageRec /\ page'.by \in {page.by, p} /\ PageSettled'
      <3>1. CASE PollShown(p)
        <4> PICK n \in 1 .. MaxPoll : poll \in [1 .. n -> PollRec]
          BY DEF ConsoleInv, ConsoleTyped
        <4>1. p \in 0 .. MaxPoll
          BY ConsoleAssumption
        <4>2. /\ poll[p].status \in Body \cup {Missing} /\ poll[p].board \in Body \cup {Missing}
              /\ poll[p].status # Missing /\ poll[p].board # Missing
          BY <1>00, <3>1 DEF PollRec, PollShown
        <4> PICK e \in BOOLEAN : e = (page.error \/ ~poll[p].status.ok)
          BY Zenon
        <4>3. page' = [page EXCEPT !.status = poll[p].status, !.board = poll[p].board, !.by = p,
                                   !.loading = FALSE, !.error = e]
          BY <3>1 DEF PollShown
        <4>4. page' \in PageRec
          BY <1>0, <4>1, <4>2, <4>3 DEF PageRec
        <4>5. page'.by = p /\ page'.board = poll[p].board
          BY <1>0, <4>3 DEF PageRec
        <4> QED
          BY <4>2, <4>4, <4>5 DEF PageSettled
      <3>2. CASE PollFails(p)
        BY <1>0, <3>2 DEF PollFails, PageRec, PageSettled
      <3>3. CASE PollAborted(p)
        BY <1>0, <3>3 DEF PollAborted, PageRec, PageSettled
      <3> QED
        BY <1>6, <3>1, <3>2, <3>3
    <2>4. (\E n \in 1 .. MaxPoll : poll' \in [1 .. n -> PollRec]) /\ PollsOrdered'
      BY <2>1, <2>2, <2>3, PollChanges
    <2> QED
      BY <1>0, <2>2, <2>3, <2>4 DEF ConsoleInv, ConsoleTyped, NoBugsIsTrue
  <1>7. ASSUME OpenPanel \/ ClosePanel \/ PanelAnswered \/ PanelFails PROVE ConsoleInv'
    <2>1. UNCHANGED <<fleet, mount, poll, page>>
      BY <1>7 DEF OpenPanel, ClosePanel, PanelAnswered, PanelFails
    <2>2. panel' \in PanelRec /\ NoBugsIsTrue'
      <3>1. CASE OpenPanel
        BY <3>1 DEF OpenPanel, ClosedPanel, PanelRec, NoBugsIsTrue
      <3>2. CASE ClosePanel
        BY <3>2 DEF ClosePanel, ClosedPanel, PanelRec, NoBugsIsTrue
      <3>3. CASE PanelAnswered
        <4> PICK b \in OpsReply :
                   panel' = [panel EXCEPT !.asking = FALSE, !.result = b, !.error = ~b.ok]
          BY <3>3 DEF PanelAnswered
        <4>1. b \in Body
          BY <1>0, ReplyIsBody
        <4> PICK e \in BOOLEAN : e = ~b.ok
          OBVIOUS
        <4>2. panel' = [panel EXCEPT !.asking = FALSE, !.result = b, !.error = e]
          OBVIOUS
        <4>3. panel' \in PanelRec /\ panel'.result = b /\ panel'.error = e
          BY <1>0, <4>1, <4>2 DEF PanelRec
        <4> QED
          BY <4>3 DEF NoBugsIsTrue
      <3>4. CASE PanelFails
        BY <1>0, <3>4 DEF PanelFails, PanelRec, NoBugsIsTrue
      <3> QED
        BY <1>7, <3>1, <3>2, <3>3, <3>4
    <2> QED
      BY <1>0, <2>1, <2>2 DEF ConsoleInv, ConsoleTyped, PollsOrdered, PageSettled
  <1> QED
    BY <1>1, <1>2, <1>3, <1>4, <1>5, <1>6, <1>7 DEF ConsoleNext

LEMMA OlderStep == ConsoleInv /\ [ConsoleNext]_consoleVars => [OlderOnlyByOverlap]_consoleVars
  <1> SUFFICES ASSUME ConsoleInv, ConsoleNext, page'.by < page.by PROVE OlderOnlyByOverlap
    BY DEF OlderOnlyByOverlap
  <1>0. page \in PageRec
    BY DEF ConsoleInv, ConsoleTyped
  <1>1. page'.by = page.by \/ \E p \in DOMAIN poll : PollShown(p)
    BY <1>0 DEF ConsoleNext, Tick, Remount, BeginPoll, FleetChanges, StatusAnswered, BoardAnswered,
       PollFails, PollAborted, OpenPanel, ClosePanel, PanelAnswered, PanelFails, PageRec
  <1>2. page.by \in Nat
    BY <1>0, ConsoleAssumption DEF PageRec
  <1>3. PICK p \in DOMAIN poll : PollShown(p)
    BY <1>1, <1>2
  <1>4. page'.by = p /\ poll[p].mount = mount
    BY <1>0, <1>3 DEF PollShown, Aborted, PageRec
  <1> PICK n \in 1 .. MaxPoll : poll \in [1 .. n -> PollRec]
    BY DEF ConsoleInv, ConsoleTyped
  <1>5. page.by \in 1 .. n /\ p \in 1 .. n /\ p <= page.by
    BY <1>2, <1>4, ConsoleAssumption DEF ConsoleInv, PollsOrdered
  <1>6. poll[p].mount <= poll[page.by].mount /\ poll[page.by].mount <= mount
    BY <1>5 DEF ConsoleInv, PollsOrdered
  <1>7. poll[page.by].mount \in Nat /\ mount \in Nat
    BY <1>5, ConsoleAssumption DEF ConsoleInv, ConsoleTyped, PollRec
  <1> QED
    BY <1>4, <1>6, <1>7 DEF OlderOnlyByOverlap

\* The page says that there are no node agents only if it knows, or an error
\* is shown with it; it shows something older only if two polls of the same
\* mount overlapped (FleetView, App).
THEOREM PageHonest == ConsoleSpec => ConsoleHonest
  <1>1. ConsoleInv => NoneIsTrue /\ NoBugsIsTrue
    BY DEF ConsoleInv, PageSettled, NoneIsTrue, SaysNone
  <1> QED
    BY <1>1, ConsoleInvInit, ConsoleInvStep, OlderStep, PTL DEF ConsoleSpec, ConsoleHonest

---------------------------------------------------------------------------
(* The observation of the fleet.                                           *)

HostRec == [is : Condition, head : 0 .. MaxHead]
WatcherRec == [step : {"idle", "collect", "persist", "done"}, cursor : 1 .. Len(Target) + 1,
               busy : SUBSET Asked, got : [Asked -> Evidence \cup {NoAnswer}],
               todo : SUBSET ContinuationId, absent : SUBSET ContinuationId, steady : SUBSET Asked]

Shows(h) == IF h.is = "off" THEN ProbeFailed
            ELSE [is |-> h.is, head |-> IF h.is = "gone" THEN 0 ELSE h.head]

DivergenceTyped ==
    /\ host \in [Asked -> HostRec] /\ turns \in 0 .. MaxTurn /\ watches \in 0 .. MaxWatch
    /\ \E D \in SUBSET ContinuationId : store \in [D -> {"active", "resolved"}]
    /\ watcher \in [Watcher -> WatcherRec]

BusyBounded ==
    \A w \in Watcher : IsFiniteSet(watcher[w].busy) /\ Cardinality(watcher[w].busy) <= Concurrency

\* A run knows of a node that has not changed what it is, and the cursor has
\* passed only nodes that are being asked or have answered.
CollectedTrue ==
    \A w \in Watcher :
        /\ \A n \in watcher[w].steady : watcher[w].got[n] \in {NoAnswer, Shows(host[n])}
        /\ \A i \in 1 .. watcher[w].cursor - 1 :
              Target[i] \in watcher[w].busy \/ watcher[w].got[Target[i]] # NoAnswer

\* The inductive invariant of Divergence.
DivergenceInv == DivergenceTyped /\ BusyBounded /\ CollectedTrue

LEMMA TargetIs ==
    /\ Len(Target) \in Nat /\ DOMAIN Target = 1 .. Len(Target)
    /\ \A i \in 1 .. Len(Target) : Target[i] \in Asked
    /\ \A n \in Asked : \E i \in 1 .. Len(Target) : n = Target[i]
  <1>1. Len(Target) \in Nat /\ DOMAIN Target = 1 .. Len(Target)
    BY DivergenceAssumption
  <1> QED
    BY <1>1 DEF Asked

LEMMA ShowsIs ==
    ASSUME NEW h \in HostRec
    PROVE  /\ Shows(h) \in Evidence /\ Shows(h) # NoAnswer /\ Shows(h).is = h.is
           /\ (Shows(h) = ProbeFailed <=> h.is = "off") /\ (h.is # "off" => Shows(h).head = IF h.is = "gone" THEN 0 ELSE h.head)
  <1>1. ProbeFailed.is = "off" /\ ProbeFailed \in Evidence
    BY DEF ProbeFailed, Evidence
  <1>2. CASE h.is = "off"
    BY <1>1, <1>2, DivergenceAssumption DEF Shows
  <1>3. CASE h.is # "off"
    <2> DEFINE k == IF h.is = "gone" THEN 0 ELSE h.head
    <2>1. h.is \in Condition \ {"off"} /\ k \in 0 .. MaxHead
      BY <1>3, DivergenceAssumption DEF HostRec
    <2>2. Shows(h) = [is |-> h.is, head |-> k]
      BY <1>3 DEF Shows
    <2>3. Shows(h).head = k /\ Shows(h).is = h.is /\ Shows(h) # ProbeFailed
      BY <1>3, <2>2 DEF ProbeFailed
    <2> HIDE DEF k
    <2>4. Shows(h) \in Evidence
      BY <2>1, <2>2 DEF Evidence
    <2> QED
      BY <1>3, <2>3, <2>4, DivergenceAssumption DEF k
  <1> QED
    BY <1>2, <1>3

LEMMA NoWatchIs ==
    /\ NoWatch \in WatcherRec /\ NoWatch.cursor = 1 /\ NoWatch.busy = {} /\ NoWatch.absent = {}
    /\ \A n \in Asked : NoWatch.got[n] = NoAnswer
  BY TargetIs DEF NoWatch, WatcherRec

LEMMA DivergenceInvInit == DivergenceInit => DivergenceInv
  <1> SUFFICES ASSUME DivergenceInit PROVE DivergenceInv
    OBVIOUS
  <1>1. host \in [Asked -> HostRec]
    BY DivergenceAssumption DEF DivergenceInit, HostRec, Condition
  <1>2. turns \in 0 .. MaxTurn /\ watches \in 0 .. MaxWatch
    BY DivergenceAssumption DEF DivergenceInit
  <1>3. store \in [{} -> {"active", "resolved"}]
    BY DEF DivergenceInit
  <1>4. watcher \in [Watcher -> WatcherRec] /\ \A w \in Watcher : watcher[w] = NoWatch
    BY NoWatchIs DEF DivergenceInit
  <1>5. IsFiniteSet(NoWatch.busy) /\ Cardinality(NoWatch.busy) <= Concurrency
    BY NoWatchIs, FS_EmptySet, DivergenceAssumption
  <1>6. NoWatch.steady \subseteq Asked
    BY NoWatchIs DEF WatcherRec
  <1>7. CollectedTrue
    BY <1>4, <1>6, NoWatchIs DEF CollectedTrue
  <1> QED
    BY <1>1, <1>2, <1>3, <1>4, <1>5, <1>7 DEF DivergenceInv, DivergenceTyped, BusyBounded

\* What is known of one run when only that run moves.
LEMMA WatcherMoves ==
    ASSUME DivergenceInv, NEW w \in Watcher, NEW r \in WatcherRec,
           watcher' = [watcher EXCEPT ![w] = r], UNCHANGED <<host, turns>>,
           watches' \in 0 .. MaxWatch,
           \E D \in SUBSET ContinuationId : store' \in [D -> {"active", "resolved"}],
           IsFiniteSet(r.busy), Cardinality(r.busy) <= Concurrency,
           \A n \in r.steady : r.got[n] \in {NoAnswer, Shows(host[n])},
           \A i \in 1 .. r.cursor - 1 : Target[i] \in r.busy \/ r.got[Target[i]] # NoAnswer
    PROVE  DivergenceInv'
  <1>1. watcher' \in [Watcher -> WatcherRec] /\ watcher'[w] = r
        /\ \A v \in Watcher \ {w} : watcher'[v] = watcher[v]
    BY DEF DivergenceInv, DivergenceTyped
  <1>2. DivergenceTyped'
    BY <1>1 DEF DivergenceInv, DivergenceTyped
  <1>3. BusyBounded'
    BY <1>1 DEF DivergenceInv, BusyBounded
  <1>4. CollectedTrue'
    BY <1>1 DEF DivergenceInv, CollectedTrue, Shows
  <1> QED
    BY <1>2, <1>3, <1>4 DEF DivergenceInv

\* The same when the run keeps what it has collected.
LEMMA WatcherNotes ==
    ASSUME DivergenceInv, NEW w \in Watcher, NEW r \in WatcherRec,
           watcher' = [watcher EXCEPT ![w] = r], UNCHANGED <<host, turns, watches>>,
           \E D \in SUBSET ContinuationId : store' \in [D -> {"active", "resolved"}],
           r.busy = watcher[w].busy, r.got = watcher[w].got, r.steady = watcher[w].steady,
           r.cursor = watcher[w].cursor
    PROVE  DivergenceInv'
  <1>1. watches' \in 0 .. MaxWatch
    BY DEF DivergenceInv, DivergenceTyped
  <1>2. IsFiniteSet(r.busy) /\ Cardinality(r.busy) <= Concurrency
    BY DEF DivergenceInv, BusyBounded
  <1>3. /\ \A n \in r.steady : r.got[n] \in {NoAnswer, Shows(host[n])}
        /\ \A i \in 1 .. r.cursor - 1 : Target[i] \in r.busy \/ r.got[Target[i]] # NoAnswer
    BY DEF DivergenceInv, CollectedTrue
  <1> QED
    BY <1>1, <1>2, <1>3, WatcherMoves

LEMMA DivergenceInvStep == DivergenceInv /\ [DivergenceNext]_divergenceVars => DivergenceInv'
  <1> SUFFICES ASSUME DivergenceInv, [DivergenceNext]_divergenceVars PROVE DivergenceInv'
    OBVIOUS
  <1>0. /\ host \in [Asked -> HostRec] /\ turns \in 0 .. MaxTurn /\ watches \in 0 .. MaxWatch
        /\ watcher \in [Watcher -> WatcherRec] /\ \A w \in Watcher : watcher[w] \in WatcherRec
    BY DEF DivergenceInv, DivergenceTyped
  <1>00. \E D \in SUBSET ContinuationId : store \in [D -> {"active", "resolved"}]
    BY DEF DivergenceInv, DivergenceTyped
  <1>1. CASE UNCHANGED divergenceVars
    BY <1>1 DEF divergenceVars, DivergenceInv, DivergenceTyped, BusyBounded, CollectedTrue, Shows
  <1>2. ASSUME NEW w \in Watcher, Observe(w) PROVE DivergenceInv'
    <2> DEFINE p == [NoWatch EXCEPT !.step = "collect"]
               r == [p EXCEPT !.steady = Asked]
    <2>1. p \in WatcherRec /\ p.cursor = 1 /\ p.busy = {} /\ p.got = NoWatch.got
      BY NoWatchIs DEF WatcherRec
    <2>2. r \in WatcherRec /\ r.cursor = 1 /\ r.busy = {} /\ r.got = NoWatch.got /\ r.steady = Asked
      <3> HIDE DEF p
      <3> QED BY <2>1 DEF WatcherRec
    <2>3. watcher' = [watcher EXCEPT ![w] = r] /\ UNCHANGED <<host, turns, store>>
      BY <1>2 DEF Observe
    <2>4. watches' \in 0 .. MaxWatch
      BY <1>0, <1>2, DivergenceAssumption DEF Observe
    <2> HIDE DEF r
    <2>5. \A i \in 1 .. r.cursor - 1 : FALSE
      BY <2>2
    <2>6. IsFiniteSet(r.busy) /\ Cardinality(r.busy) <= Concurrency
      BY <2>2, FS_EmptySet, DivergenceAssumption
    <2> QED
      BY <1>00, <2>2, <2>3, <2>4, <2>5, <2>6, NoWatchIs, WatcherMoves
  <1>3. ASSUME NEW w \in Watcher, TakeNode(w) PROVE DivergenceInv'
    <2> DEFINE k == watcher[w].cursor
               p == [watcher[w] EXCEPT !.busy = @ \cup {Target[k]}]
               r == [p EXCEPT !.cursor = k + 1]
    <2>1. k \in 1 .. Len(Target) /\ Target[k] \in Asked /\ k + 1 \in 1 .. Len(Target) + 1
      BY <1>0, <1>3, TargetIs DEF TakeNode, WatcherRec
    <2>2. p \in WatcherRec /\ p.busy = watcher[w].busy \cup {Target[k]} /\ p.got = watcher[w].got
          /\ p.steady = watcher[w].steady
      BY <1>0, <2>1 DEF WatcherRec
    <2>3. r \in WatcherRec /\ r.busy = watcher[w].busy \cup {Target[k]} /\ r.got = watcher[w].got
          /\ r.steady = watcher[w].steady /\ r.cursor = k + 1
      <3> HIDE DEF p, k
      <3> QED BY <2>1, <2>2 DEF WatcherRec
    <2>4. watcher' = [watcher EXCEPT ![w] = r] /\ UNCHANGED <<host, turns, store, watches>>
      BY <1>3 DEF TakeNode, Advance
    <2>5. IsFiniteSet(r.busy) /\ Cardinality(r.busy) <= Concurrency
      <3>1. IsFiniteSet(watcher[w].busy) /\ Cardinality(watcher[w].busy) < Concurrency
        BY <1>3 DEF DivergenceInv, BusyBounded, TakeNode
      <3>2. Cardinality(watcher[w].busy) \in Nat
        BY <3>1, FS_CardinalityType
      <3>3. /\ IsFiniteSet(watcher[w].busy \cup {Target[k]})
            /\ Cardinality(watcher[w].busy \cup {Target[k]}) \in
                  {Cardinality(watcher[w].busy), Cardinality(watcher[w].busy) + 1}
        BY <3>1, FS_AddElement
      <3> HIDE DEF r
      <3> QED
        BY <2>3, <3>1, <3>2, <3>3, DivergenceAssumption
    <2>6. \A i \in 1 .. k : Target[i] \in r.busy \/ r.got[Target[i]] # NoAnswer
      <3>1. \A i \in 1 .. k - 1 : Target[i] \in watcher[w].busy \/ watcher[w].got[Target[i]] # NoAnswer
        BY DEF DivergenceInv, CollectedTrue
      <3>2. \A i \in 1 .. k : i \in 1 .. k - 1 \/ i = k
        BY <2>1, TargetIs
      <3> HIDE DEF r, k
      <3> QED
        BY <2>3, <3>1, <3>2
    <2>7. (k + 1) - 1 = k
      BY <2>1, TargetIs
    <2>8. \A n \in watcher[w].steady : watcher[w].got[n] \in {NoAnswer, Shows(host[n])}
      BY DEF DivergenceInv, CollectedTrue
    <2> HIDE DEF r, k
    <2> QED
      BY <1>0, <1>00, <2>3, <2>4, <2>5, <2>6, <2>7, <2>8, WatcherMoves
  <1>4. ASSUME NEW w \in Watcher, NEW n \in watcher[w].busy, Answers(w, n) PROVE DivergenceInv'
    <2>0. n \in Asked /\ host[n] \in HostRec
      BY <1>0 DEF WatcherRec
    <2> PICK e \in {ProbeFailed} \cup (IF host[n].is = "off" THEN {} ELSE {Answer(n)}) :
               watcher' = [watcher EXCEPT ![w].busy = @ \ {n}, ![w].got[n] = e,
                             ![w].steady = IF e = ProbeFailed /\ host[n].is # "off"
                                           THEN @ \ {n} ELSE @]
      BY <1>4 DEF Answers
    <2>1. e \in Evidence /\ e # NoAnswer
          /\ (e = Shows(host[n]) \/ (e = ProbeFailed /\ host[n].is # "off"))
      <3>1. host[n].is # "off" => Answer(n) = Shows(host[n])
        BY DEF Answer, Shows
      <3>2. ProbeFailed \in Evidence /\ ProbeFailed # NoAnswer
        BY DivergenceAssumption DEF Evidence
      <3>3. host[n].is = "off" => Shows(host[n]) = ProbeFailed
        BY DEF Shows
      <3> QED
        BY <2>0, <3>1, <3>2, <3>3, ShowsIs
    <2> DEFINE old == watcher[w]
               s == IF e = ProbeFailed /\ host[n].is # "off" THEN old.steady \ {n} ELSE old.steady
               g == [old.got EXCEPT ![n] = e]
               p == [old EXCEPT !.busy = @ \ {n}]
               q == [p EXCEPT !.got = g]
               r == [q EXCEPT !.steady = s]
    <2>2. p \in WatcherRec /\ p.busy = old.busy \ {n} /\ p.got = old.got
          /\ p.steady = old.steady /\ p.cursor = old.cursor
      BY <1>0 DEF WatcherRec
    <2>3. g \in [Asked -> Evidence \cup {NoAnswer}] /\ g[n] = e
          /\ \A m \in Asked \ {n} : g[m] = old.got[m]
      BY <1>0, <2>0, <2>1 DEF WatcherRec
    <2>4. q \in WatcherRec /\ q.busy = old.busy \ {n} /\ q.got = g /\ q.cursor = old.cursor
      <3> HIDE DEF p, g
      <3> QED BY <2>2, <2>3 DEF WatcherRec
    <2>5. s \subseteq old.steady /\ old.steady \subseteq Asked /\ (n \in s => e = Shows(host[n]))
      BY <1>0, <2>1 DEF WatcherRec
    <2>6. r \in WatcherRec /\ r.busy = old.busy \ {n} /\ r.got = g /\ r.steady = s
          /\ r.cursor = old.cursor
      <3> HIDE DEF q, s, g
      <3> QED BY <2>4, <2>5 DEF WatcherRec
    <2>7. watcher' = [watcher EXCEPT ![w] = r] /\ UNCHANGED <<host, turns, store, watches>>
      <3>1. UNCHANGED <<host, turns, store, watches>>
        BY <1>4 DEF Answers
      <3>2. watcher' = [watcher EXCEPT ![w] = [old EXCEPT !.busy = @ \ {n}, !.got[n] = e, !.steady = s]]
        OBVIOUS
      <3>3. r = [old EXCEPT !.busy = @ \ {n}, !.got[n] = e, !.steady = s]
        <4> HIDE DEF s
        <4> QED OBVIOUS
      <3> HIDE DEF r
      <3> QED
        BY <3>1, <3>2, <3>3
    <2>8. IsFiniteSet(r.busy) /\ Cardinality(r.busy) <= Concurrency
      <3>1. IsFiniteSet(old.busy) /\ Cardinality(old.busy) <= Concurrency
        BY DEF DivergenceInv, BusyBounded
      <3>2. IsFiniteSet(old.busy \ {n}) /\ Cardinality(old.busy \ {n}) <= Cardinality(old.busy)
        BY <3>1, FS_Subset
      <3>3. Cardinality(old.busy) \in Nat /\ Cardinality(old.busy \ {n}) \in Nat
        BY <3>1, <3>2, FS_CardinalityType
      <3> HIDE DEF r
      <3> QED
        BY <2>6, <3>1, <3>2, <3>3, DivergenceAssumption
    <2>9. \A m \in r.steady : r.got[m] \in {NoAnswer, Shows(host[m])}
      <3>1. \A m \in old.steady : old.got[m] \in {NoAnswer, Shows(host[m])}
        BY DEF DivergenceInv, CollectedTrue
      <3> HIDE DEF r, s, g
      <3> QED
        BY <2>3, <2>5, <2>6, <3>1
    <2>10. \A i \in 1 .. r.cursor - 1 : Target[i] \in r.busy \/ r.got[Target[i]] # NoAnswer
      <3>1. \A i \in 1 .. old.cursor - 1 : Target[i] \in old.busy \/ old.got[Target[i]] # NoAnswer
        BY DEF DivergenceInv, CollectedTrue
      <3>2. \A i \in 1 .. old.cursor - 1 : Target[i] \in Asked
        BY <1>0, TargetIs DEF WatcherRec
      <3> HIDE DEF r, g
      <3> QED
        BY <2>1, <2>3, <2>6, <3>1, <3>2
    <2> HIDE DEF r
    <2> QED
      BY <1>0, <1>00, <2>6, <2>7, <2>8, <2>9, <2>10, WatcherMoves
  <1>5. ASSUME NEW w \in Watcher, Report(w) PROVE DivergenceInv'
    <2> PICK todo \in {Divergences(watcher[w].got), {}} :
               watcher' = [watcher EXCEPT ![w].step = "persist", ![w].todo = todo]
      BY <1>5 DEF Report
    <2>1. todo \in SUBSET ContinuationId
      BY DEF Divergences
    <2> DEFINE p == [watcher[w] EXCEPT !.step = "persist"]
               r == [p EXCEPT !.todo = todo]
    <2>2. p \in WatcherRec /\ p.busy = watcher[w].busy /\ p.got = watcher[w].got
          /\ p.steady = watcher[w].steady /\ p.cursor = watcher[w].cursor
      BY <1>0 DEF WatcherRec
    <2>3. r \in WatcherRec /\ r.busy = watcher[w].busy /\ r.got = watcher[w].got
          /\ r.steady = watcher[w].steady /\ r.cursor = watcher[w].cursor
      <3> HIDE DEF p
      <3> QED BY <2>1, <2>2 DEF WatcherRec
    <2>4. watcher' = [watcher EXCEPT ![w] = r] /\ UNCHANGED <<host, turns, store, watches>>
      BY <1>5 DEF Report
    <2> HIDE DEF r
    <2> QED
      BY <1>00, <2>3, <2>4, WatcherNotes
  <1>6. ASSUME NEW w \in Watcher, NEW c \in watcher[w].todo, Exists(w, c) PROVE DivergenceInv'
    <2>1. c \in ContinuationId
      BY <1>0 DEF WatcherRec
    <2> PICK absent \in {{}, {c}} :
               watcher' = [watcher EXCEPT ![w].todo = @ \ {c}, ![w].absent = absent]
      BY <1>6 DEF Exists
    <2> DEFINE p == [watcher[w] EXCEPT !.todo = @ \ {c}]
               r == [p EXCEPT !.absent = absent]
    <2>2. p \in WatcherRec /\ p.busy = watcher[w].busy /\ p.got = watcher[w].got
          /\ p.steady = watcher[w].steady /\ p.cursor = watcher[w].cursor
      BY <1>0 DEF WatcherRec
    <2>3. r \in WatcherRec /\ r.busy = watcher[w].busy /\ r.got = watcher[w].got
          /\ r.steady = watcher[w].steady /\ r.cursor = watcher[w].cursor
      <3> HIDE DEF p
      <3> QED BY <2>1, <2>2 DEF WatcherRec
    <2>4. watcher' = [watcher EXCEPT ![w] = r] /\ UNCHANGED <<host, turns, store, watches>>
      BY <1>6 DEF Exists
    <2> HIDE DEF r
    <2> QED
      BY <1>00, <2>3, <2>4, WatcherNotes
  <1>7. ASSUME NEW w \in Watcher, WriteContinuation(w) PROVE DivergenceInv'
    <2> PICK c \in watcher[w].absent : store' = Created(c)
      BY <1>7 DEF WriteContinuation
    <2>1. c \in ContinuationId
      BY <1>0 DEF WatcherRec
    <2> PICK D \in SUBSET ContinuationId : store \in [D -> {"active", "resolved"}]
      BY <1>00
    <2>2. store' \in [D \cup {c} -> {"active", "resolved"}] /\ D \cup {c} \in SUBSET ContinuationId
      BY <2>1 DEF Created
    <2> DEFINE r == [watcher[w] EXCEPT !.absent = {}]
    <2>3. r \in WatcherRec /\ r.busy = watcher[w].busy /\ r.got = watcher[w].got
          /\ r.steady = watcher[w].steady /\ r.cursor = watcher[w].cursor
      BY <1>0 DEF WatcherRec
    <2>4. watcher' = [watcher EXCEPT ![w] = r] /\ UNCHANGED <<host, turns, watches>>
      BY <1>7 DEF WriteContinuation
    <2> HIDE DEF r
    <2> QED
      BY <2>2, <2>3, <2>4, WatcherNotes
  <1>8. ASSUME NEW w \in Watcher, Summary(w) PROVE DivergenceInv'
    <2> DEFINE r == [watcher[w] EXCEPT !.step = "done"]
    <2>1. r \in WatcherRec /\ r.busy = watcher[w].busy /\ r.got = watcher[w].got
          /\ r.steady = watcher[w].steady /\ r.cursor = watcher[w].cursor
      BY <1>0 DEF WatcherRec
    <2>2. watcher' = [watcher EXCEPT ![w] = r] /\ UNCHANGED <<host, turns, store, watches>>
      BY <1>8 DEF Summary
    <2> HIDE DEF r
    <2> QED
      BY <1>00, <2>1, <2>2, WatcherNotes
  <1>9. ASSUME NEW w \in Watcher, WatcherDies(w) PROVE DivergenceInv'
    <2>1. watcher' = [watcher EXCEPT ![w] = NoWatch] /\ UNCHANGED <<host, turns, store, watches>>
      BY <1>9 DEF WatcherDies
    <2>2. IsFiniteSet(NoWatch.busy) /\ Cardinality(NoWatch.busy) <= Concurrency
      BY NoWatchIs, FS_EmptySet, DivergenceAssumption
    <2>3. NoWatch.steady \subseteq Asked
      BY NoWatchIs DEF WatcherRec
    <2>4. \A i \in 1 .. NoWatch.cursor - 1 : FALSE
      BY NoWatchIs
    <2> QED
      BY <1>0, <1>00, <2>1, <2>2, <2>3, <2>4, NoWatchIs, WatcherMoves
  <1>10. ASSUME NEW c \in DOMAIN store, Resolve(c) PROVE DivergenceInv'
    <2>1. UNCHANGED <<host, turns, watcher, watches>>
      BY <1>10 DEF Resolve
    <2> PICK D \in SUBSET ContinuationId : store \in [D -> {"active", "resolved"}]
      BY <1>00
    <2>2. store' \in [D -> {"active", "resolved"}]
      BY <1>10 DEF Resolve
    <2> QED
      BY <1>0, <2>1, <2>2 DEF DivergenceInv, DivergenceTyped, BusyBounded, CollectedTrue, Shows
  <1>11. ASSUME NEW n \in Asked, HostChanges(n) PROVE DivergenceInv'
    <2>1. turns' \in 0 .. MaxTurn /\ UNCHANGED <<store, watches>>
      BY <1>0, <1>11, DivergenceAssumption DEF HostChanges
    <2>2. host' \in [Asked -> HostRec] /\ \A m \in Asked \ {n} : host'[m] = host[m]
      <3>1. CASE \E is \in Condition \ {host[n].is} : host' = [host EXCEPT ![n].is = is]
        BY <1>0, <3>1 DEF HostRec
      <3>2. CASE host[n].head < MaxHead /\ host' = [host EXCEPT ![n].head = @ + 1]
        <4> DEFINE h == host[n].head + 1
                   r == [host[n] EXCEPT !.head = h]
        <4>1. h \in 0 .. MaxHead
          BY <1>0, <3>2, DivergenceAssumption DEF HostRec
        <4>2. host' = [host EXCEPT ![n] = r]
          BY <3>2
        <4>3. r \in HostRec
          <5> HIDE DEF h
          <5> QED BY <1>0, <4>1 DEF HostRec
        <4> HIDE DEF r
        <4> QED
          BY <1>0, <4>2, <4>3
      <3> QED
        BY <1>11, <3>1, <3>2 DEF HostChanges
    <2>3. ASSUME NEW w \in Watcher
          PROVE  /\ watcher'[w] \in WatcherRec /\ watcher'[w].busy = watcher[w].busy
                 /\ watcher'[w].got = watcher[w].got /\ watcher'[w].cursor = watcher[w].cursor
                 /\ watcher'[w].steady = watcher[w].steady \ {n}
      <3>1. watcher'[w] = [watcher[w] EXCEPT !.steady = @ \ {n}] /\ watcher[w] \in WatcherRec
        BY <1>0, <1>11 DEF HostChanges
      <3> QED
        BY <3>1 DEF WatcherRec
    <2>4. watcher' \in [Watcher -> WatcherRec]
      <3>1. watcher' = [w \in Watcher |-> [watcher[w] EXCEPT !.steady = @ \ {n}]]
        BY <1>11 DEF HostChanges
      <3> QED
        BY <2>3, <3>1
    <2>5. DivergenceTyped' /\ BusyBounded'
      BY <1>0, <1>00, <2>1, <2>2, <2>3, <2>4 DEF DivergenceInv, DivergenceTyped, BusyBounded
    <2>6. \A w \in Watcher : watcher[w].steady \subseteq Asked
      BY <1>0 DEF WatcherRec
    <2>7. CollectedTrue'
      BY <2>2, <2>3, <2>6 DEF DivergenceInv, CollectedTrue, Shows
    <2> QED
      BY <2>5, <2>7 DEF DivergenceInv
  <1> QED
    BY <1>1, <1>2, <1>3, <1>4, <1>5, <1>6, <1>7, <1>8, <1>9, <1>10, <1>11 DEF DivergenceNext

\* The report of what a node shows is what diverges on it.
LEMMA BrokenIsDiverging ==
    ASSUME NEW n \in Asked, host[n] \in HostRec, NEW i \in Invariant
    PROVE  /\ i \in Broken(n, Shows(host[n]))
           /\ ~(i = "ssh_reachable" /\ n \in Intermittent)
           <=> i \in Diverges(n)
  <1> DEFINE e == Shows(host[n])
  <1>1. /\ e.is = host[n].is /\ (e = ProbeFailed <=> host[n].is = "off")
        /\ (host[n].is # "off" => e.head = IF host[n].is = "gone" THEN 0 ELSE host[n].head)
    BY ShowsIs
  <1> HIDE DEF e
  <1>2. /\ i \in Broken(n, e)
        /\ ~(i = "ssh_reachable" /\ n \in Intermittent)
        <=> i \in Diverges(n)
    BY <1>1 DEF Broken, Diverges, Invariant
  <1> QED
    BY <1>2 DEF e

LEMMA SteadyIsJudged == DivergenceInv => SteadyJudgedRight
  <1> SUFFICES ASSUME DivergenceInv, NEW w \in Watcher, watcher[w].cursor > Len(Target),
                      watcher[w].busy = {}, NEW n \in watcher[w].steady
               PROVE  {c.invariant : c \in {d \in Divergences(watcher[w].got) : d.node = n}}
                      = Diverges(n)
    BY DEF SteadyJudgedRight
  <1> DEFINE g == watcher[w].got
             D == {d \in Divergences(g) : d.node = n}
  <1>1. watcher[w] \in WatcherRec /\ n \in Asked /\ host[n] \in HostRec
    BY DEF DivergenceInv, DivergenceTyped, WatcherRec
  <1>2. g[n] = Shows(host[n]) /\ g[n] # NoAnswer /\ g[n] \in Evidence
    <2> PICK i \in 1 .. Len(Target) : n = Target[i]
      BY <1>1, TargetIs
    <2>1. i \in 1 .. watcher[w].cursor - 1
      BY <1>1, TargetIs DEF WatcherRec
    <2>2. g[n] # NoAnswer
      BY <2>1 DEF DivergenceInv, CollectedTrue
    <2> QED
      BY <1>1, <2>2, ShowsIs DEF DivergenceInv, CollectedTrue
  <1>3. ASSUME NEW c \in D PROVE c.invariant \in Diverges(n)
    <2>1. /\ c.invariant \in Invariant /\ c.invariant \in Broken(n, Shows(host[n]))
          /\ ~(c.invariant = "ssh_reachable" /\ n \in Intermittent)
      BY <1>2 DEF Divergences, ContinuationId
    <2> QED
      BY <1>1, <2>1, BrokenIsDiverging
  <1>4. ASSUME NEW i \in Diverges(n) PROVE \E c \in D : c.invariant = i
    <2> DEFINE c == [node |-> n, invariant |-> i, evidence |-> g[n]]
    <2>1. i \in Invariant
      BY DEF Diverges
    <2>2. i \in Broken(n, g[n]) /\ ~(i = "ssh_reachable" /\ n \in Intermittent)
      BY <1>1, <1>2, <2>1, BrokenIsDiverging
    <2>3. c \in ContinuationId /\ c.node = n /\ c.invariant = i /\ c.evidence = g[n]
      BY <1>1, <1>2, <2>1 DEF ContinuationId
    <2> HIDE DEF c
    <2>4. c \in Divergences(g)
      BY <1>2, <2>2, <2>3 DEF Divergences
    <2> QED
      BY <2>3, <2>4
  <1> HIDE DEF D
  <1>5. \A i : i \in {c.invariant : c \in D} <=> i \in Diverges(n)
    BY <1>3, <1>4
  <1> QED
    BY <1>5 DEF D

LEMMA ResolvedStep == [DivergenceNext]_divergenceVars => ResolvedStays \/ UNCHANGED store
  <1> SUFFICES ASSUME DivergenceNext, ~(UNCHANGED store), NEW c \in DOMAIN store,
                      store[c] = "resolved"
               PROVE  \/ store'[c] = "resolved"
                      \/ \E w \in Watcher : c \in watcher[w].absent
    BY DEF ResolvedStays, divergenceVars
  <1>1. \/ \E d \in DOMAIN store : Resolve(d)
        \/ \E w \in Watcher : WriteContinuation(w)
    BY DEF DivergenceNext, HostChanges, Observe, TakeNode, Report, Summary, WatcherDies, Answers, Exists
  <1>2. CASE \E d \in DOMAIN store : Resolve(d)
    BY <1>2 DEF Resolve
  <1>3. CASE \E w \in Watcher : WriteContinuation(w)
    BY <1>3 DEF WriteContinuation, Created
  <1> QED
    BY <1>1, <1>2, <1>3

LEMMA ObservedStep ==
    DivergenceInv /\ DivergenceInv' /\ [DivergenceNext]_divergenceVars
        => [SteadyJudgedRight' /\ ResolvedStays]_divergenceVars
  <1> SUFFICES ASSUME DivergenceInv', DivergenceNext PROVE SteadyJudgedRight' /\ ResolvedStays
    OBVIOUS
  <1>1. SteadyJudgedRight'
    BY SteadyIsJudged, PTL
  <1>2. UNCHANGED store => ResolvedStays
    BY DEF ResolvedStays
  <1> QED
    BY <1>1, <1>2, ResolvedStep

\* Once all nodes have been asked, the report says of a node that did not
\* change exactly what is wrong with it; what is resolved is opened again only
\* by a run that had found the file absent (buildDivergenceReport,
\* persistDivergenceContinuations).
THEOREM FleetObserved == DivergenceSpec => ObservationHonest
  BY DivergenceInvInit, DivergenceInvStep, ObservedStep, PTL DEF DivergenceSpec, ObservationHonest

---------------------------------------------------------------------------
(* The database.                                                           *)

OpenerRec == [step : MemorySteps, agent : BOOLEAN, applied : SUBSET Version, sql : 0 .. MaxSql,
              id : NodeId, found : Identity, booted : BOOLEAN, begun : Nat, since : Nat, crossed : BOOLEAN,
              answer : Nat, got : Nat]
SnapshotRec == [made : Nat, at : Nat]

MemoryTyped ==
    /\ executed \in [Version -> 0 .. MaxSql] /\ recorded \in SUBSET Version
    /\ localState \in [Identity -> Nat \cup {NoRow}]
    /\ snapshots \in Seq(SnapshotRec) /\ Len(snapshots) <= MaxSnapshots
    /\ catalogue \in NodeId /\ probes \in Nat /\ made \in Nat /\ stored \in Nat
    /\ opener \in [Opener -> OpenerRec]

\* What is recorded has been executed, a process believes no version applied
\* that is not recorded, and of the one it is at no less has been executed
\* than it has itself. Past the opening nothing is left.
Migrated ==
    /\ \A v \in recorded : executed[v] = MaxSql
    /\ \A p \in Opener :
          /\ opener[p].applied \subseteq recorded
          /\ opener[p].step = "migrate" => \A v \in Pending(p) : opener[p].sql <= executed[v]
          /\ opener[p].step \notin {"idle", "migrate"} => recorded = Version

\* A tool fetches a snapshot, an agent does not; an agent alone has the rest.
Fetches(p) == ~opener[p].agent /\ opener[p].step \in {"due", "asked", "answered", "tried"}

AgentSteps == {"boot", "probe", "write", "sync", "retire", "upsert", "run"}

\* While a tool fetches with no older answer on its way, whatever has arrived
\* or is under way since it began was made after it began.
FetchTrue ==
    /\ \A p \in Opener :
          /\ opener[p].step \in {"ready", "due", "tried", "done"} => ~opener[p].agent
          /\ opener[p].step \in AgentSteps => opener[p].agent
          /\ opener[p].since <= made
          /\ opener[p].step = "done" => opener[p].got > opener[p].since \/ opener[p].crossed
          /\ Fetches(p) /\ ~opener[p].crossed =>
                /\ \A i \in DOMAIN snapshots :
                      snapshots[i].at > opener[p].begun => snapshots[i].made > opener[p].since
                /\ \A q \in Opener : Is(q, "answered") => opener[q].answer > opener[p].since
    /\ \A i \in DOMAIN snapshots : snapshots[i].at <= stored

\* The row a process is about to retire is of another identity.
Retiring == \A p \in Opener : opener[p].step = "retire" => opener[p].found # opener[p].id

MemoryCore == MemoryTyped /\ Migrated /\ FetchTrue

\* The inductive invariant of NodeMemory.
MemoryInv == MemoryCore /\ Retiring

LEMMA ClosedIs ==
    /\ Closed \in OpenerRec /\ Closed.step = "idle" /\ ~Closed.agent /\ Closed.applied = {}
    /\ Closed.sql = 0 /\ Closed.since = 0 /\ Closed.id = Configured
  BY MemoryAssumption DEF Closed, OpenerRec, MemorySteps, Identity

LEMMA MemoryInvInit == MemoryInit => MemoryInv
  <1> SUFFICES ASSUME MemoryInit PROVE MemoryInv
    OBVIOUS
  <1>1. /\ opener \in [Opener -> OpenerRec] /\ \A p \in Opener : opener[p] = Closed
    BY ClosedIs DEF MemoryInit
  <1>2. executed \in [Version -> 0 .. MaxSql] /\ recorded = {}
    BY MemoryAssumption DEF MemoryInit
  <1>3. localState \in [Identity -> Nat \cup {NoRow}]
    BY DEF MemoryInit
  <1>4. snapshots \in Seq(SnapshotRec) /\ Len(snapshots) = 0 /\ DOMAIN snapshots = {}
    BY DEF MemoryInit
  <1>5. catalogue \in NodeId /\ probes \in Nat /\ made \in Nat /\ stored \in Nat
    BY MemoryAssumption DEF MemoryInit
  <1>6. MemoryTyped
    BY <1>1, <1>2, <1>3, <1>4, <1>5, MemoryAssumption DEF MemoryTyped
  <1>7. Migrated
    BY <1>1, <1>2, ClosedIs DEF Migrated
  <1>8. FetchTrue
    BY <1>1, <1>4, <1>5, ClosedIs DEF FetchTrue, Fetches, Is, AgentSteps
  <1>9. Retiring
    BY <1>1, ClosedIs DEF Retiring
  <1> QED
    BY <1>6, <1>7, <1>8, <1>9 DEF MemoryInv, MemoryCore

LEMMA OpenerSteps ==
    ASSUME opener \in [Opener -> OpenerRec], NEW p \in Opener, NEW s \in MemorySteps, Becomes(p, s)
    PROVE  /\ opener' \in [Opener -> OpenerRec] /\ opener'[p].step = s
           /\ opener'[p].agent = opener[p].agent /\ opener'[p].applied = opener[p].applied
           /\ opener'[p].sql = opener[p].sql /\ opener'[p].id = opener[p].id
           /\ opener'[p].begun = opener[p].begun /\ opener'[p].since = opener[p].since
           /\ opener'[p].crossed = opener[p].crossed /\ opener'[p].answer = opener[p].answer
           /\ opener'[p].got = opener[p].got /\ opener'[p].found = opener[p].found
           /\ \A q \in Opener \ {p} : opener'[q] = opener[q]
  <1> DEFINE r == [opener[p] EXCEPT !.step = s]
  <1>1. opener' = [opener EXCEPT ![p] = r] /\ opener[p] \in OpenerRec
    BY DEF Becomes
  <1>2. /\ r \in OpenerRec /\ r.step = s /\ r.agent = opener[p].agent /\ r.applied = opener[p].applied
        /\ r.sql = opener[p].sql /\ r.id = opener[p].id
        /\ r.begun = opener[p].begun /\ r.since = opener[p].since /\ r.crossed = opener[p].crossed
        /\ r.answer = opener[p].answer /\ r.got = opener[p].got
        /\ r.found = opener[p].found
    BY <1>1 DEF OpenerRec
  <1> HIDE DEF r
  <1> QED
    BY <1>1, <1>2

LEMMA OpenerFinds ==
    ASSUME opener \in [Opener -> OpenerRec], NEW p \in Opener, NEW s \in MemorySteps, NEW x \in Identity,
           opener' = [opener EXCEPT ![p].step = s, ![p].found = x]
    PROVE  /\ opener' \in [Opener -> OpenerRec] /\ opener'[p].step = s /\ opener'[p].found = x
           /\ opener'[p].agent = opener[p].agent /\ opener'[p].applied = opener[p].applied
           /\ opener'[p].id = opener[p].id /\ opener'[p].since = opener[p].since
           /\ \A q \in Opener \ {p} : opener'[q] = opener[q]
  <1> DEFINE q0 == [opener[p] EXCEPT !.step = s]
             r == [q0 EXCEPT !.found = x]
  <1>1. opener' = [opener EXCEPT ![p] = r] /\ opener[p] \in OpenerRec
    OBVIOUS
  <1>2. /\ q0 \in OpenerRec /\ q0.step = s /\ q0.agent = opener[p].agent
        /\ q0.applied = opener[p].applied /\ q0.id = opener[p].id /\ q0.since = opener[p].since
    BY <1>1 DEF OpenerRec
  <1>3. /\ r \in OpenerRec /\ r.step = s /\ r.found = x /\ r.agent = opener[p].agent
        /\ r.applied = opener[p].applied /\ r.id = opener[p].id /\ r.since = opener[p].since
    <2> HIDE DEF q0
    <2> QED BY <1>2 DEF OpenerRec
  <1> HIDE DEF r
  <1> QED
    BY <1>1, <1>3

\* The version a process is at is the least it believes not to be applied.
LEMMA PendingIs ==
    ASSUME NEW p \in Opener, opener[p] \in OpenerRec
    PROVE  /\ \A u, v \in Pending(p) : u = v
           /\ Pending(p) \subseteq Version \ opener[p].applied
           /\ Pending(p) = {} => Version \subseteq opener[p].applied
  <1>1. Version \ opener[p].applied \in SUBSET Nat
    BY MemoryAssumption
  <1>2. \A u, v \in Pending(p) : u = v
    BY <1>1 DEF Pending
  <1>3. ASSUME Version \ opener[p].applied # {} PROVE Pending(p) # {}
    BY <1>1, <1>3, LeastElement DEF Pending
  <1> QED
    BY <1>2, <1>3 DEF Pending

LEMMA RowsTyped ==
    ASSUME NEW rows \in [Identity -> Nat \cup {NoRow}], NEW id \in Identity
    PROVE  /\ WithRow(rows, id) \in [Identity -> Nat \cup {NoRow}]
           /\ \A i \in Identity : rows[i] # NoRow => WithRow(rows, id)[i] = rows[i]
  BY DEF WithRow

\* The schema is as it was when no migration moves.
LEMMA MigratedStays ==
    ASSUME Migrated, UNCHANGED <<executed, recorded>>, NEW p \in Opener,
           \A q \in Opener \ {p} : opener'[q] = opener[q],
           \/ opener'[p].step = "idle" /\ opener'[p].applied = {}
           \/ /\ opener[p].step \notin {"idle", "migrate"} /\ opener'[p].step \notin {"idle", "migrate"}
              /\ opener'[p].applied = opener[p].applied
    PROVE  Migrated'
  BY DEF Migrated, Pending

\* A step of a process that does not fetch and has no answer.
LEMMA FetchStays ==
    ASSUME FetchTrue, UNCHANGED <<snapshots, made, stored>>, NEW p \in Opener,
           \A q \in Opener \ {p} : opener'[q] = opener[q],
           opener'[p].since <= made,
           \/ opener'[p].step \in {"idle", "migrate"}
           \/ opener'[p].step \in AgentSteps /\ opener'[p].agent
           \/ opener'[p].step = "ready" /\ ~opener'[p].agent
    PROVE  FetchTrue'
  <1> USE DEF AgentSteps
  <1>1. opener'[p].step \notin {"due", "asked", "answered", "tried", "done"}
    OBVIOUS
  <1>2. ASSUME NEW q \in Opener
        PROVE  /\ opener'[q].step \in {"ready", "due", "tried", "done"} => ~opener'[q].agent
               /\ opener'[q].step \in AgentSteps => opener'[q].agent
               /\ opener'[q].since <= made
               /\ opener'[q].step = "done" => opener'[q].got > opener'[q].since \/ opener'[q].crossed
    BY <1>1 DEF FetchTrue
  <1>3. \A q \in Opener : Is(q, "answered")' => q # p /\ opener'[q] = opener[q] /\ Is(q, "answered")
    BY <1>1 DEF Is
  <1>4. \A q \in Opener : Fetches(q)' => q # p /\ opener'[q] = opener[q] /\ Fetches(q)
    BY <1>1 DEF Fetches
  <1> QED
    BY <1>2, <1>3, <1>4 DEF FetchTrue

\* A step of a process that keeps what it knows of its fetch, and that of one
\* which has shown its snapshot.
LEMMA FetchGoesOn ==
    ASSUME FetchTrue, UNCHANGED <<snapshots, made, stored>>, NEW p \in Opener,
           \A q \in Opener \ {p} : opener'[q] = opener[q],
           opener'[p].agent = opener[p].agent, opener'[p].since = opener[p].since,
           opener'[p].crossed = opener[p].crossed, opener'[p].begun = opener[p].begun,
           \/ opener'[p].step = "asked" /\ (Fetches(p) \/ opener[p].agent)
           \/ opener'[p].step = "run" /\ opener[p].agent
           \/ opener'[p].step \in {"tried", "due"} /\ Fetches(p)
           \/ /\ opener'[p].step = "done" /\ Fetches(p)
              /\ opener'[p].got > opener'[p].since \/ opener'[p].crossed
    PROVE  FetchTrue'
  <1> USE DEF AgentSteps
  <1>1. ASSUME NEW q \in Opener
        PROVE  /\ opener'[q].step \in {"ready", "due", "tried", "done"} => ~opener'[q].agent
               /\ opener'[q].step \in AgentSteps => opener'[q].agent
               /\ opener'[q].since <= made
               /\ opener'[q].step = "done" => opener'[q].got > opener'[q].since \/ opener'[q].crossed
    <2>1. CASE q = p
      BY <2>1 DEF FetchTrue, Fetches
    <2>2. CASE q # p
      BY <2>2 DEF FetchTrue
    <2> QED
      BY <2>1, <2>2
  <1>2. \A q \in Opener : Is(q, "answered")' => q # p /\ opener'[q] = opener[q] /\ Is(q, "answered")
    BY DEF Is
  <1>3. ASSUME NEW q \in Opener, Fetches(q)', ~opener'[q].crossed
        PROVE  /\ Fetches(q) /\ ~opener[q].crossed
               /\ opener'[q].begun = opener[q].begun /\ opener'[q].since = opener[q].since
    <2>1. CASE q = p
      BY <1>3, <2>1 DEF Fetches
    <2>2. CASE q # p
      BY <1>3, <2>2 DEF Fetches
    <2> QED
      BY <2>1, <2>2
  <1>4. ASSUME NEW q \in Opener, Fetches(q)', ~opener'[q].crossed
        PROVE  /\ \A i \in DOMAIN snapshots :
                     snapshots[i].at > opener'[q].begun => snapshots[i].made > opener'[q].since
               /\ \A x \in Opener : Is(x, "answered")' => opener'[x].answer > opener'[q].since
    BY <1>2, <1>3, <1>4 DEF FetchTrue
  <1>5. \A i \in DOMAIN snapshots : snapshots[i].at <= stored
    BY DEF FetchTrue
  <1> QED
    BY <1>1, <1>4, <1>5 DEF FetchTrue

\* The oldest rows go when there are too many.
LEMMA PrunedRows ==
    ASSUME NEW rows \in Seq(SnapshotRec), Len(rows) <= MaxSnapshots + 1,
           snapshots' = IF Len(rows) > MaxSnapshots THEN PruneSnapshots(rows) ELSE rows
    PROVE  /\ snapshots' \in Seq(SnapshotRec) /\ Len(snapshots') <= MaxSnapshots
           /\ \A i \in DOMAIN snapshots' : \E j \in DOMAIN rows : snapshots'[i] = rows[j]
  <1>1. MaxSnapshots \in Nat \ {0} /\ Len(rows) \in Nat
    BY MemoryAssumption
  <1>2. CASE Len(rows) <= MaxSnapshots
    BY <1>1, <1>2
  <1>3. CASE Len(rows) = MaxSnapshots + 1
    <2>1. snapshots' = SubSeq(rows, 2, MaxSnapshots + 1)
      BY <1>1, <1>3 DEF PruneSnapshots
    <2>2. snapshots' \in Seq(SnapshotRec)
      <3>1. PICK n \in Nat : n = MaxSnapshots + 1
        BY <1>1
      <3>2. \A j \in 2 .. n : rows[j] \in SnapshotRec
        BY <1>1, <1>3, <3>1
      <3>3. SubSeq(rows, 2, n) \in Seq(SnapshotRec)
        BY <3>2
      <3> QED
        BY <2>1, <3>1, <3>3
    <2>3. Len(snapshots') = MaxSnapshots
      BY <1>1, <2>1
    <2>4. ASSUME NEW i \in 1 .. MaxSnapshots PROVE snapshots'[i] = rows[i + 1] /\ i + 1 \in DOMAIN rows
      BY <1>1, <1>3, <2>1
    <2>5. DOMAIN snapshots' = 1 .. MaxSnapshots
      BY <2>2, <2>3
    <2> QED
      BY <1>1, <2>2, <2>3, <2>4, <2>5
  <1> QED
    BY <1>1, <1>2, <1>3

LEMMA MemoryCoreStep == MemoryCore /\ [MemoryNext]_memoryVars => MemoryCore'
  <1> SUFFICES ASSUME MemoryCore, [MemoryNext]_memoryVars PROVE MemoryCore'
    OBVIOUS
  <1>0. /\ executed \in [Version -> 0 .. MaxSql] /\ recorded \in SUBSET Version
        /\ localState \in [Identity -> Nat \cup {NoRow}]
        /\ snapshots \in Seq(SnapshotRec) /\ Len(snapshots) <= MaxSnapshots
        /\ catalogue \in NodeId /\ probes \in Nat /\ made \in Nat /\ stored \in Nat
        /\ opener \in [Opener -> OpenerRec] /\ \A p \in Opener : opener[p] \in OpenerRec
    BY DEF MemoryCore, MemoryTyped
  <1>00. Migrated /\ FetchTrue
    BY DEF MemoryCore
  <1> USE DEF AgentSteps
  <1>1. CASE UNCHANGED memoryVars
    BY <1>1 DEF memoryVars, MemoryCore, MemoryTyped, Migrated, Pending, FetchTrue, Fetches, Is
  <1>2. CASE CatalogueEdited
    <2>1. catalogue' \in NodeId
          /\ UNCHANGED <<executed, recorded, localState, snapshots, opener, probes, made, stored>>
      BY <1>2 DEF CatalogueEdited
    <2> QED
      BY <2>1 DEF MemoryCore, MemoryTyped, Migrated, Pending, FetchTrue, Fetches, Is
  <1>3. ASSUME NEW p \in Opener, OpenDb(p) PROVE MemoryCore'
    <2>0. PICK byHand \in BOOLEAN : opener' = [opener EXCEPT ![p] =
               [Closed EXCEPT !.step = "migrate", !.agent = byHand, !.applied = recorded]]
      BY <1>3 DEF OpenDb
    <2> DEFINE r == [Closed EXCEPT !.step = "migrate", !.agent = byHand, !.applied = recorded]
    <2>1. /\ r \in OpenerRec /\ r.step = "migrate" /\ r.applied = recorded /\ r.sql = 0
          /\ r.since = 0
      BY <1>0, ClosedIs DEF OpenerRec, MemorySteps
    <2> HIDE DEF r
    <2>2. opener' \in [Opener -> OpenerRec] /\ opener'[p] = r
          /\ \A q \in Opener \ {p} : opener'[q] = opener[q]
      BY <1>0, <2>0, <2>1 DEF r
    <2>3. UNCHANGED <<executed, recorded, localState, snapshots, catalogue, probes, made, stored>>
      BY <1>3 DEF OpenDb
    <2>4. MemoryTyped'
      BY <1>0, <2>2, <2>3 DEF MemoryTyped
    <2>5. Migrated'
      <3>1. \A q \in Opener \ {p} : Pending(q)' = Pending(q)
        BY <2>2 DEF Pending
      <3>2. \A q \in Opener : \A u \in Pending(q)' : 0 <= executed[u]
        BY <1>0, MemoryAssumption DEF Pending
      <3>3. ASSUME NEW q \in Opener
            PROVE  /\ opener'[q].applied \subseteq recorded
                   /\ opener'[q].step = "migrate" =>
                         \A v \in Pending(q)' : opener'[q].sql <= executed[v]
                   /\ opener'[q].step \notin {"idle", "migrate"} => recorded = Version
        <4>1. CASE q = p
          BY <2>1, <2>2, <3>2, <4>1
        <4>2. CASE q # p
          BY <1>00, <2>2, <3>1, <4>2 DEF Migrated
        <4> QED
          BY <4>1, <4>2
      <3> QED
        BY <1>00, <2>3, <3>3 DEF Migrated
    <2>6. FetchTrue'
      <3>1. 0 <= made
        BY <1>0
      <3> QED
        BY <1>00, <2>1, <2>2, <2>3, <3>1, FetchStays
    <2> QED
      BY <2>4, <2>5, <2>6 DEF MemoryCore
  <1>4. ASSUME NEW p \in Opener, ExecMigration(p) PROVE MemoryCore'
    <2> DEFINE n == opener[p].sql
               r == [opener[p] EXCEPT !.sql = n + 1]
    <2> PICK v \in Pending(p) : executed' = [executed EXCEPT ![v] = IF n < @ THEN @ ELSE n + 1]
      BY <1>4 DEF ExecMigration
    <2>1. n \in 0 .. MaxSql /\ n < MaxSql /\ n + 1 \in 0 .. MaxSql /\ opener[p].step = "migrate"
      BY <1>0, <1>4, MemoryAssumption DEF ExecMigration, OpenerRec, Is
    <2>2. v \in Version
      BY <1>0, PendingIs
    <2>3. /\ executed' \in [Version -> 0 .. MaxSql] /\ executed'[v] >= n + 1
          /\ \A u \in Version : executed'[u] >= executed[u]
      <3> HIDE DEF n
      <3> QED BY <1>0, <2>1, <2>2, MemoryAssumption
    <2>4. /\ r \in OpenerRec /\ r.sql = n + 1 /\ r.step = "migrate" /\ r.applied = opener[p].applied
          /\ r.agent = opener[p].agent /\ r.since = opener[p].since
      <3> HIDE DEF n
      <3> QED BY <1>0, <2>1 DEF OpenerRec
    <2>5. opener' = [opener EXCEPT ![p] = r]
          /\ UNCHANGED <<recorded, localState, snapshots, catalogue, probes, made, stored>>
      BY <1>4 DEF ExecMigration
    <2> HIDE DEF r
    <2>6. opener' \in [Opener -> OpenerRec] /\ opener'[p] = r
          /\ \A q \in Opener \ {p} : opener'[q] = opener[q]
      BY <1>0, <2>4, <2>5
    <2>7. MemoryTyped'
      BY <1>0, <2>3, <2>5, <2>6 DEF MemoryTyped
    <2>8. Migrated'
      <3> HIDE DEF n
      <3>1. ASSUME NEW u \in recorded PROVE executed'[u] = MaxSql
        <4>1. u \in Version /\ executed[u] = MaxSql
          BY <1>0, <1>00 DEF Migrated
        <4>2. executed'[u] \in 0 .. MaxSql /\ executed'[u] >= MaxSql
          BY <2>3, <4>1
        <4> QED
          BY <4>2, MemoryAssumption
      <3>2. \A q \in Opener : Pending(q)' = Pending(q)
        BY <2>4, <2>6 DEF Pending
      <3>3. \A u \in Pending(p) : n + 1 <= executed'[u]
        <4>1. \A u \in Pending(p) : u = v
          BY <1>0, PendingIs
        <4>2. executed'[v] \in Nat /\ n \in Nat
          BY <2>1, <2>2, <2>3
        <4>3. n + 1 <= executed'[v]
          BY <2>3, <4>2
        <4> QED
          BY <4>1, <4>3
      <3>4. ASSUME NEW q \in Opener \ {p}, opener[q].step = "migrate", NEW u \in Pending(q)
            PROVE  opener[q].sql <= executed'[u]
        <4>1. u \in Version /\ opener[q].sql <= executed[u] /\ opener[q].sql \in 0 .. MaxSql
          BY <1>0, <1>00, <3>4, PendingIs DEF Migrated, OpenerRec
        <4> QED
          BY <1>0, <2>3, <4>1, MemoryAssumption
      <3> QED
        BY <1>00, <2>4, <2>5, <2>6, <3>1, <3>2, <3>3, <3>4 DEF Migrated
    <2>9. FetchTrue'
      BY <1>0, <1>00, <2>4, <2>5, <2>6 DEF FetchTrue, Fetches, Is
    <2> QED
      BY <2>7, <2>8, <2>9 DEF MemoryCore
  <1>5. ASSUME NEW p \in Opener, RecordMigration(p) PROVE MemoryCore'
    <2>0. PICK v \in Pending(p) :
               /\ recorded' = recorded \cup {v}
               /\ opener' = [opener EXCEPT ![p].applied = @ \cup {v}, ![p].sql = 0]
      BY <1>5 DEF RecordMigration
    <2> DEFINE a == opener[p].applied \cup {v}
               q0 == [opener[p] EXCEPT !.applied = a]
               r == [q0 EXCEPT !.sql = 0]
    <2>1. v \in Version /\ opener[p].step = "migrate" /\ opener[p].sql = MaxSql
      BY <1>0, <1>5, PendingIs DEF RecordMigration, AllExecuted, Is
    <2>2. a \in SUBSET Version
      BY <1>0, <2>1 DEF OpenerRec
    <2>3. /\ q0 \in OpenerRec /\ q0.applied = a /\ q0.step = "migrate"
          /\ q0.agent = opener[p].agent /\ q0.since = opener[p].since
      <3> HIDE DEF a
      <3> QED BY <1>0, <2>1, <2>2 DEF OpenerRec
    <2>4. /\ r \in OpenerRec /\ r.applied = a /\ r.step = "migrate" /\ r.sql = 0
          /\ r.agent = opener[p].agent /\ r.since = opener[p].since
      <3> HIDE DEF a, q0
      <3> QED BY <2>3, MemoryAssumption DEF OpenerRec
    <2>5. opener' = [opener EXCEPT ![p] = r]
      BY <2>0
    <2>6. recorded' = recorded \cup {v}
          /\ UNCHANGED <<executed, localState, snapshots, catalogue, probes, made, stored>>
      BY <1>5, <2>0 DEF RecordMigration
    <2> HIDE DEF r
    <2>7. opener' \in [Opener -> OpenerRec] /\ opener'[p] = r
          /\ \A q \in Opener \ {p} : opener'[q] = opener[q]
      BY <1>0, <2>4, <2>5
    <2>8. MemoryTyped'
      BY <1>0, <2>1, <2>6, <2>7 DEF MemoryTyped
    <2>9. Migrated'
      <3>1. executed[v] = MaxSql
        BY <1>0, <1>00, <2>1, MemoryAssumption DEF Migrated
      <3>2. a \subseteq recorded'
        BY <1>00, <2>6 DEF Migrated
      <3> HIDE DEF a
      <3>3. \A q \in Opener \ {p} : Pending(q)' = Pending(q)
        BY <2>7 DEF Pending
      <3>4. \A q \in Opener : \A u \in Pending(q)' : 0 <= executed[u]
        <4>1. \A q \in Opener : Pending(q)' \subseteq Version
          BY DEF Pending
        <4>2. \A u \in Version : 0 <= executed[u]
          BY <1>0, MemoryAssumption
        <4> QED
          BY <4>1, <4>2
      <3>5. \A q \in Opener : opener'[q].applied \subseteq recorded'
        BY <1>00, <2>4, <2>6, <2>7, <3>2 DEF Migrated
      <3>6. recorded = Version => recorded' = Version
        BY <2>1, <2>6
      <3>7. \A u \in recorded' : executed[u] = MaxSql
        BY <1>00, <2>6, <3>1 DEF Migrated
      <3>8. ASSUME NEW q \in Opener
            PROVE  /\ opener'[q].step = "migrate" =>
                         \A u \in Pending(q)' : opener'[q].sql <= executed[u]
                   /\ opener'[q].step \notin {"idle", "migrate"} => recorded' = Version
        <4>1. CASE q = p
          BY <2>4, <2>7, <3>4, <4>1
        <4>2. CASE q # p
          BY <1>00, <2>7, <3>3, <3>6, <4>2 DEF Migrated
        <4> QED
          BY <4>1, <4>2
      <3> QED
        BY <2>6, <3>5, <3>7, <3>8 DEF Migrated
    <2>10. FetchTrue'
      BY <1>0, <1>00, <2>4, <2>6, <2>7 DEF FetchTrue, Fetches, Is
    <2> QED
      BY <2>8, <2>9, <2>10 DEF MemoryCore
  <1>6. ASSUME NEW p \in Opener, SeedLocalState(p) PROVE MemoryCore'
    <2> PICK s \in {"boot", "ready"} : Becomes(p, s) /\ s = IF opener[p].agent THEN "boot" ELSE "ready"
      BY <1>6 DEF SeedLocalState
    <2>1. /\ opener' \in [Opener -> OpenerRec] /\ opener'[p].step = s
          /\ opener'[p].agent = opener[p].agent /\ opener'[p].applied = opener[p].applied
          /\ opener'[p].since = opener[p].since
          /\ \A q \in Opener \ {p} : opener'[q] = opener[q]
      BY <1>0, OpenerSteps DEF MemorySteps
    <2>2. UNCHANGED <<executed, recorded, snapshots, catalogue, probes, made, stored>>
          /\ Pending(p) = {} /\ opener[p].step = "migrate"
      BY <1>6 DEF SeedLocalState, Is
    <2>3. localState' \in [Identity -> Nat \cup {NoRow}]
      <3>1. Configured \in Identity /\ Seeded \in Identity
        BY MemoryAssumption DEF Identity
      <3> QED
        BY <1>0, <1>6, <3>1, RowsTyped DEF SeedLocalState
    <2>4. MemoryTyped'
      BY <1>0, <2>1, <2>2, <2>3 DEF MemoryTyped
    <2>5. recorded = Version
      BY <1>0, <1>00, <2>2, PendingIs DEF Migrated
    <2>6. Migrated'
      BY <1>0, <1>00, <2>1, <2>2, <2>5 DEF Migrated, Pending
    <2>7. FetchTrue'
      BY <1>0, <1>00, <2>1, <2>2 DEF FetchTrue, Fetches, Is
    <2> QED
      BY <2>4, <2>6, <2>7 DEF MemoryCore
  <1>7. ASSUME NEW p \in Opener, LoadIdentity(p) PROVE MemoryCore'
    <2>0. PICK id \in NodeId : opener' = [opener EXCEPT ![p].id = id, ![p].step = "probe"]
      BY <1>0, <1>7, MemoryAssumption DEF LoadIdentity
    <2> DEFINE q0 == [opener[p] EXCEPT !.id = id]
               r == [q0 EXCEPT !.step = "probe"]
    <2>1. /\ q0 \in OpenerRec /\ q0.agent = opener[p].agent /\ q0.applied = opener[p].applied
          /\ q0.since = opener[p].since
      BY <1>0 DEF OpenerRec
    <2>2. /\ r \in OpenerRec /\ r.step = "probe" /\ r.agent = opener[p].agent
          /\ r.applied = opener[p].applied /\ r.since = opener[p].since
      <3> HIDE DEF q0
      <3> QED BY <2>1 DEF OpenerRec, MemorySteps
    <2>3. opener' = [opener EXCEPT ![p] = r]
      BY <2>0
    <2> HIDE DEF r
    <2>4. opener' \in [Opener -> OpenerRec] /\ opener'[p] = r
          /\ \A q \in Opener \ {p} : opener'[q] = opener[q]
      BY <1>0, <2>2, <2>3
    <2>5. UNCHANGED <<executed, recorded, localState, snapshots, catalogue, probes, made, stored>>
          /\ opener[p].step \in {"boot", "run"} /\ opener[p].agent
      BY <1>7 DEF LoadIdentity
    <2>6. MemoryTyped'
      BY <1>0, <2>4, <2>5 DEF MemoryTyped
    <2>7. Migrated'
      BY <1>00, <2>2, <2>4, <2>5, MigratedStays
    <2>8. FetchTrue'
      BY <1>0, <1>00, <2>2, <2>4, <2>5 DEF FetchTrue, Fetches, Is
    <2> QED
      BY <2>6, <2>7, <2>8 DEF MemoryCore
  <1>8. ASSUME NEW p \in Opener, ApplyProbeCycle(p) PROVE MemoryCore'
    <2>1. /\ opener' \in [Opener -> OpenerRec] /\ opener'[p].step = "write"
          /\ opener'[p].agent = opener[p].agent /\ opener'[p].applied = opener[p].applied
          /\ opener'[p].since = opener[p].since
          /\ \A q \in Opener \ {p} : opener'[q] = opener[q]
      BY <1>0, <1>8, OpenerSteps DEF ApplyProbeCycle, MemorySteps
    <2>2. /\ UNCHANGED <<executed, recorded, snapshots, catalogue, probes, made, stored>>
          /\ opener[p].step = "probe" /\ localState' = WithRow(localState, opener[p].id)
      BY <1>8 DEF ApplyProbeCycle, Is
    <2>3. localState' \in [Identity -> Nat \cup {NoRow}]
      BY <1>0, <2>2, RowsTyped DEF OpenerRec, Identity
    <2>4. MemoryTyped'
      BY <1>0, <2>1, <2>2, <2>3 DEF MemoryTyped
    <2>5. Migrated'
      BY <1>00, <2>1, <2>2, MigratedStays
    <2>6. FetchTrue'
      BY <1>00, <2>1, <2>2, FetchStays DEF FetchTrue
    <2> QED
      BY <2>4, <2>5, <2>6 DEF MemoryCore
  <1>17. ASSUME NEW p \in Opener, StoreProbeCycle(p) PROVE MemoryCore'
    <2> PICK s \in {"run", "sync"} : Becomes(p, s)
      BY <1>17 DEF StoreProbeCycle
    <2>1. /\ opener' \in [Opener -> OpenerRec] /\ opener'[p].step = s
          /\ opener'[p].agent = opener[p].agent /\ opener'[p].applied = opener[p].applied
          /\ opener'[p].since = opener[p].since
          /\ \A q \in Opener \ {p} : opener'[q] = opener[q]
      BY <1>0, OpenerSteps DEF MemorySteps
    <2>2. /\ UNCHANGED <<executed, recorded, snapshots, catalogue, made, stored>>
          /\ probes' = probes + 1 /\ opener[p].step = "write"
          /\ localState' = [localState EXCEPT ![opener[p].id] = IF @ = NoRow THEN NoRow ELSE probes + 1]
      BY <1>17 DEF StoreProbeCycle, Is
    <2>3. localState' \in [Identity -> Nat \cup {NoRow}] /\ probes' \in Nat
      <3>1. probes + 1 \in Nat
        BY <1>0
      <3>2. opener[p].id \in Identity
        BY <1>0 DEF OpenerRec, Identity
      <3> QED
        BY <1>0, <2>2, <3>1, <3>2
    <2>4. MemoryTyped'
      BY <1>0, <2>1, <2>2, <2>3 DEF MemoryTyped
    <2>5. Migrated'
      <3>1. opener'[p].step \notin {"idle", "migrate"} /\ opener[p].step \notin {"idle", "migrate"}
        BY <2>1, <2>2
      <3> QED
        BY <1>00, <2>1, <2>2, <3>1, MigratedStays
    <2>6. FetchTrue'
      BY <1>00, <2>1, <2>2, FetchStays DEF FetchTrue
    <2> QED
      BY <2>4, <2>5, <2>6 DEF MemoryCore
  <1>9. ASSUME NEW p \in Opener, SyncLocalIdentity(p) PROVE MemoryCore'
    <2>1. /\ opener[p].step = "sync"
          /\ UNCHANGED <<executed, recorded, localState, snapshots, catalogue, probes, made, stored>>
      BY <1>9 DEF SyncLocalIdentity, Is
    <2>2. /\ opener' \in [Opener -> OpenerRec] /\ opener'[p].step \in {"retire", "upsert"}
          /\ opener'[p].agent = opener[p].agent /\ opener'[p].applied = opener[p].applied
          /\ opener'[p].since = opener[p].since
          /\ \A q \in Opener \ {p} : opener'[q] = opener[q]
      <3>1. CASE \E x \in Rows : opener' = [opener EXCEPT ![p].step = "retire", ![p].found = x]
        <4>1. PICK x \in Identity : opener' = [opener EXCEPT ![p].step = "retire", ![p].found = x]
          BY <3>1 DEF Rows
        <4> QED
          BY <1>0, <4>1, OpenerFinds DEF MemorySteps
      <3>2. CASE Becomes(p, "upsert")
        BY <1>0, <3>2, OpenerSteps DEF MemorySteps
      <3> QED
        BY <1>9, <3>1, <3>2 DEF SyncLocalIdentity
    <2>3. MemoryTyped'
      BY <1>0, <2>1, <2>2 DEF MemoryTyped
    <2>4. Migrated'
      BY <1>00, <2>1, <2>2, MigratedStays
    <2>5. FetchTrue'
      BY <1>00, <2>1, <2>2, FetchStays DEF FetchTrue
    <2> QED
      BY <2>3, <2>4, <2>5 DEF MemoryCore
  <1>18. ASSUME NEW p \in Opener, DeleteRetired(p) PROVE MemoryCore'
    <2>1. /\ opener[p].step = "retire" /\ localState' = [localState EXCEPT ![opener[p].found] = NoRow]
          /\ opener' = [opener EXCEPT ![p].step = "upsert", ![p].found = Seeded]
          /\ UNCHANGED <<executed, recorded, snapshots, catalogue, probes, made, stored>>
      BY <1>18 DEF DeleteRetired, Is
    <2>2. /\ opener' \in [Opener -> OpenerRec] /\ opener'[p].step = "upsert"
          /\ opener'[p].agent = opener[p].agent /\ opener'[p].applied = opener[p].applied
          /\ opener'[p].since = opener[p].since
          /\ \A q \in Opener \ {p} : opener'[q] = opener[q]
      BY <1>0, <2>1, OpenerFinds DEF MemorySteps, Identity
    <2>3. localState' \in [Identity -> Nat \cup {NoRow}]
      BY <1>0, <2>1
    <2>4. MemoryTyped'
      BY <1>0, <2>1, <2>2, <2>3 DEF MemoryTyped
    <2>5. Migrated'
      BY <1>00, <2>1, <2>2, MigratedStays
    <2>6. FetchTrue'
      BY <1>00, <2>1, <2>2, FetchStays DEF FetchTrue
    <2> QED
      BY <2>4, <2>5, <2>6 DEF MemoryCore
  <1>19. ASSUME NEW p \in Opener, UpsertLocalIdentity(p) PROVE MemoryCore'
    <2> DEFINE q0 == [opener[p] EXCEPT !.step = "run"]
               r == [q0 EXCEPT !.booted = TRUE]
    <2>1. /\ q0 \in OpenerRec /\ q0.step = "run" /\ q0.agent = opener[p].agent
          /\ q0.applied = opener[p].applied /\ q0.since = opener[p].since
      BY <1>0 DEF OpenerRec, MemorySteps
    <2>2. /\ r \in OpenerRec /\ r.step = "run" /\ r.agent = opener[p].agent
          /\ r.applied = opener[p].applied /\ r.since = opener[p].since
      <3> HIDE DEF q0
      <3> QED BY <2>1 DEF OpenerRec
    <2>3. /\ opener' = [opener EXCEPT ![p] = r]
          /\ UNCHANGED <<executed, recorded, snapshots, catalogue, probes, made, stored>>
          /\ opener[p].step = "upsert" /\ localState' = WithRow(localState, opener[p].id)
      BY <1>19 DEF UpsertLocalIdentity, Is
    <2> HIDE DEF r
    <2>4. opener' \in [Opener -> OpenerRec] /\ opener'[p] = r
          /\ \A q \in Opener \ {p} : opener'[q] = opener[q]
      BY <1>0, <2>2, <2>3
    <2>5. localState' \in [Identity -> Nat \cup {NoRow}]
      BY <1>0, <2>3, RowsTyped DEF OpenerRec, Identity
    <2>6. MemoryTyped'
      BY <1>0, <2>3, <2>4, <2>5 DEF MemoryTyped
    <2>7. Migrated'
      BY <1>00, <2>2, <2>3, <2>4, MigratedStays
    <2>8. FetchTrue'
      BY <1>00, <2>2, <2>3, <2>4, FetchStays DEF FetchTrue
    <2> QED
      BY <2>6, <2>7, <2>8 DEF MemoryCore
  <1>10. ASSUME NEW p \in Opener, FetchFreshPeerSnapshot(p) PROVE MemoryCore'
    <2>0. PICK crossed \in BOOLEAN :
             /\ opener' = [opener EXCEPT ![p].step = "due", ![p].begun = stored, ![p].since = made,
                                         ![p].crossed = crossed]
             /\ crossed = \E q \in Opener \ {p} : Is(q, "answered")
      BY <1>10 DEF FetchFreshPeerSnapshot
    <2> DEFINE q1 == [opener[p] EXCEPT !.step = "due"]
               q2 == [q1 EXCEPT !.begun = stored]
               q3 == [q2 EXCEPT !.since = made]
               r == [q3 EXCEPT !.crossed = crossed]
    <2>1. q1 \in OpenerRec /\ q1.step = "due" /\ q1.agent = opener[p].agent
          /\ q1.applied = opener[p].applied
      BY <1>0 DEF OpenerRec, MemorySteps
    <2>2. q2 \in OpenerRec /\ q2.step = "due" /\ q2.agent = opener[p].agent
          /\ q2.applied = opener[p].applied /\ q2.begun = stored
      <3> HIDE DEF q1
      <3> QED BY <1>0, <2>1 DEF OpenerRec
    <2>3. q3 \in OpenerRec /\ q3.step = "due" /\ q3.agent = opener[p].agent
          /\ q3.applied = opener[p].applied /\ q3.begun = stored /\ q3.since = made
      <3> HIDE DEF q2
      <3> QED BY <1>0, <2>2 DEF OpenerRec
    <2>4. r \in OpenerRec /\ r.step = "due" /\ r.agent = opener[p].agent
          /\ r.applied = opener[p].applied /\ r.begun = stored /\ r.since = made /\ r.crossed = crossed
      <3> HIDE DEF q3
      <3> QED BY <2>3 DEF OpenerRec
    <2>5. opener' = [opener EXCEPT ![p] = r]
      BY <2>0
    <2> HIDE DEF r
    <2>6. opener' \in [Opener -> OpenerRec] /\ opener'[p] = r
          /\ \A q \in Opener \ {p} : opener'[q] = opener[q]
      BY <1>0, <2>4, <2>5
    <2>7. UNCHANGED <<executed, recorded, localState, snapshots, catalogue, probes, made, stored>>
          /\ opener[p].step = "ready"
      BY <1>10 DEF FetchFreshPeerSnapshot, Is
    <2>8. MemoryTyped'
      BY <1>0, <2>6, <2>7 DEF MemoryTyped
    <2>9. Migrated'
      BY <1>00, <2>4, <2>6, <2>7, MigratedStays
    <2>10. ~crossed => \A q \in Opener \ {p} : opener[q].step # "answered"
      BY <2>0 DEF Is
    <2>11. \A i \in DOMAIN snapshots : snapshots[i] \in SnapshotRec /\ snapshots[i].at <= stored
      BY <1>0, <1>00 DEF FetchTrue
    <2>12. \A i \in DOMAIN snapshots : ~(snapshots[i].at > stored)
      BY <1>0, <2>11 DEF SnapshotRec
    <2>13. FetchTrue'
      <3>1. ~r.agent /\ opener'[p] = r /\ made <= made
        BY <1>0, <1>00, <2>4, <2>6, <2>7 DEF FetchTrue
      <3>2. ASSUME NEW q \in Opener
            PROVE  /\ opener'[q].step \in {"ready", "due", "tried", "done"} => ~opener'[q].agent
                   /\ opener'[q].step \in AgentSteps => opener'[q].agent
                   /\ opener'[q].since <= made
                   /\ opener'[q].step = "done" => opener'[q].got > opener'[q].since \/ opener'[q].crossed
        <4>1. CASE q = p
          BY <2>4, <3>1, <4>1
        <4>2. CASE q # p
          BY <1>00, <2>6, <4>2 DEF FetchTrue
        <4> QED
          BY <4>1, <4>2
      <3>3. \A q \in Opener : Is(q, "answered")' => q # p /\ opener'[q] = opener[q] /\ Is(q, "answered")
        BY <2>4, <2>6 DEF Is
      <3>4. ASSUME NEW q \in Opener, Fetches(q)', ~opener'[q].crossed
            PROVE  /\ \A i \in DOMAIN snapshots :
                         snapshots[i].at > opener'[q].begun => snapshots[i].made > opener'[q].since
                   /\ \A x \in Opener : Is(x, "answered")' => opener'[x].answer > opener'[q].since
        <4>1. CASE q = p
          <5>1. r.crossed = crossed /\ r.begun = stored
            BY <2>4
          <5>2. \A x \in Opener : ~Is(x, "answered")'
            BY <2>6, <2>10, <3>1, <3>3, <3>4, <4>1, <5>1 DEF Is
          <5> QED
            BY <2>12, <3>1, <4>1, <5>1, <5>2
        <4>2. CASE q # p
          BY <1>00, <2>6, <3>3, <3>4, <4>2 DEF FetchTrue, Fetches
        <4> QED
          BY <4>1, <4>2
      <3>5. \A i \in DOMAIN snapshots : snapshots[i].at <= stored
        BY <1>00 DEF FetchTrue
      <3> QED
        BY <2>7, <3>2, <3>4, <3>5 DEF FetchTrue
    <2> QED
      BY <2>8, <2>9, <2>13 DEF MemoryCore
  <1>11. ASSUME NEW p \in Opener, Deliver(p) PROVE MemoryCore'
    <2>1. /\ opener' \in [Opener -> OpenerRec] /\ opener'[p].step = "asked"
          /\ opener'[p].agent = opener[p].agent /\ opener'[p].applied = opener[p].applied
          /\ opener'[p].since = opener[p].since /\ opener'[p].begun = opener[p].begun
          /\ opener'[p].crossed = opener[p].crossed
          /\ \A q \in Opener \ {p} : opener'[q] = opener[q]
      BY <1>0, <1>11, OpenerSteps DEF Deliver, MemorySteps
    <2>2. UNCHANGED <<executed, recorded, localState, snapshots, catalogue, probes, made, stored>>
          /\ opener[p].step \in {"due", "run"}
      BY <1>11 DEF Deliver, Is
    <2>3. MemoryTyped'
      BY <1>0, <2>1, <2>2 DEF MemoryTyped
    <2>4. Migrated'
      <3>1. opener'[p].step \notin {"idle", "migrate"} /\ opener[p].step \notin {"idle", "migrate"}
        BY <2>1, <2>2
      <3> QED
        BY <1>00, <2>1, <2>2, <3>1, MigratedStays
    <2>5. FetchTrue'
      <3>1. Fetches(p) \/ opener[p].agent
        BY <1>00, <2>2 DEF FetchTrue, Fetches
      <3> QED
        BY <1>00, <2>1, <2>2, <3>1, FetchGoesOn
    <2> QED
      BY <2>3, <2>4, <2>5 DEF MemoryCore
  <1>12. ASSUME NEW p \in Opener, BuildNodeSnapshot(p) PROVE MemoryCore'
    <2> DEFINE q0 == [opener[p] EXCEPT !.step = "answered"]
               r == [q0 EXCEPT !.answer = made + 1]
    <2>1. /\ q0 \in OpenerRec /\ q0.step = "answered" /\ q0.agent = opener[p].agent
          /\ q0.applied = opener[p].applied /\ q0.since = opener[p].since
          /\ q0.begun = opener[p].begun /\ q0.crossed = opener[p].crossed
      BY <1>0 DEF OpenerRec, MemorySteps
    <2>2. /\ r \in OpenerRec /\ r.step = "answered" /\ r.agent = opener[p].agent
          /\ r.applied = opener[p].applied /\ r.since = opener[p].since
          /\ r.begun = opener[p].begun /\ r.crossed = opener[p].crossed /\ r.answer = made + 1
      <3>1. made + 1 \in Nat
        BY <1>0
      <3> HIDE DEF q0
      <3> QED BY <2>1, <3>1 DEF OpenerRec
    <2>3. /\ opener' = [opener EXCEPT ![p] = r] /\ made' = made + 1
          /\ UNCHANGED <<executed, recorded, localState, snapshots, catalogue, probes, stored>>
          /\ opener[p].step = "asked"
      BY <1>12 DEF BuildNodeSnapshot, Is
    <2> HIDE DEF r
    <2>4. opener' \in [Opener -> OpenerRec] /\ opener'[p] = r
          /\ \A q \in Opener \ {p} : opener'[q] = opener[q]
      BY <1>0, <2>2, <2>3
    <2>5. MemoryTyped'
      <3>1. made' \in Nat
        BY <1>0, <2>3
      <3> QED
        BY <1>0, <2>3, <2>4, <3>1 DEF MemoryTyped
    <2>6. Migrated'
      BY <1>00, <2>2, <2>3, <2>4, MigratedStays
    <2>7. FetchTrue'
      <3>1. \A q \in Opener : opener[q].since \in Nat /\ opener[q].since <= made
        BY <1>0, <1>00 DEF FetchTrue, OpenerRec
      <3>2. \A q \in Opener : opener'[q].since = opener[q].since /\ opener'[q].begun = opener[q].begun
                              /\ opener'[q].crossed = opener[q].crossed
        BY <2>2, <2>4
      <3>3. \A q \in Opener : opener'[q].since <= made' /\ made + 1 > opener'[q].since
        BY <1>0, <2>3, <3>1, <3>2
      <3>4. ASSUME NEW q \in Opener
            PROVE  /\ opener'[q].step \in {"ready", "due", "tried", "done"} => ~opener'[q].agent
                   /\ opener'[q].step \in AgentSteps => opener'[q].agent
                   /\ opener'[q].step = "done" => opener'[q].got > opener'[q].since \/ opener'[q].crossed
        <4>1. CASE q = p
          BY <2>2, <2>4, <4>1
        <4>2. CASE q # p
          BY <1>00, <2>4, <4>2 DEF FetchTrue
        <4> QED
          BY <4>1, <4>2
      <3>5. \A q \in Opener : Fetches(q)' => Fetches(q)
        BY <2>2, <2>3, <2>4 DEF Fetches
      <3>6. ASSUME NEW q \in Opener, Fetches(q)', ~opener'[q].crossed
            PROVE  /\ \A i \in DOMAIN snapshots :
                         snapshots[i].at > opener'[q].begun => snapshots[i].made > opener'[q].since
                   /\ \A x \in Opener : Is(x, "answered")' => opener'[x].answer > opener'[q].since
        <4>1. /\ \A i \in DOMAIN snapshots :
                     snapshots[i].at > opener[q].begun => snapshots[i].made > opener[q].since
              /\ \A x \in Opener : Is(x, "answered") => opener[x].answer > opener[q].since
          BY <1>00, <3>2, <3>5, <3>6 DEF FetchTrue
        <4>2. \A x \in Opener \ {p} : Is(x, "answered")' => Is(x, "answered")
          BY <2>4 DEF Is
        <4>3. opener'[p].answer > opener'[q].since
          BY <2>2, <2>4, <3>3
        <4> QED
          BY <2>4, <3>2, <4>1, <4>2, <4>3
      <3>7. \A i \in DOMAIN snapshots : snapshots[i].at <= stored
        BY <1>00 DEF FetchTrue
      <3> QED
        BY <2>3, <3>3, <3>4, <3>6, <3>7 DEF FetchTrue
    <2> QED
      BY <2>5, <2>6, <2>7 DEF MemoryCore
  <1>13. ASSUME NEW p \in Opener, UpsertPeerSnapshot(p) PROVE MemoryCore'
    <2> PICK s \in {"run", "tried"} : Becomes(p, s) /\ s = IF opener[p].agent THEN "run" ELSE "tried"
      BY <1>13 DEF UpsertPeerSnapshot, AfterDelivery
    <2>1. /\ opener' \in [Opener -> OpenerRec] /\ opener'[p].step = s
          /\ opener'[p].agent = opener[p].agent /\ opener'[p].applied = opener[p].applied
          /\ opener'[p].since = opener[p].since /\ opener'[p].begun = opener[p].begun
          /\ opener'[p].crossed = opener[p].crossed
          /\ \A q \in Opener \ {p} : opener'[q] = opener[q]
      BY <1>0, OpenerSteps DEF MemorySteps
    <2>2. /\ UNCHANGED <<executed, recorded, localState, catalogue, probes, made>>
          /\ stored' = stored + 1 /\ opener[p].step = "answered"
      BY <1>13 DEF UpsertPeerSnapshot, Is
    <2> DEFINE new == [made |-> opener[p].answer, at |-> stored + 1]
               rows == Append(snapshots, new)
    <2>3. new \in SnapshotRec /\ new.made = opener[p].answer /\ new.at = stored + 1
      BY <1>0 DEF OpenerRec, SnapshotRec
    <2>4. snapshots' = IF Len(rows) > MaxSnapshots THEN PruneSnapshots(rows) ELSE rows
      BY <1>13 DEF UpsertPeerSnapshot
    <2> HIDE DEF new
    <2>5. /\ rows \in Seq(SnapshotRec) /\ Len(rows) = Len(snapshots) + 1
          /\ \A j \in DOMAIN rows : rows[j] = new \/ (j \in DOMAIN snapshots /\ rows[j] = snapshots[j])
      BY <1>0, <2>3
    <2>6. Len(rows) <= MaxSnapshots + 1
      BY <1>0, <2>5, MemoryAssumption
    <2> HIDE DEF rows
    <2>7. /\ snapshots' \in Seq(SnapshotRec) /\ Len(snapshots') <= MaxSnapshots
          /\ \A i \in DOMAIN snapshots' : \E j \in DOMAIN rows : snapshots'[i] = rows[j]
      BY <2>4, <2>5, <2>6, PrunedRows
    <2>8. \A i \in DOMAIN snapshots' :
             snapshots'[i] = new \/ \E j \in DOMAIN snapshots : snapshots'[i] = snapshots[j]
      BY <2>5, <2>7
    <2>9. MemoryTyped'
      <3>1. stored' \in Nat
        BY <1>0, <2>2
      <3> QED
        BY <1>0, <2>1, <2>2, <2>7, <3>1 DEF MemoryTyped
    <2>10. Migrated'
      <3>1. opener'[p].step \notin {"idle", "migrate"} /\ opener[p].step \notin {"idle", "migrate"}
        BY <2>1, <2>2
      <3> QED
        BY <1>00, <2>1, <2>2, <3>1, MigratedStays
    <2>11. FetchTrue'
      <3>1. ASSUME NEW q \in Opener
            PROVE  /\ opener'[q].step \in {"ready", "due", "tried", "done"} => ~opener'[q].agent
                   /\ opener'[q].step \in AgentSteps => opener'[q].agent
                   /\ opener'[q].since <= made
                   /\ opener'[q].step = "done" => opener'[q].got > opener'[q].since \/ opener'[q].crossed
        <4>1. CASE q = p
          BY <1>00, <2>1, <4>1 DEF FetchTrue
        <4>2. CASE q # p
          BY <1>00, <2>1, <4>2 DEF FetchTrue
        <4> QED
          BY <4>1, <4>2
      <3>2. \A x \in Opener : Is(x, "answered")' => Is(x, "answered") /\ opener'[x] = opener[x]
        BY <2>1 DEF Is
      <3>3. ASSUME NEW q \in Opener, Fetches(q)', ~opener'[q].crossed
            PROVE  /\ Fetches(q) /\ ~opener[q].crossed
                   /\ opener'[q].begun = opener[q].begun /\ opener'[q].since = opener[q].since
        <4>1. CASE q = p
          BY <2>1, <2>2, <3>3, <4>1 DEF Fetches
        <4>2. CASE q # p
          BY <2>1, <3>3, <4>2 DEF Fetches
        <4> QED
          BY <4>1, <4>2
      <3>4. ASSUME NEW q \in Opener, Fetches(q)', ~opener'[q].crossed
            PROVE  /\ \A i \in DOMAIN snapshots' :
                         snapshots'[i].at > opener'[q].begun => snapshots'[i].made > opener'[q].since
                   /\ \A x \in Opener : Is(x, "answered")' => opener'[x].answer > opener'[q].since
        <4>1. /\ \A i \in DOMAIN snapshots :
                     snapshots[i].at > opener[q].begun => snapshots[i].made > opener[q].since
              /\ \A x \in Opener : Is(x, "answered") => opener[x].answer > opener[q].since
          BY <1>00, <3>3, <3>4 DEF FetchTrue
        <4>2. new.made > opener[q].since
          BY <2>2, <2>3, <4>1 DEF Is
        <4> QED
          BY <2>8, <3>2, <3>3, <3>4, <4>1, <4>2
      <3>5. \A i \in DOMAIN snapshots : snapshots[i] \in SnapshotRec /\ snapshots[i].at <= stored
        BY <1>0, <1>00 DEF FetchTrue
      <3>6. \A i \in DOMAIN snapshots : snapshots[i].at <= stored + 1
        BY <1>0, <3>5 DEF SnapshotRec
      <3>7. \A i \in DOMAIN snapshots' : snapshots'[i].at <= stored'
        <4>1. new.at <= stored'
          BY <1>0, <2>2, <2>3
        <4> QED
          BY <2>2, <2>8, <3>6, <4>1
      <3> QED
        BY <2>2, <3>1, <3>4, <3>7 DEF FetchTrue
    <2> QED
      BY <2>9, <2>10, <2>11 DEF MemoryCore
  <1>14. ASSUME NEW p \in Opener, DeliveryFailed(p) PROVE MemoryCore'
    <2> PICK s \in {"run", "tried"} : Becomes(p, s) /\ s = IF opener[p].agent THEN "run" ELSE "tried"
      BY <1>14 DEF DeliveryFailed, AfterDelivery
    <2>1. /\ opener' \in [Opener -> OpenerRec] /\ opener'[p].step = s
          /\ opener'[p].agent = opener[p].agent /\ opener'[p].applied = opener[p].applied
          /\ opener'[p].since = opener[p].since /\ opener'[p].begun = opener[p].begun
          /\ opener'[p].crossed = opener[p].crossed
          /\ \A q \in Opener \ {p} : opener'[q] = opener[q]
      BY <1>0, OpenerSteps DEF MemorySteps
    <2>2. UNCHANGED <<executed, recorded, localState, snapshots, catalogue, probes, made, stored>>
          /\ opener[p].step \in {"asked", "answered"}
      BY <1>14 DEF DeliveryFailed
    <2>3. MemoryTyped'
      BY <1>0, <2>1, <2>2 DEF MemoryTyped
    <2>4. Migrated'
      <3>1. opener'[p].step \notin {"idle", "migrate"} /\ opener[p].step \notin {"idle", "migrate"}
        BY <2>1, <2>2
      <3> QED
        BY <1>00, <2>1, <2>2, <3>1, MigratedStays
    <2>5. FetchTrue'
      <3>1. \/ opener'[p].step = "run" /\ opener[p].agent
            \/ opener'[p].step \in {"tried", "due"} /\ Fetches(p)
        BY <2>1, <2>2 DEF Fetches
      <3> QED
        BY <1>00, <2>1, <2>2, <3>1, FetchGoesOn
    <2> QED
      BY <2>3, <2>4, <2>5 DEF MemoryCore
  <1>15. ASSUME NEW p \in Opener, ReadCachedPeerSnapshot(p) PROVE MemoryCore'
    <2>1. UNCHANGED <<executed, recorded, localState, snapshots, catalogue, probes, made, stored>>
          /\ opener[p].step = "tried"
      BY <1>15 DEF ReadCachedPeerSnapshot, Is
    <2>2. Fetches(p)
      BY <1>00, <2>1 DEF FetchTrue, Fetches
    <2>3. CASE Becomes(p, "due")
      <3>1. /\ opener' \in [Opener -> OpenerRec] /\ opener'[p].step = "due"
            /\ opener'[p].agent = opener[p].agent /\ opener'[p].applied = opener[p].applied
            /\ opener'[p].since = opener[p].since /\ opener'[p].begun = opener[p].begun
            /\ opener'[p].crossed = opener[p].crossed
            /\ \A q \in Opener \ {p} : opener'[q] = opener[q]
        BY <1>0, <2>3, OpenerSteps DEF MemorySteps
      <3>2. MemoryTyped'
        BY <1>0, <2>1, <3>1 DEF MemoryTyped
      <3>3. Migrated'
        <4>1. opener'[p].step \notin {"idle", "migrate"} /\ opener[p].step \notin {"idle", "migrate"}
          BY <2>1, <3>1
        <4> QED
          BY <1>00, <2>1, <3>1, <4>1, MigratedStays
      <3>4. FetchTrue'
        BY <1>00, <2>1, <2>2, <3>1, FetchGoesOn
      <3> QED
        BY <3>2, <3>3, <3>4 DEF MemoryCore
    <2>4. CASE /\ snapshots # <<>> /\ IsFresh(snapshots[Len(snapshots)], opener[p].begun)
               /\ opener' = [opener EXCEPT ![p].step = "done", ![p].got = snapshots[Len(snapshots)].made]
      <3> DEFINE last == snapshots[Len(snapshots)]
                 q0 == [opener[p] EXCEPT !.step = "done"]
                 r == [q0 EXCEPT !.got = last.made]
      <3>1. Len(snapshots) \in DOMAIN snapshots /\ last \in SnapshotRec /\ last.at > opener[p].begun
        BY <1>0, <2>4 DEF IsFresh
      <3>2. opener' = [opener EXCEPT ![p] = r]
        BY <2>4
      <3> HIDE DEF last
      <3>3. /\ q0 \in OpenerRec /\ q0.step = "done" /\ q0.agent = opener[p].agent
            /\ q0.applied = opener[p].applied /\ q0.since = opener[p].since
            /\ q0.begun = opener[p].begun /\ q0.crossed = opener[p].crossed
        BY <1>0 DEF OpenerRec, MemorySteps
      <3> HIDE DEF q0
      <3>4. /\ r \in OpenerRec /\ r.step = "done" /\ r.agent = opener[p].agent
            /\ r.applied = opener[p].applied /\ r.since = opener[p].since
            /\ r.begun = opener[p].begun /\ r.crossed = opener[p].crossed /\ r.got = last.made
        BY <3>1, <3>3 DEF OpenerRec, SnapshotRec
      <3> HIDE DEF r
      <3>5. opener' \in [Opener -> OpenerRec] /\ opener'[p] = r
            /\ \A q \in Opener \ {p} : opener'[q] = opener[q]
        BY <1>0, <3>2, <3>4
      <3>6. MemoryTyped'
        BY <1>0, <2>1, <3>5 DEF MemoryTyped
      <3>7. Migrated'
        <4>1. opener'[p].step \notin {"idle", "migrate"} /\ opener[p].step \notin {"idle", "migrate"}
          BY <2>1, <3>4, <3>5
        <4> QED
          BY <1>00, <2>1, <3>4, <3>5, <4>1, MigratedStays
      <3>8. FetchTrue'
        <4>1. last.made > opener[p].since \/ opener[p].crossed
          BY <1>00, <2>2, <3>1 DEF FetchTrue, last
        <4>2. opener'[p].got > opener'[p].since \/ opener'[p].crossed
          BY <3>4, <3>5, <4>1
        <4> QED
          BY <1>00, <2>1, <2>2, <3>4, <3>5, <4>2, FetchGoesOn
      <3> QED
        BY <3>6, <3>7, <3>8 DEF MemoryCore
    <2> QED
      BY <1>15, <2>3, <2>4 DEF ReadCachedPeerSnapshot
  <1>16. ASSUME NEW p \in Opener, CloseDb(p) PROVE MemoryCore'
    <2>1. opener' = [opener EXCEPT ![p] = Closed]
          /\ UNCHANGED <<executed, recorded, localState, snapshots, catalogue, probes, made, stored>>
      BY <1>16 DEF CloseDb
    <2>2. opener' \in [Opener -> OpenerRec] /\ opener'[p] = Closed
          /\ \A q \in Opener \ {p} : opener'[q] = opener[q]
      BY <1>0, <2>1, ClosedIs
    <2>3. MemoryTyped'
      BY <1>0, <2>1, <2>2 DEF MemoryTyped
    <2>4. Migrated'
      BY <1>00, <2>1, <2>2, ClosedIs, MigratedStays
    <2>5. FetchTrue'
      <3>1. opener'[p].since <= made
        BY <1>0, <2>2, ClosedIs
      <3> QED
        BY <1>00, <2>1, <2>2, <3>1, ClosedIs, FetchStays
    <2> QED
      BY <2>3, <2>4, <2>5 DEF MemoryCore
  <1> QED
    BY <1>1, <1>2, <1>3, <1>4, <1>5, <1>6, <1>7, <1>8, <1>9, <1>10, <1>11, <1>12, <1>13, <1>14,
       <1>15, <1>16, <1>17, <1>18, <1>19 DEF MemoryNext

\* The identity and the row found stand between the two steps that use them.
LEMMA RetiringStep == MemoryInv /\ [MemoryNext]_memoryVars => Retiring'
  <1> SUFFICES ASSUME MemoryInv, [MemoryNext]_memoryVars, NEW q \in Opener, opener'[q].step = "retire"
               PROVE  opener'[q].found # opener'[q].id
    BY DEF Retiring
  <1>0. opener \in [Opener -> OpenerRec] /\ opener[q] \in OpenerRec
    BY DEF MemoryInv, MemoryCore, MemoryTyped
  <1>1. CASE opener'[q] = opener[q]
    BY <1>1 DEF MemoryInv, Retiring
  <1>2. ASSUME NEW p \in Opener, SyncLocalIdentity(p), opener'[q] # opener[q]
        PROVE  opener'[q].found # opener'[q].id
    <2>1. PICK x \in Rows : /\ Retired(x, opener[p].id)
                            /\ opener' = [opener EXCEPT ![p].step = "retire", ![p].found = x]
      <3>1. ~Becomes(p, "upsert")
        <4>1. SUFFICES ASSUME Becomes(p, "upsert") PROVE FALSE
          OBVIOUS
        <4>2. opener'[p].step = "upsert" /\ \A k \in Opener \ {p} : opener'[k] = opener[k]
          BY <1>0, <4>1, OpenerSteps DEF MemorySteps
        <4> QED
          BY <1>2, <4>2
      <3> QED
        BY <1>2, <3>1 DEF SyncLocalIdentity
    <2>2. x \in Identity
      BY DEF Rows
    <2>3. /\ opener'[p].found = x /\ opener'[p].id = opener[p].id
          /\ \A k \in Opener \ {p} : opener'[k] = opener[k]
      <3> DEFINE r == [opener[p] EXCEPT !.step = "retire", !.found = x]
      <3>1. opener[p] \in OpenerRec /\ opener' = [opener EXCEPT ![p] = r]
        BY <1>0, <2>1
      <3>2. r.found = x /\ r.id = opener[p].id
        BY <3>1 DEF OpenerRec
      <3> HIDE DEF r
      <3> QED
        BY <1>0, <3>1, <3>2
    <2> QED
      BY <1>2, <2>1, <2>3 DEF Retired
  <1>3. ASSUME NEW p \in Opener, opener'[q] # opener[q],
               OpenDb(p) \/ ExecMigration(p) \/ RecordMigration(p) \/ LoadIdentity(p) \/ DeleteRetired(p)
        PROVE  FALSE
    <2>1. q = p
      BY <1>0, <1>3 DEF OpenDb, ExecMigration, RecordMigration, LoadIdentity, DeleteRetired
    <2>2. CASE OpenDb(p)
      BY <1>0, <2>1, <2>2 DEF OpenDb, Closed, OpenerRec
    <2>4. CASE LoadIdentity(p)
      BY <1>0, <2>1, <2>4 DEF LoadIdentity, OpenerRec
    <2>5. CASE DeleteRetired(p)
      BY <1>0, <2>1, <2>5 DEF DeleteRetired, OpenerRec
    <2>3. CASE ExecMigration(p) \/ RecordMigration(p)
      BY <1>0, <2>1, <2>3 DEF ExecMigration, RecordMigration, Is, OpenerRec
    <2> QED
      BY <1>3, <2>2, <2>3, <2>4, <2>5
  <1>4. ASSUME NEW p \in Opener, opener'[q] # opener[q], NEW s \in MemorySteps \ {"retire"}, Becomes(p, s)
        PROVE  FALSE
    BY <1>0, <1>4 DEF Becomes, OpenerRec
  <1>5. ASSUME NEW p \in Opener, opener'[q] # opener[q],
               UpsertLocalIdentity(p) \/ FetchFreshPeerSnapshot(p) \/ BuildNodeSnapshot(p) \/ CloseDb(p)
        PROVE  FALSE
    BY <1>0, <1>5 DEF UpsertLocalIdentity, FetchFreshPeerSnapshot, BuildNodeSnapshot, CloseDb, Closed, OpenerRec
  <1>6. ASSUME NEW p \in Opener, opener'[q] # opener[q], ReadCachedPeerSnapshot(p) PROVE FALSE
    BY <1>0, <1>6 DEF ReadCachedPeerSnapshot, Becomes, OpenerRec
  <1>7. ASSUME NEW p \in Opener, opener'[q] # opener[q],
               \/ SeedLocalState(p) \/ ApplyProbeCycle(p) \/ StoreProbeCycle(p) \/ Deliver(p)
               \/ UpsertPeerSnapshot(p) \/ DeliveryFailed(p)
        PROVE  FALSE
    <2>1. \E s \in MemorySteps \ {"retire"} : Becomes(p, s)
      BY <1>7 DEF SeedLocalState, ApplyProbeCycle, StoreProbeCycle, Deliver, UpsertPeerSnapshot,
         DeliveryFailed, AfterDelivery, MemorySteps
    <2> QED
      BY <1>4, <1>7, <2>1
  <1> QED
    BY <1>1, <1>2, <1>3, <1>5, <1>6, <1>7 DEF MemoryNext, memoryVars, CatalogueEdited

LEMMA MemoryInvStep == MemoryInv /\ [MemoryNext]_memoryVars => MemoryInv'
  BY MemoryCoreStep, RetiringStep DEF MemoryInv

LEMMA MemoryIsHonest == MemoryInv => MemoryHonest
  <1> SUFFICES ASSUME MemoryInv PROVE MemoryHonest
    OBVIOUS
  <1>1. SchemaWhole
    BY DEF MemoryInv, MemoryCore, Migrated, SchemaWhole
  <1>2. FreshIsNew
    BY DEF MemoryInv, MemoryCore, FetchTrue, FreshIsNew, Is
  <1> QED
    BY <1>1, <1>2 DEF MemoryHonest

\* Seeding and upserting keep the rows there are, a probe cycle writes its own,
\* and an agent that starts retires the row of another identity only.
LEMMA FoundStays == MemoryInv /\ [MemoryNext]_memoryVars => FoundKept
  <1> SUFFICES ASSUME MemoryInv, [MemoryNext]_memoryVars, NEW i \in NodeId,
                      localState[i] \notin {NoRow, 0}, localState'[i] # localState[i]
               PROVE  \/ localState'[i] = probes' /\ probes' > probes
                      \/ \E p \in Opener : /\ Is(p, "retire") /\ opener'[p].step = "upsert"
                                           /\ opener[p].found = i /\ opener[p].id # i
    BY DEF FoundKept
  <1>0. /\ localState \in [Identity -> Nat \cup {NoRow}] /\ i \in Identity /\ probes \in Nat
        /\ opener \in [Opener -> OpenerRec]
    BY DEF MemoryInv, MemoryCore, MemoryTyped, Identity
  <1>1. ASSUME NEW p \in Opener, SeedLocalState(p) \/ ApplyProbeCycle(p) \/ UpsertLocalIdentity(p)
        PROVE  FALSE
    <2>1. Configured \in Identity /\ Seeded \in Identity /\ opener[p].id \in Identity
      BY <1>0, MemoryAssumption DEF Identity, OpenerRec
    <2>2. PICK id \in Identity : localState' = WithRow(localState, id)
      BY <1>1, <2>1 DEF SeedLocalState, ApplyProbeCycle, UpsertLocalIdentity
    <2> QED
      BY <1>0, <2>2, RowsTyped
  <1>2. ASSUME NEW p \in Opener, StoreProbeCycle(p) PROVE localState'[i] = probes' /\ probes' > probes
    <2>1. localState' = [localState EXCEPT ![opener[p].id] = IF @ = NoRow THEN NoRow ELSE probes + 1]
          /\ probes' = probes + 1
      BY <1>2 DEF StoreProbeCycle
    <2>2. localState'[i] = probes + 1
      BY <1>0, <2>1
    <2> QED
      BY <1>0, <2>1, <2>2
  <1>3. ASSUME NEW p \in Opener, DeleteRetired(p)
        PROVE  /\ Is(p, "retire") /\ opener'[p].step = "upsert"
               /\ opener[p].found = i /\ opener[p].id # i
    <2>1. /\ Is(p, "retire") /\ opener' = [opener EXCEPT ![p].step = "upsert", ![p].found = Seeded]
          /\ localState' = [localState EXCEPT ![opener[p].found] = NoRow]
      BY <1>3 DEF DeleteRetired
    <2>2. opener'[p].step = "upsert"
      BY <1>0, <2>1, OpenerFinds DEF MemorySteps, Identity
    <2>3. opener[p].found = i
      BY <1>0, <2>1
    <2>4. opener[p].found # opener[p].id
      BY <2>1 DEF MemoryInv, Retiring, Is
    <2> QED
      BY <2>1, <2>2, <2>3, <2>4
  <1>4. ASSUME UNCHANGED localState PROVE FALSE
    BY <1>4
  <1> QED
    BY <1>1, <1>2, <1>3, <1>4 DEF MemoryNext, memoryVars, CatalogueEdited, OpenDb, ExecMigration,
       RecordMigration, LoadIdentity, SyncLocalIdentity, FetchFreshPeerSnapshot, Deliver, BuildNodeSnapshot,
       UpsertPeerSnapshot, DeliveryFailed, ReadCachedPeerSnapshot, CloseDb

\* Every step of the processes that share the database leaves the schema of
\* those past the opening whole and fresh answers new, and keeps what the
\* probes found (db.js, migrate.js, local-state.js, snapshot.js).
THEOREM MemoryStays == MemorySpec => MemoryKept
  <1>1. MemorySpec => []MemoryInv
    BY MemoryInvInit, MemoryInvStep, PTL DEF MemorySpec
  <1>2. MemoryInv /\ MemoryInv' /\ [MemoryNext]_memoryVars => MemoryHonest' /\ FoundKept
    <2>1. MemoryInv' => MemoryHonest'
      BY MemoryIsHonest, PTL
    <2> QED
      BY <2>1, FoundStays
  <1> QED
    BY <1>1, <1>2, PTL DEF MemorySpec, MemoryKept

\* The mail server keeps what its own scripts keep and what its installation
\* keeps (ops/vps-mail).
THEOREM MailHostStays == MailServerSpec /\ InstallSpec => MailHostKept
  BY MailStays, InstallStays, PTL DEF MailHostKept

---------------------------------------------------------------------------
(* All of them.                                                            *)

\* The types that the invariants above do without.
BearerBounds ==
    /\ sot \in 0 .. MaxBearer /\ copy <= sot /\ gateway \in 0 .. sot
    /\ author \in Author /\ reports \in 0 .. MaxReport

ReleaseTyped ==
    /\ release \in [Periodic -> {"none", "partial", "complete"}]
    /\ deploys \in 0 .. MaxDeploy

LEMMA BearerBoundsStep == BearerInv /\ BearerBounds /\ [BearerNext]_bearerVars => BearerBounds'
  <1> SUFFICES ASSUME BearerInv, BearerBounds, [BearerNext]_bearerVars PROVE BearerBounds'
    OBVIOUS
  <1>0. /\ sot \in Nat /\ copy \in Nat /\ copy <= sot
        /\ \A r \in Run : run[r].value \in Nat /\ run[r].value <= sot
    BY DEF BearerInv, BearerBounds, RunRec, RunTrue
  <1>1. CASE UNCHANGED bearerVars \/ RotateBearer \/ GatewayStarts \/ SyncEnvKey
    BY <1>0, <1>1, BearerAssumption
       DEF bearerVars, RotateBearer, GatewayStarts, SyncEnvKey, BearerBounds, Author
  <1>2. ASSUME NEW r \in Run, ReadSot(r) PROVE BearerBounds'
    BY <1>0, <1>2, BearerAssumption DEF ReadSot, BearerBounds
  <1>3. ASSUME NEW r \in Run, CompareCopy(r) \/ NoVault(r) \/ VaultSync(r) \/ VerifyCopy(r)
        PROVE  BearerBounds'
    BY <1>3 DEF CompareCopy, NoVault, VaultSync, VerifyCopy, BearerBounds
  <1>4. ASSUME NEW r \in Run, WriteCopy(r) \/ FollowReport(r) \/ RunEnds(r) PROVE BearerBounds'
    BY <1>0, <1>4 DEF WriteCopy, FollowReport, RunEnds, BearerBounds, Author
  <1> QED
    BY <1>1, <1>2, <1>3, <1>4 DEF BearerNext

LEMMA ReleaseTypedStep == CycleTyped /\ ReleaseTyped /\ [CycleNext]_cycleVars => ReleaseTyped'
  <1> SUFFICES ASSUME CycleTyped, ReleaseTyped, [CycleNext]_cycleVars PROVE ReleaseTyped'
    OBVIOUS
  <1>1. \A d \in Deployer : Of(d) \in Periodic
    BY DEF CycleTyped, DeployRec, Of
  <1>2. ASSUME NEW d \in Deployer, NEW k \in Periodic, Preflight(d, k) PROVE ReleaseTyped'
    BY <1>2, CycleAssumption DEF Preflight, ReleaseTyped
  <1>3. ASSUME NEW d \in Deployer, BuildRelease(d) PROVE ReleaseTyped'
    BY <1>1, <1>3 DEF BuildRelease, ReleaseTyped
  <1>4. ASSUME NEW d \in Deployer, DeployDies(d) PROVE ReleaseTyped'
    BY <1>1, <1>4 DEF DeployDies, ReleaseTyped
  <1>5. ASSUME UNCHANGED <<release, deploys>> PROVE ReleaseTyped'
    BY <1>5 DEF ReleaseTyped
  <1> QED
    BY <1>2, <1>3, <1>4, <1>5 DEF CycleNext, cycleVars, InstallUnit, ReloadUnits, RunOnce,
       CheckResult, RemoveProbe, ReloadWithoutProbe, EnableTimer, Verified, Fails, DisableTimer,
       StopRun, RemoveUnits, ReloadRolledBack

\* Whichever part moves, each part takes a step of its own or none.
LEMMA EachPartMoves ==
    ASSUME [HostNext]_partVars
    PROVE  /\ [MailServerNext]_mailVars /\ [InstallNext]_installVars
           /\ [CycleNext]_cycleVars /\ [MagistralNext]_hostChangeVars
           /\ [MemoryNext]_memoryVars /\ [WakeNext]_wakeVars /\ [BearerNext]_bearerVars
           /\ [DivergenceNext]_divergenceVars /\ [DiagnoseNext]_diagnoseVars
           /\ [ConsoleNext]_consoleVars
  BY DEF HostNext, partVars, serverVars, deployVars, storeVars, lookVars

\* The inductive invariant of MCHost.
HostInv ==
    /\ BearerInv /\ BearerBounds /\ CycleInv /\ ReleaseTyped /\ MagistralInv
    /\ DiagnoseInv /\ WakeInv /\ MailInv /\ InstallInv /\ ConsoleInv /\ DivergenceInv /\ MemoryInv

LEMMA HostInvInit == HostInit => HostInv
  <1> SUFFICES ASSUME HostInit PROVE HostInv
    OBVIOUS
  <1>1. BearerBounds
    <2>1. 0 \in 0 .. MaxBearer /\ 0 \in 0 .. MaxReport
      BY BearerAssumption
    <2> QED
      BY <2>1 DEF HostInit, BearerInit, BearerBounds, Author
  <1>2. ReleaseTyped
    BY CycleAssumption DEF HostInit, CycleInit, ReleaseTyped
  <1> QED
    BY <1>1, <1>2, BearerInvInit, CycleInvInit, MagistralInvInit, DiagnoseInvInit, WakeInvInit,
       MailInvInit, InstallInvInit, ConsoleInvInit, DivergenceInvInit, MemoryInvInit
    DEF HostInit, HostInv

LEMMA HostInvStep == HostInv /\ [HostNext]_partVars => HostInv'
  <1> SUFFICES ASSUME HostInv, [HostNext]_partVars PROVE HostInv'
    OBVIOUS
  <1>1. BearerInv' /\ BearerBounds' /\ CycleInv' /\ ReleaseTyped' /\ MagistralInv'
    BY EachPartMoves, BearerInvStep, BearerBoundsStep, CycleInvStep, ReleaseTypedStep,
       MagistralInvStep DEF HostInv, CycleInv
  <1>2. DiagnoseInv' /\ WakeInv' /\ MailInv' /\ InstallInv'
    BY EachPartMoves, DiagnoseInvStep, WakeInvStep, MailInvStep, InstallInvStep DEF HostInv
  <1>3. ConsoleInv' /\ DivergenceInv' /\ MemoryInv'
    BY EachPartMoves, ConsoleInvStep, DivergenceInvStep, MemoryInvStep DEF HostInv
  <1> QED
    BY <1>1, <1>2, <1>3 DEF HostInv

LEMMA HostInvTypes == HostInv => HostTypeOK
  <1> SUFFICES ASSUME HostInv PROVE HostTypeOK
    OBVIOUS
  <1>1. BearerTypeOK
    <2>1. ASSUME NEW r \in Run
          PROVE  run[r] \in [step : BearerSteps, apply : BOOLEAN, push : BOOLEAN,
                             value : 0 .. MaxBearer, match : BOOLEAN, ok : BOOLEAN,
                             required : BOOLEAN, rotated : BOOLEAN, rewritten : BOOLEAN]
      <3>1. run[r] \in RunRec /\ run[r].value \in 0 .. MaxBearer
        BY BearerAssumption DEF HostInv, BearerInv, BearerBounds, RunRec, RunTrue
      <3> QED
        BY <3>1 DEF RunRec
    <2> QED
      BY <2>1, BearerAssumption DEF HostInv, BearerInv, BearerBounds, BearerTypeOK
  <1>2. CycleTypeOK
    BY DEF HostInv, CycleInv, CycleTyped, ReleaseTyped, CycleTypeOK, DeployRec
  <1>3. MagistralTypeOK
    BY DEF HostInv, MagistralInv
  <1>4. MemoryTypeOK
    BY DEF HostInv, MemoryInv, MemoryCore, MemoryTyped, MemoryTypeOK, OpenerRec, SnapshotRec
  <1>5. WakeTypeOK
    <2>1. \A c \in Scheduler : caller[c].step \in ScheduleSteps
      BY DEF HostInv, WakeInv, WakeTyped, CallerRec, ScheduleSteps
    <2> QED
      BY <2>1 DEF HostInv, WakeInv, WakeTyped, WakeTypeOK, EventRec, RowOfWake
  <1>6. MailTypeOK
    BY DEF HostInv, MailInv, MailTyped, MailTypeOK, DaemonRec, ScriptRec
  <1>7. InstallTypeOK
    BY DEF HostInv, InstallInv, InstallTyped, InstallTypeOK, SetupRec
  <1>8. DivergenceTypeOK
    <2>1. DOMAIN store \subseteq ContinuationId /\ \A c \in DOMAIN store : store[c] \in {"active", "resolved"}
      BY DEF HostInv, DivergenceInv, DivergenceTyped
    <2> QED
      BY <2>1 DEF HostInv, DivergenceInv, DivergenceTyped, BusyBounded, DivergenceTypeOK, HostRec, WatcherRec
  <1>9. DiagnoseTypeOK
    <2>1. observer \in LookRec
      BY DEF HostInv, DiagnoseInv, DiagnoseTyped
    <2>2. /\ observer.step \in LookStep /\ observer.remote \in {"unreached", "sick", "ok"}
          /\ observer.face \subseteq {"guide", "mcp"} /\ observer.drift \subseteq DriftItem
          /\ observer.code \in 0 .. 3
      BY <2>1 DEF LookRec
    <2> QED
      BY <2>2 DEF HostInv, DiagnoseInv, DiagnoseTyped, DiagnoseTypeOK, CycleRec, RowRec, LookStep
  <1>10. ConsoleTypeOK
    <2>1. PICK n \in 1 .. MaxPoll : poll \in [1 .. n -> PollRec]
      BY DEF HostInv, ConsoleInv, ConsoleTyped
    <2>2. n \in 0 .. MaxPoll /\ DOMAIN poll = 1 .. n
      BY <2>1
    <2>3. DOMAIN poll \in {1 .. k : k \in 0 .. MaxPoll}
      BY <2>2
    <2> QED
      BY <2>1, <2>3 DEF HostInv, ConsoleInv, ConsoleTyped, ConsoleTypeOK, PollRec, PageRec, PanelRec
  <1> QED
    BY <1>1, <1>2, <1>3, <1>4, <1>5, <1>6, <1>7, <1>8, <1>9, <1>10 DEF HostTypeOK

\* The hosts as the run composes them: whichever part moves, the others stand
\* still, and all stay within their types.
THEOREM HostTyped == Spec => []HostTypeOK
  BY HostInvInit, HostInvStep, HostInvTypes, PTL DEF Spec

\* What runs on a host behaves as if it were alone there, and keeps all of
\* what its part states.
THEOREM EachPartKeeps ==
    Spec => /\ [](RowFromLog /\ BearerReportsTrue /\ DeploymentsKept /\ VerdictExact)
            /\ MailHostKept /\ MagistralKept /\ MemoryKept /\ ObservationHonest /\ ConsoleHonest
  <1>1. HostInit => /\ MailInit /\ InstallInit /\ CycleInit /\ MagistralInit /\ MemoryInit
                    /\ WakeInit /\ BearerInit /\ DivergenceInit /\ DiagnoseInit /\ ConsoleInit
    BY DEF HostInit
  <1>2. Spec => /\ MailServerSpec /\ InstallSpec /\ CycleSpec /\ MagistralSpec /\ MemorySpec
                /\ WakeSpec /\ BearerSpec /\ DivergenceSpec /\ DiagnoseSpec /\ ConsoleSpec
    BY <1>1, EachPartMoves, PTL
    DEF Spec, MailServerSpec, InstallSpec, CycleSpec, MagistralSpec, MemorySpec, WakeSpec,
        BearerSpec, DivergenceSpec, DiagnoseSpec, ConsoleSpec
  <1> QED
    BY <1>2, RowsFromLog, ReportsTrue, DeploymentsStay, VerdictsExact, MailHostStays,
       MagistralStays, MemoryStays, FleetObserved, PageHonest, PTL

=============================================================================
