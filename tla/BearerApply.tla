---------------------------- MODULE BearerApply ----------------------------
(***************************************************************************)
(* How the system bearer reaches its consumers (lib/system-bearer.js and   *)
(* scripts/ops/apply-system-bearer.js): a run compares the copy in the     *)
(* gateway's env file with the source of truth, with --apply writes it,    *)
(* with --vault lets another program push the vault of the edge, and       *)
(* reports what is left to restart. It restarts nothing itself: a person   *)
(* does, as the report says. Others write the same copy with               *)
(* scripts/ops/sync-env-key.js, which restarts nothing and asks for none.  *)
(*                                                                         *)
(* Keys are numbered in the order of their rotation; 0 is no key.          *)
(***************************************************************************)
EXTENDS Naturals

CONSTANTS
    Run,         \* runs of the tool
    MaxBearer,   \* bound on the rotations of the bearer
    MaxReport    \* bound on the runs

ASSUME BearerAssumption == MaxBearer \in Nat /\ MaxReport \in Nat

VARIABLES
    sot,       \* the key in the source of truth
    copy,      \* the key in the gateway's env file
    vault,     \* the key in the vault of the edge
    gateway,   \* the key the running gateway was started with
    run,       \* the runs of the tool
    author,    \* history: who last wrote the copy since the gateway was started
    reports    \* number of runs

bearerVars == <<sot, copy, vault, gateway, run, author, reports>>

BearerSteps == {"idle", "compare", "write", "vault", "verify", "report"}

\* The author may be a run at work, a run that is gone with a report nobody
\* followed, or sync-env-key.
Author == Run \cup {"nobody", "gone", "sync-env-key"}

\* value: the key of the source of truth as read; match: the copy had it;
\* required: the gateway is to be restarted. History: the source of truth was
\* rotated since it was read, the copy written since it was verified.
NoRun == [step |-> "idle", apply |-> FALSE, push |-> FALSE, value |-> 0, match |-> FALSE,
          ok |-> TRUE, required |-> FALSE, rotated |-> FALSE, rewritten |-> FALSE]

\* Types of the variables above.
BearerTypeOK ==
    /\ {sot, copy, vault, gateway} \subseteq 0 .. MaxBearer
    /\ run \in [Run -> [step : BearerSteps, apply : BOOLEAN, push : BOOLEAN,
                        value : 0 .. MaxBearer, match : BOOLEAN, ok : BOOLEAN,
                        required : BOOLEAN, rotated : BOOLEAN, rewritten : BOOLEAN]]
    /\ author \in Author /\ reports \in 0 .. MaxReport

\* A gateway that runs on what its file holds, the edge on what it holds.
BearerInit ==
    /\ sot = 0 /\ copy = 0 /\ vault = 0 /\ gateway = 0 /\ author = "nobody" /\ reports = 0
    /\ run = [r \in Run |-> NoRun]

---------------------------------------------------------------------------
(* runSystemBearerProcedure.                                               *)

\* Without a key in the source of truth the run is blocked.
ReadSot(r) ==
    /\ run[r].step = "idle" /\ sot # 0 /\ reports < MaxReport /\ reports' = reports + 1
    /\ \E apply \in BOOLEAN, push \in BOOLEAN :
          run' = [run EXCEPT ![r] =
             [NoRun EXCEPT !.step = "compare", !.apply = apply, !.push = push, !.value = sot]]
    /\ UNCHANGED <<sot, copy, vault, gateway, author>>

\* A dry run is only ok on a copy that matches, and --vault without --apply
\* is refused.
CompareCopy(r) ==
    LET same == copy = run[r].value IN
    /\ run[r].step = "compare"
    /\ run' = [run EXCEPT
          ![r].step = IF run[r].apply /\ ~same THEN "write" ELSE "vault", ![r].match = same,
          ![r].ok = run[r].apply \/ (same /\ ~run[r].push)]
    /\ UNCHANGED <<sot, copy, vault, gateway, author, reports>>

\* What was verified is not so any more.
Rewritten(runs) ==
    [q \in Run |-> IF runs[q].step # "report" THEN runs[q]
                   ELSE [runs[q] EXCEPT !.rewritten = TRUE]]

\* syncKeyToFile writes the key as it was read.
WriteCopy(r) ==
    /\ run[r].step = "write" /\ copy' = run[r].value /\ author' = r
    /\ run' = Rewritten([run EXCEPT ![r].step = "vault"])
    /\ UNCHANGED <<sot, vault, gateway, reports>>

NoVault(r) ==
    /\ run[r].step = "vault" /\ ~(run[r].apply /\ run[r].push)
    /\ run' = [run EXCEPT ![r].step = "verify"]
    /\ UNCHANGED <<sot, copy, vault, gateway, author, reports>>

\* sync-secrets.js --apply --vault, external: it reads the source of truth
\* itself. It may be missing or fail, before or after the vault has the key.
VaultSync(r) ==
    /\ run[r].step = "vault" /\ run[r].apply /\ run[r].push
    /\ \E pushed \in BOOLEAN, status \in BOOLEAN :
          /\ status => pushed
          /\ vault' = IF pushed THEN sot ELSE vault
          /\ run' = [run EXCEPT ![r].step = "verify", ![r].ok = @ /\ status]
    /\ UNCHANGED <<sot, copy, gateway, author, reports>>

\* The copy is read again, and compared with the key as read at the start.
Aligned(r) == copy # 0 /\ copy = run[r].value

\* Mutant of RestartRequired: only a copy that differs asks for a restart.
RestartIfDry(r) == ~run[r].match /\ ~run[r].apply

\* Every run that applies asks for it.
RestartRequired(r) == ~run[r].match \/ run[r].apply

VerifyCopy(r) ==
    /\ run[r].step = "verify"
    /\ run' = [run EXCEPT ![r].step = "report", ![r].ok = @ /\ Aligned(r),
                          ![r].required = RestartRequired(r)]
    /\ UNCHANGED <<sot, copy, vault, gateway, author, reports>>

---------------------------------------------------------------------------
(* Around the tool.                                                        *)

\* sync-env-key.js: a key that the source of truth, or the file it is given
\* for it, has or had when it was read.
SyncEnvKey ==
    /\ \E value \in 1 .. sot : value # copy /\ copy' = value
    /\ author' = "sync-env-key" /\ run' = Rewritten(run)
    /\ UNCHANGED <<sot, vault, gateway, reports>>

\* The person who reads the report restarts the gateway if it says so.
FollowReport(r) ==
    /\ run[r].step = "report" /\ run' = [run EXCEPT ![r] = NoRun]
    /\ gateway' = IF run[r].required THEN copy ELSE gateway
    /\ author' = IF run[r].required THEN "nobody" ELSE author
    /\ UNCHANGED <<sot, copy, vault, reports>>

\* The report is not followed, or the run has died before it.
RunEnds(r) ==
    /\ run[r].step # "idle" /\ run' = [run EXCEPT ![r] = NoRun]
    /\ author' = IF author = r THEN "gone" ELSE author
    /\ UNCHANGED <<sot, copy, vault, gateway, reports>>

RotateBearer ==
    /\ sot < MaxBearer /\ sot' = sot + 1
    /\ run' = [r \in Run |-> IF run[r].step = "idle" THEN run[r]
                             ELSE [run[r] EXCEPT !.rotated = TRUE]]
    /\ UNCHANGED <<copy, vault, gateway, author, reports>>

\* The machine starts the gateway again, on its file.
GatewayStarts ==
    /\ gateway # copy /\ gateway' = copy /\ author' = "nobody"
    /\ UNCHANGED <<sot, copy, vault, run, reports>>

BearerNext ==
    \/ RotateBearer \/ GatewayStarts \/ SyncEnvKey
    \/ \E r \in Run :
        \/ ReadSot(r) \/ CompareCopy(r) \/ WriteCopy(r) \/ NoVault(r) \/ VaultSync(r)
        \/ VerifyCopy(r) \/ FollowReport(r) \/ RunEnds(r)

BearerSpec == BearerInit /\ [][BearerNext]_bearerVars

---------------------------------------------------------------------------
(* Properties.                                                             *)

\* A report that is ok says: the copy had, when it was verified, the key the
\* run read, whoever wrote it; the edge has that key or a later one, whatever
\* was rotated between the read, the write and the push and whoever else
\* pushed; and they are all one unless the bearer was rotated on the way.
OkMeansAligned ==
    \A r \in Run : run[r].step = "report" /\ run[r].ok =>
        /\ run[r].rewritten \/ copy = run[r].value
        /\ run[r].push => run[r].value <= vault
        /\ run[r].rotated \/ (sot = run[r].value /\ (run[r].push => vault = sot))

\* A gateway that does not run on the key in its file is one that a run at
\* work will ask to restart, in the report it has yet to give or has given;
\* or the run that wrote the copy was not followed to its end, or the key was
\* written by sync-env-key, whose report asks for nothing.
RestartAsked ==
    gateway # copy =>
        \/ author \in {"gone", "sync-env-key"}
        \/ \E r \in Run : /\ author = r /\ run[r].step # "idle"
                          /\ run[r].step = "report" => run[r].required

\* Reports are true as far as a run can know.
BearerReportsTrue == OkMeansAligned /\ RestartAsked

=============================================================================
