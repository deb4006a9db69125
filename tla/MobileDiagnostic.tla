-------------------------- MODULE MobileDiagnostic --------------------------
(***************************************************************************)
(* The resident mobile diagnostic: one fixed ssh command to the phone,     *)
(* asked for by one GitHub issue, admitted by a local policy that pins the *)
(* digest of the request, executed once and returned as a comment.         *)
(*                                                                         *)
(* Ticks are processes on one SQLite store: the scheduled one, and the one *)
(* the scheduler abandoned or an operator started. A step is what runs     *)
(* between two awaits, transactions or commands that other processes see.  *)
(***************************************************************************)
EXTENDS Naturals, FiniteSets

CONSTANTS
    Tick,       \* processes running runResidentTick
    Body,       \* digests of the issue's body, hence of the request
    MaxLate,    \* bound on POSTs that land after the caller gave up
    MaxCrash,   \* bound on crashes
    NoBody      \* no digest

ASSUME MobileAssumption ==
    NoBody \notin Body /\ NoBody \notin Tick /\ {MaxLate, MaxCrash} \subseteq Nat

VARIABLES
    issue,      \* digest of the issue as it is now
    policy,     \* the digest the operator's policy admits; NoBody if disabled
    claimed,    \* :claim, the digest it was made for
    receipt,    \* :result: "none", "completed" or "failed"
    returned,   \* :delivery
    holder,     \* the process in a BEGIN IMMEDIATE that spans gh calls
    pc,         \* the step of each process
    admitted,   \* the policy it read when it started
    comments,   \* receipts on the issue
    late,       \* POSTs on their way that nobody waits for
    sshRuns,    \* history: executions of the command
    landed,     \* history: POSTs that landed late
    crashed     \* history: crashes

mobileVars == <<issue, policy, claimed, receipt, returned, holder, pc, admitted,
                comments, late, sshRuns, landed, crashed>>
mobileStore == <<claimed, receipt, returned>>
mobileWorld == <<issue, policy, comments, late, landed, crashed>>

MobileSteps == {"idle", "fetch", "claim", "run", "record", "deliver", "list", "post", "confirm"}

\* Types of the variables above.
MobileTypeOK ==
    /\ issue \in Body /\ policy \in Body \cup {NoBody}
    /\ claimed \in Body \cup {NoBody} /\ receipt \in {"none", "completed", "failed"}
    /\ returned \in BOOLEAN /\ holder \in Tick \cup {NoBody}
    /\ pc \in [Tick -> MobileSteps] /\ admitted \in [Tick -> Body \cup {NoBody}]
    /\ {comments, late, sshRuns, landed, crashed} \subseteq Nat

MobileInit ==
    /\ issue \in Body /\ policy \in Body
    /\ claimed = NoBody /\ receipt = "none" /\ returned = FALSE /\ holder = NoBody
    /\ pc = [t \in Tick |-> "idle"] /\ admitted = [t \in Tick |-> NoBody]
    /\ comments = 0 /\ late = 0 /\ sshRuns = 0 /\ landed = 0 /\ crashed = 0

Steps(t, from, to) == pc[t] = from /\ pc' = [pc EXCEPT ![t] = to]

\* The tick returns or throws; a transaction it holds is rolled back.
Leaves(t) ==
    /\ pc' = [pc EXCEPT ![t] = "idle"]
    /\ admitted' = [admitted EXCEPT ![t] = NoBody]
    /\ holder' = IF holder = t THEN NoBody ELSE holder

---------------------------------------------------------------------------
(* runResidentTick and executeMobilePacket.                                *)

\* The policy is read and admitted, once for the whole tick; a delivery ends
\* it, a result goes straight to delivery.
StartTick(t) ==
    /\ policy # NoBody /\ ~returned
    /\ Steps(t, "idle", IF receipt = "none" THEN "fetch" ELSE "deliver")
    /\ admitted' = [admitted EXCEPT ![t] = policy]
    /\ UNCHANGED <<mobileStore, holder, mobileWorld, sshRuns>>

\* The issue arrives. Its digest must be the admitted one; a claim of an
\* earlier tick for it is answered with its result or not at all.
ReadIssue(t) ==
    /\ pc[t] = "fetch"
    /\ LET admits == issue = admitted[t]
           known == claimed # NoBody
           settled == claimed = issue /\ receipt # "none"
       IN \/ admits /\ ~known /\ Steps(t, "fetch", "claim") /\ UNCHANGED <<admitted, holder>>
          \/ admits /\ known /\ settled /\ Steps(t, "fetch", "deliver")
                /\ UNCHANGED <<admitted, holder>>
          \/ (~admits \/ (known /\ ~settled)) /\ Leaves(t)
    /\ UNCHANGED <<mobileStore, mobileWorld, sshRuns>>

\* A step of t that fails: GitHub or gh does not answer, or another process
\* holds the write lock for longer than busy_timeout.
Fails(t) ==
    /\ \/ pc[t] \in {"fetch", "list", "confirm"}
       \/ pc[t] \in {"claim", "record", "deliver"} /\ holder # NoBody
    /\ Leaves(t)
    /\ UNCHANGED <<mobileStore, mobileWorld, sshRuns>>

\* Mutant of ClaimExecution: the claim is not looked for again.
ClaimUnchecked(t) ==
    /\ holder = NoBody /\ claimed' = admitted[t] /\ Steps(t, "claim", "run")
    /\ UNCHANGED <<receipt, returned, holder, admitted, mobileWorld, sshRuns>>

\* BEGIN IMMEDIATE: the claim is looked for once more.
ClaimExecution(t) ==
    /\ pc[t] = "claim" /\ holder = NoBody
    /\ IF claimed = NoBody
       THEN /\ claimed' = admitted[t] /\ Steps(t, "claim", "run")
            /\ UNCHANGED <<admitted, holder>>
       ELSE Leaves(t) /\ UNCHANGED claimed
    /\ UNCHANGED <<receipt, returned, mobileWorld, sshRuns>>

\* spawnSync of the command, killed after its timeout.
RunSsh(t) ==
    /\ Steps(t, "run", "record") /\ sshRuns' \in {sshRuns, sshRuns + 1}
    /\ UNCHANGED <<mobileStore, holder, admitted, mobileWorld>>

RecordReceipt(t) ==
    /\ holder = NoBody /\ Steps(t, "record", "deliver")
    /\ receipt' \in {"failed"} \cup (IF sshRuns = 0 THEN {} ELSE {"completed"})
    /\ UNCHANGED <<claimed, returned, holder, admitted, mobileWorld, sshRuns>>

---------------------------------------------------------------------------
(* The delivery: one transaction around publishResidentReceipt.            *)

OpenDelivery(t) ==
    /\ pc[t] = "deliver" /\ holder = NoBody
    /\ IF returned THEN Leaves(t)
       ELSE Steps(t, "deliver", "list") /\ holder' = t /\ UNCHANGED admitted
    /\ UNCHANGED <<mobileStore, mobileWorld, sshRuns>>

\* Mutant of ListReceipts: the prior receipt is not looked for.
PostAlways(t) ==
    /\ Steps(t, "list", "post")
    /\ UNCHANGED <<mobileStore, holder, admitted, mobileWorld, sshRuns>>

\* All pages of the comments are read for the exact body.
ListReceipts(t) ==
    /\ Steps(t, "list", IF comments > 0 THEN "confirm" ELSE "post")
    /\ UNCHANGED <<mobileStore, holder, admitted, mobileWorld, sshRuns>>

PostReceipt(t) ==
    /\ Steps(t, "post", "confirm") /\ comments' = comments + 1
    /\ UNCHANGED <<mobileStore, holder, admitted, sshRuns, issue, policy, late, landed, crashed>>

\* The POST ends without an answer: it was applied, it was not, or it still
\* may be.
PostUnanswered(t) ==
    /\ pc[t] = "post" /\ Leaves(t)
    /\ \/ comments' = comments + 1 /\ UNCHANGED late
       \/ UNCHANGED <<comments, late>>
       \/ late + landed < MaxLate /\ late' = late + 1 /\ UNCHANGED comments
    /\ UNCHANGED <<mobileStore, sshRuns, issue, policy, landed, crashed>>

\* The comment is read back, the delivery is stored, COMMIT.
ConfirmReceipt(t) ==
    /\ pc[t] = "confirm" /\ Leaves(t)
    /\ returned' = TRUE
    /\ UNCHANGED <<claimed, receipt, mobileWorld, sshRuns>>

---------------------------------------------------------------------------
\* The process dies; one that was posting may have posted.
TickDies(t) ==
    /\ pc[t] # "idle" /\ crashed < MaxCrash
    /\ crashed' = crashed + 1 /\ Leaves(t)
    /\ sshRuns' \in {sshRuns} \cup (IF pc[t] = "run" THEN {sshRuns + 1} ELSE {})
    /\ UNCHANGED <<mobileStore, issue, policy, comments, late, landed>>

LandsLate ==
    /\ late > 0 /\ late' = late - 1 /\ landed' = landed + 1 /\ comments' = comments + 1
    /\ UNCHANGED <<mobileStore, holder, pc, admitted, sshRuns, issue, policy, crashed>>

\* The author edits the issue; the operator edits the policy.
Edited ==
    /\ \/ issue' \in Body \ {issue} /\ UNCHANGED policy
       \/ policy' \in (Body \cup {NoBody}) \ {policy} /\ UNCHANGED issue
    /\ UNCHANGED <<mobileStore, holder, pc, admitted, sshRuns, comments, late, landed, crashed>>

MobileNext ==
    \/ LandsLate \/ Edited
    \/ \E t \in Tick :
        \/ StartTick(t) \/ ReadIssue(t) \/ Fails(t) \/ ClaimExecution(t) \/ RunSsh(t)
        \/ RecordReceipt(t) \/ OpenDelivery(t) \/ ListReceipts(t) \/ PostReceipt(t)
        \/ PostUnanswered(t) \/ ConfirmReceipt(t) \/ TickDies(t)

MobileSpec == MobileInit /\ [][MobileNext]_mobileVars

---------------------------------------------------------------------------
(* Properties.                                                             *)

\* The diagnostic is a second implementation of AuthorizedEffect, with one
\* packet and a budget of one: the command runs at most once whatever
\* processes, crashes and edits do, and only what ran is returned.
Diagnostic == INSTANCE AuthorizedEffect WITH
    Packet <- {"diagnostic"}, GrantId <- {"policy"}, Limit <- [id \in {"policy"} |-> {1}],
    phase <- [p \in {"diagnostic"} |->
                 CASE returned -> "delivered"
                   [] ~returned /\ receipt # "none" -> "recorded"
                   [] ~returned /\ receipt = "none" /\ sshRuns > 0 -> "effected"
                   [] ~returned /\ receipt = "none" /\ sshRuns = 0 /\ claimed # NoBody -> "claimed"
                   [] OTHER -> "open"],
    effects <- [p \in {"diagnostic"} |-> sshRuns],
    payer <- [id \in {"policy"} |-> IF claimed = NoBody THEN {} ELSE {"diagnostic"}]

MobileIsAuthorizedEffect == Diagnostic!Spec

\* The receipt appears twice only if a POST that was given up landed late:
\* the exact body is looked for under the lock before it is posted.
ReceiptTwiceOnlyIfLate == comments <= 1 + landed

=============================================================================
