--------------------------- MODULE PacketConsumer ---------------------------
(***************************************************************************)
(* The authorized packet consumer: consumePacket, authorize and            *)
(* publishPacketReceipt of lib/node-agent/packet-consumer.js.              *)
(*                                                                         *)
(* Several processes share one SQLite event store.  A call executes the    *)
(* provider of one packet under one signed grant and returns the receipt   *)
(* as a GitHub comment.  Processes crash between any two steps; policy     *)
(* revocations and other people's comments arrive at any time.             *)
(*                                                                         *)
(* A grant is the JSON object the issuer signs, reduced to the fields that *)
(* decide admission.  Its scope pairs a packet identity with the content   *)
(* (request digest, implementation and provider) the grant covers.         *)
(***************************************************************************)
EXTENDS Integers, Sequences, FiniteSets

CONSTANTS
  Proc,        \* consumer processes sharing the store
  Packet,      \* packet identities: hash of repository, issue and id
  Content,     \* what `identity` digests: request body, source, provider
  GrantId,
  Revocable,   \* the ids the operator may list in, or drop from, the policy
  Grant,       \* signed grants; several may carry one id (re-signed grants)
  Outcome,     \* provider outcomes, "failed" among them
  None,
  Other,       \* a comment that is not a receipt
  Window,      \* comments per reconciliation page (100 in the code)
  MaxTime, MaxOthers, MaxCrashes,  \* bounds of the environment
  LatePosts    \* may a POST the caller gave up on still reach GitHub?

Job == [packet : Packet, content : Content, grant : Grant]

ASSUME GrantAssumption ==
  /\ Grant \subseteq [id : GrantId, standing : BOOLEAN, publish : BOOLEAN,
                      scope : SUBSET (Packet \X Content),
                      max : Nat \ {0}, gap : Nat, until : Nat]
  /\ \A g \in Grant : ~g.standing => g.max = 1

ASSUME ConstantsAssumption ==
  /\ "failed" \in Outcome /\ None \notin Outcome
  /\ None \notin Proc \cup Packet \cup Content \cup Job
  /\ None \notin [grant : Grant, content : Content]
  /\ None \notin [status : Outcome, attempted : BOOLEAN]
  /\ Other \notin Packet /\ Revocable \subseteq GrantId
  /\ Window \in Nat \ {0} /\ MaxTime \in Nat /\ MaxOthers \in Nat
  /\ MaxCrashes \in Nat /\ LatePosts \in BOOLEAN

VARIABLES
  queued, claim, result, delivery,  \* one event per packet, INSERT OR IGNORE
  spent,       \* cop/packet.grant-spent.v1 events
  revoked,     \* cop/packet.grant-revoked.v1 events
  writer,      \* the process inside the delivery transaction, or None
  pc, job, outcome, attempted,      \* locals of each process's call
  now,
  listed,      \* policy.revoked_grants
  thread,      \* the comments of the return issue, oldest first
  inflight,    \* receipts whose POST may still land
  runs,        \* history: provider executions of each packet
  denied,      \* history: ids a call was refused for with grant_revoked
  crashes

store == <<queued, claim, result, delivery, spent, revoked>>
locals == <<pc, job, outcome, attempted>>
world == <<now, listed, thread, inflight>>
history == <<runs, denied, crashes>>
vars == <<store, writer, locals, world, history>>

Steps == {"idle", "enqueue", "read", "noresult", "claim", "claimed", "run",
          "record", "deliver", "publish", "list", "post", "confirm"}

Init ==
  /\ queued = [p \in Packet |-> None] /\ claim = [p \in Packet |-> None]
  /\ result = [p \in Packet |-> None] /\ delivery = [p \in Packet |-> FALSE]
  /\ spent = {} /\ revoked = {} /\ writer = None
  /\ pc = [s \in Proc |-> "idle"] /\ job = [s \in Proc |-> None]
  /\ outcome = [s \in Proc |-> None] /\ attempted = [s \in Proc |-> FALSE]
  /\ now = 0 /\ listed = {} /\ thread = <<>> /\ inflight = {}
  /\ runs = [p \in Packet |-> 0] /\ denied = {} /\ crashes = 0

-----------------------------------------------------------------------------
(* authorize() *)

\* A standing grant's contents are pinned under its id by its first claim
\* (packet:grant-authority:<id>, recorded in the transaction that spends).
Pinned(id) == {u.grant : u \in {v \in spent : v.grant.standing /\ v.grant.id = id}}

\* The checks of authorize() that precede revocation.  Signature, issuer,
\* catalogue and policy.enabled fail as expiry does and are left to `until`.
Admits(j) ==
  /\ <<j.packet, j.content>> \in j.grant.scope
  /\ now < j.grant.until
  /\ \A g \in Pinned(j.grant.id) : g = j.grant

Unrevoked(j) == j.grant.id \notin listed \cup revoked

Authorized(j) == Admits(j) /\ Unrevoked(j)

Publishable(j) == Authorized(j) /\ j.grant.publish

\* authorize() is about to throw grant_revoked: it first records the revocation
\* of a listed grant (unless the write lock is taken: SQLITE_BUSY instead);
\* inside a transaction the throw rolls that record back.
Refused(j) == Admits(j) /\ ~Unrevoked(j)
Deny(j) == denied' = IF Refused(j) /\ (writer = None \/ j.grant.id \notin listed)
                     THEN denied \cup {j.grant.id} ELSE denied
RevokedBy(j) == IF Admits(j) /\ j.grant.id \in listed /\ writer = None
                THEN revoked \cup {j.grant.id} ELSE revoked

-----------------------------------------------------------------------------
(* consumePacket() *)

At(s, step) == pc[s] = step
Goto(s, step) == pc' = [pc EXCEPT ![s] = step]
\* Mutant of Forget: the slot is freed but its job is kept.
ForgetKeepsJob(s) ==
  pc' = [pc EXCEPT ![s] = "idle"] /\ UNCHANGED <<job, outcome, attempted>>

\* The call of s returns or throws: its locals are gone.
Forget(s) ==
  /\ pc' = [pc EXCEPT ![s] = "idle"] /\ job' = [job EXCEPT ![s] = None]
  /\ outcome' = [outcome EXCEPT ![s] = None]
  /\ attempted' = [attempted EXCEPT ![s] = FALSE]

\* The observation event needs the write lock, then the first check(false).
Begin(s, j) ==
  /\ At(s, "idle") /\ writer = None
  /\ \/ /\ Authorized(j)
        /\ Goto(s, "enqueue") /\ job' = [job EXCEPT ![s] = j]
        /\ UNCHANGED <<outcome, attempted, revoked, denied>>
     \/ /\ Refused(j)
        /\ revoked' = RevokedBy(j) /\ Deny(j) /\ UNCHANGED locals
  /\ UNCHANGED <<queued, claim, result, delivery, spent, writer, world, runs, crashes>>

SameIdentity(s) == queued[job[s].packet] \in {None, job[s].content}

Enqueue(s) ==
  /\ At(s, "enqueue") /\ writer = None
  /\ IF SameIdentity(s)
     THEN /\ queued' = [queued EXCEPT ![job[s].packet] = job[s].content]
          /\ Goto(s, "read") /\ UNCHANGED <<job, outcome, attempted>>
     ELSE Forget(s) /\ UNCHANGED queued          \* packet_identity_conflict
  /\ UNCHANGED <<claim, result, delivery, spent, revoked, writer, world, history>>

\* Mutant of ReadResult: a recorded result is answered without being delivered.
ReadResultNoDelivery(s) ==
  /\ At(s, "read")
  /\ IF result[job[s].packet] # None THEN Forget(s)
     ELSE Goto(s, "noresult") /\ UNCHANGED <<job, outcome, attempted>>
  /\ UNCHANGED <<store, writer, world, history>>

ReadResult(s) ==
  /\ At(s, "read")
  /\ Goto(s, IF result[job[s].packet] # None THEN "deliver" ELSE "noresult")
  /\ UNCHANGED <<job, outcome, attempted, store, writer, world, history>>

\* A claim without a result returns needs_acceptance; a provider that is not
\* available here returns "queued" and spends nothing.
ReadClaim(s) ==
  /\ At(s, "noresult")
  /\ \/ /\ claim[job[s].packet] = None
        /\ Goto(s, "claim") /\ UNCHANGED <<job, outcome, attempted>>
     \/ Forget(s)
  /\ UNCHANGED <<store, writer, world, history>>

Usage(id) == {u \in spent : u.grant.id = id}

\* Mutant of BudgetLeft: off by one in the lifetime budget.
BudgetOffByOne(g) ==
  IF g.standing
  THEN /\ \A u \in Usage(g.id) : u.grant = g /\ now - u.at >= g.gap
       /\ Cardinality(Usage(g.id)) <= g.max
  ELSE \A u \in Usage(g.id) : u.grant.standing

BudgetLeft(g) ==
  IF g.standing
  THEN /\ \A u \in Usage(g.id) : u.grant = g /\ now - u.at >= g.gap
       /\ Cardinality(Usage(g.id)) < g.max
  ELSE \A u \in Usage(g.id) : u.grant.standing

\* Mutant of Unclaimed: the claim is not re-read inside the transaction.
UncheckedClaim(s) == TRUE

Unclaimed(s) == claim[job[s].packet] = None

\* Mutant of CanSpend: authority is not re-checked inside the transaction.
SpendOnOldAuthority(s) == Unclaimed(s) /\ BudgetLeft(job[s].grant)

CanSpend(s) == Authorized(job[s]) /\ Unclaimed(s) /\ BudgetLeft(job[s].grant)

\* BEGIN IMMEDIATE: re-authorize, check the claim and the budget, spend, claim.
Claim(s) ==
  LET p == job[s].packet  g == job[s].grant IN
  /\ At(s, "claim") /\ writer = None
  /\ IF CanSpend(s)
     THEN /\ spent' = spent \cup {[grant |-> g, packet |-> p, at |-> now]}
          /\ claim' = [claim EXCEPT ![p] = [grant |-> g, content |-> job[s].content]]
          /\ Goto(s, "claimed") /\ UNCHANGED <<job, outcome, attempted, denied>>
     ELSE Forget(s) /\ Deny(job[s]) /\ UNCHANGED <<spent, claim>>
  /\ UNCHANGED <<queued, result, delivery, revoked, writer, world, runs, crashes>>

\* Mutant of Recheck: `attempted` is set before the check.
RecheckAttemptedEarly(s) ==
  /\ At(s, "claimed") /\ attempted' = [attempted EXCEPT ![s] = TRUE]
  /\ IF Authorized(job[s])
     THEN Goto(s, "run") /\ UNCHANGED <<outcome, revoked, denied>>
     ELSE /\ Goto(s, "record") /\ outcome' = [outcome EXCEPT ![s] = "failed"]
          /\ revoked' = RevokedBy(job[s]) /\ Deny(job[s])
  /\ UNCHANGED <<job, queued, claim, result, delivery, spent, writer, world, runs, crashes>>

\* check(false) again, immediately before the effect; any error it throws is
\* caught and becomes a failed outcome that was never attempted.
Recheck(s) ==
  /\ At(s, "claimed")
  /\ IF Authorized(job[s])
     THEN /\ Goto(s, "run") /\ attempted' = [attempted EXCEPT ![s] = TRUE]
          /\ UNCHANGED <<outcome, revoked, denied>>
     ELSE /\ Goto(s, "record") /\ outcome' = [outcome EXCEPT ![s] = "failed"]
          /\ revoked' = RevokedBy(job[s]) /\ Deny(job[s]) /\ UNCHANGED attempted
  /\ UNCHANGED <<job, queued, claim, result, delivery, spent, writer, world, runs, crashes>>

Run(s) ==
  /\ At(s, "run")
  /\ runs' = [runs EXCEPT ![job[s].packet] = @ + 1]
  /\ \E o \in Outcome : outcome' = [outcome EXCEPT ![s] = o]
  /\ Goto(s, "record")
  /\ UNCHANGED <<job, attempted, store, writer, world, denied, crashes>>

RecordResult(s) ==
  LET p == job[s].packet IN
  /\ At(s, "record") /\ writer = None
  /\ result' = IF result[p] # None THEN result
               ELSE [result EXCEPT ![p] = [status |-> outcome[s], attempted |-> attempted[s]]]
  /\ Goto(s, "deliver")
  /\ UNCHANGED <<job, outcome, attempted, queued, claim, delivery, spent, revoked,
                 writer, world, history>>

\* A write that waits busy_timeout behind a delivery transaction throws
\* SQLITE_BUSY and the call ends; after the effect, its outcome is lost.
Busy(s) ==
  /\ pc[s] \in {"enqueue", "claim", "record", "publish"}
  /\ writer # None
  /\ Forget(s)
  /\ UNCHANGED <<store, writer, world, history>>

\* delivered already: replay; else check(true) outside the transaction.
ReadDelivery(s) ==
  /\ At(s, "deliver")
  /\ IF ~delivery[job[s].packet] /\ Publishable(job[s])
     THEN Goto(s, "publish") /\ UNCHANGED <<job, outcome, attempted, revoked, denied>>
     ELSE /\ Forget(s)
          /\ IF delivery[job[s].packet] THEN UNCHANGED <<revoked, denied>>
             ELSE revoked' = RevokedBy(job[s]) /\ Deny(job[s])
  /\ UNCHANGED <<queued, claim, result, delivery, spent, writer, world, runs, crashes>>

MayPublish(s) == Publishable(job[s]) /\ ~delivery[job[s].packet]

\* BEGIN IMMEDIATE and check(true) again; the transaction stays open across
\* the publisher's network calls, so `writer` holds the database meanwhile.
BeginDelivery(s) ==
  /\ At(s, "publish") /\ writer = None
  /\ IF MayPublish(s)
     THEN Goto(s, "list") /\ writer' = s /\ UNCHANGED <<job, outcome, attempted, denied>>
     ELSE Forget(s) /\ Deny(job[s]) /\ UNCHANGED writer
  /\ UNCHANGED <<store, world, runs, crashes>>

-----------------------------------------------------------------------------
(* publishPacketReceipt(), inside the delivery transaction of s *)

Page == SubSeq(thread, 1, IF Len(thread) < Window THEN Len(thread) ELSE Window)
Prior(p) == \E i \in DOMAIN Page : Page[i] = p
\* Mutant of PageFull: a full page is posted to all the same.
PageNeverFull == FALSE
PageFull == Len(thread) >= Window

Rollback(s) == Forget(s) /\ writer' = None

\* Look for the exact body in the first page; refuse to POST on a full page.
ListComments(s) ==
  /\ At(s, "list")
  /\ \/ Prior(job[s].packet) /\ Goto(s, "confirm") /\ UNCHANGED <<job, outcome, attempted, writer>>
     \/ ~Prior(job[s].packet) /\ ~PageFull /\ Goto(s, "post")
        /\ UNCHANGED <<job, outcome, attempted, writer>>
     \/ Rollback(s)                   \* gh fails, or the page is full
  /\ UNCHANGED <<store, world, history>>

\* POST: answered; applied but the answer lost; or not applied, where a
\* killed gh may leave the request on its way.
Post(s) ==
  LET p == job[s].packet IN
  /\ At(s, "post")
  /\ \/ /\ thread' = Append(thread, p) /\ UNCHANGED inflight
        /\ \/ Goto(s, "confirm") /\ UNCHANGED <<job, outcome, attempted, writer>>
           \/ Rollback(s)
     \/ /\ Rollback(s) /\ UNCHANGED thread
        /\ \/ UNCHANGED inflight
           \/ LatePosts /\ inflight' = inflight \cup {p}
  /\ UNCHANGED <<store, now, listed, history>>

\* Read the comment back; only a verified one is recorded, then COMMIT.
Confirm(s) ==
  /\ At(s, "confirm") /\ Rollback(s)
  /\ \/ delivery' = [delivery EXCEPT ![job[s].packet] = TRUE]
     \/ UNCHANGED delivery
  /\ UNCHANGED <<queued, claim, result, spent, revoked, world, history>>

-----------------------------------------------------------------------------
(* The environment *)

Crash(s) ==
  /\ ~At(s, "idle") /\ crashes < MaxCrashes /\ crashes' = crashes + 1
  /\ Forget(s) /\ writer' = IF writer = s THEN None ELSE writer
  /\ UNCHANGED <<store, world, runs, denied>>

Tick == /\ now < MaxTime /\ now' = now + 1
        /\ UNCHANGED <<store, writer, locals, listed, thread, inflight, history>>

\* The operator edits policy.revoked_grants in either direction.
EditPolicy(id) ==
  /\ id \in Revocable
  /\ listed' = IF id \in listed THEN listed \ {id} ELSE listed \cup {id}
  /\ UNCHANGED <<store, writer, locals, now, thread, inflight, history>>

Others == Cardinality({i \in DOMAIN thread : thread[i] = Other})
Comment ==
  /\ Others < MaxOthers /\ thread' = Append(thread, Other)
  /\ UNCHANGED <<store, writer, locals, now, listed, inflight, history>>

LandLate(p) ==
  /\ p \in inflight /\ inflight' = inflight \ {p} /\ thread' = Append(thread, p)
  /\ UNCHANGED <<store, writer, locals, now, listed, history>>

\* What a call does by itself once it has begun.
Continue(s) ==
  \/ Enqueue(s) \/ ReadResult(s) \/ ReadClaim(s) \/ Claim(s) \/ Recheck(s) \/ Run(s)
  \/ RecordResult(s) \/ Busy(s) \/ ReadDelivery(s) \/ BeginDelivery(s)
  \/ ListComments(s) \/ Post(s) \/ Confirm(s)

Step(s) == (\E j \in Job : Begin(s, j)) \/ Continue(s) \/ Crash(s)

Environment ==
  \/ Tick \/ Comment
  \/ \E id \in GrantId : EditPolicy(id)
  \/ \E p \in Packet : LandLate(p)

Next == (\E s \in Proc : Step(s)) \/ Environment

Spec == Init /\ [][Next]_vars

\* Fairness: a live process finishes its call; the ONA scheduler runs the tick
\* again and again, so each packet's call begins again as often as it can; a
\* packet's delivery does not lose the write lock, nor GitHub fail it, forever.
Serving(s, p, A) == job[s] # None /\ job[s].packet = p /\ A
DeliverySucceeds(s) ==
  \/ BeginDelivery(s)
  \/ pc[s] \in {"list", "post"} /\ (ListComments(s) \/ Post(s)) /\ pc'[s] # "idle"
  \/ Confirm(s) /\ delivery' # delivery
Fairness ==
  /\ \A s \in Proc : WF_vars(Continue(s))
  /\ \A p \in Packet :
       /\ SF_vars(\E s \in Proc, j \in Job : j.packet = p /\ Begin(s, j))
       /\ \A step \in {"publish", "list", "post", "confirm"} :
            SF_vars(\E s \in Proc : Serving(s, p, At(s, step) /\ DeliverySucceeds(s)))

FairSpec == Spec /\ Fairness
-----------------------------------------------------------------------------
(* Properties *)

Owners(p) == {s \in Proc : pc[s] \in {"claimed", "run", "record"} /\ job[s].packet = p}

\* Every variable has its type, and a call has a job exactly while it runs.
TypeOK ==
  /\ queued \in [Packet -> Content \cup {None}]
  /\ claim \in [Packet -> [grant : Grant, content : Content] \cup {None}]
  /\ result \in [Packet -> [status : Outcome, attempted : BOOLEAN] \cup {None}]
  /\ delivery \in [Packet -> BOOLEAN]
  /\ spent \subseteq [grant : Grant, packet : Packet, at : Nat]
  /\ revoked \subseteq GrantId /\ writer \in Proc \cup {None}
  /\ pc \in [Proc -> Steps] /\ job \in [Proc -> Job \cup {None}]
  /\ \A s \in Proc : job[s] = None <=> pc[s] = "idle"
  /\ outcome \in [Proc -> Outcome \cup {None}] /\ attempted \in [Proc -> BOOLEAN]
  /\ now \in Nat /\ listed \subseteq GrantId
  /\ thread \in Seq(Packet \cup {Other}) /\ inflight \subseteq Packet
  /\ runs \in [Packet -> Nat] /\ denied \subseteq GrantId /\ crashes \in Nat

\* No packet's provider runs twice, whatever the interleaving of competing
\* processes and crashes ("execute only once", test-packet-consumer.js:218).
AtMostOneRun == \A p \in Packet : runs[p] <= 1

\* A receipt says `attempted` exactly when the provider was started, and a
\* packet nobody claimed has neither run nor been recorded.
ReceiptHonest ==
  \A p \in Packet :
    /\ result[p] # None => (result[p].attempted <=> runs[p] > 0)
    /\ claim[p] = None => result[p] = None /\ runs[p] = 0

\* All executions charged to one grant id stay within the budget of every
\* grant signed under that id that was ever used.
BudgetHeld ==
  \A u \in spent : Cardinality(Usage(u.grant.id)) <= u.grant.max

\* Executions under one standing grant id are at least its interval apart,
\* across all packets and processes.
RateHeld ==
  \A u, v \in spent :
    u.grant.standing /\ u.grant.id = v.grant.id /\ u # v
      => u.at - v.at >= u.grant.gap \/ v.at - u.at >= u.grant.gap

\* Claims and spends are two halves of one transaction: each claimed packet was
\* paid for once, by the grant of its claim, for the content it was queued with.
ClaimPaidOnce ==
  /\ \A p \in Packet : claim[p] # None =>
       /\ claim[p].content = queued[p]
       /\ {u.grant : u \in {v \in spent : v.packet = p}} = {claim[p].grant}
  /\ \A u \in spent : claim[u.packet] # None

\* An orphan (claimed, no result, no process left that executes it) is never
\* given an outcome later: no lease expires and no retry re-executes it.
Orphan(p) == claim[p] # None /\ result[p] = None /\ Owners(p) = {}
OrphanStaysOrphan == [][\A p \in Packet : Orphan(p) => Orphan(p)']_vars

\* Once a revocation is recorded, no process spends on that grant id again, even
\* one that had already been authorized.
RevocationStopsSpending ==
  [][\A u \in spent' \ spent : u.grant.id \notin revoked]_vars

\* Once a revocation is recorded, no delivery is started or posted on that grant
\* id: its recorder and the delivery transaction exclude each other.
RevocationStopsPublishing ==
  [][\A s \in Proc : pc[s] \in {"publish", "list", "post"} /\ pc'[s] \in {"list", "post", "confirm"}
       => job[s].grant.id \notin revoked]_vars

\* The return issue carries a receipt at most once, and once when it is recorded
\* as delivered: retries after a lost answer or a crash find the first comment.
Copies(p) == Cardinality({i \in DOMAIN thread : thread[i] = p})
ReceiptOnce == \A p \in Packet : Copies(p) <= 1 /\ (delivery[p] => Copies(p) = 1)

\* A recorded result is eventually returned, or the issue outgrows the
\* reconciliation window and delivery fails closed.
ReceiptReturned ==
  \A p \in Packet : result[p] # None ~> (delivery[p] \/ PageFull)

\* Once a call was refused with grant_revoked, nothing is spent on that id again:
\* "Revoked grant IDs persist as COP events and cannot be un-revoked merely by
\* removing them from the policy list" (docs/github-packet-consumer.md:101-102).
RefusalIsFinal == [][\A u \in spent' \ spent : u.grant.id \notin denied]_vars

\* The store implements AuthorizedEffect.
Phase(p) == CASE delivery[p] -> "delivered"
              [] ~delivery[p] /\ result[p] # None -> "recorded"
              [] result[p] = None /\ runs[p] > 0 -> "effected"
              [] result[p] = None /\ runs[p] = 0 /\ claim[p] # None -> "claimed"
              [] OTHER -> "open"
Abstract == INSTANCE AuthorizedEffect WITH
  phase <- [p \in Packet |-> Phase(p)], effects <- runs,
  payer <- [id \in GrantId |-> {u.packet : u \in Usage(id)}],
  Limit <- [id \in GrantId |-> {g.max : g \in {h \in Grant : h.id = id}}]

\* Every step of the consumer is a step of AuthorizedEffect or leaves it alone:
\* one effect, one record and one return per packet, within a budget.
ImplementsAuthorizedEffect == Abstract!Spec
=============================================================================
