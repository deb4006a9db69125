------------------------ MODULE PacketConsumerProofs ------------------------
(***************************************************************************)
(* Proofs about PacketConsumer for every number of processes, packets,     *)
(* contents and grants, and for every bound of the environment.            *)
(***************************************************************************)
EXTENDS PacketConsumer, FiniteSetTheorems, TLAPS

-----------------------------------------------------------------------------
(* Types.  A process about to record a result has an outcome to record.    *)

LocalsOK ==
  /\ pc \in [Proc -> Steps] /\ job \in [Proc -> Job \cup {None}]
  /\ outcome \in [Proc -> Outcome \cup {None}] /\ attempted \in [Proc -> BOOLEAN]
  /\ \A s \in Proc : job[s] = None <=> pc[s] = "idle"
  /\ \A s \in Proc : pc[s] = "record" => outcome[s] \in Outcome

StoreOK ==
  /\ queued \in [Packet -> Content \cup {None}]
  /\ claim \in [Packet -> [grant : Grant, content : Content] \cup {None}]
  /\ result \in [Packet -> [status : Outcome, attempted : BOOLEAN] \cup {None}]
  /\ delivery \in [Packet -> BOOLEAN]
  /\ spent \subseteq [grant : Grant, packet : Packet, at : Nat]
  /\ revoked \subseteq GrantId

WorldOK ==
  /\ writer \in Proc \cup {None} /\ now \in Nat /\ listed \subseteq GrantId
  /\ thread \in Seq(Packet \cup {Other}) /\ inflight \subseteq Packet
  /\ runs \in [Packet -> Nat] /\ denied \subseteq GrantId /\ crashes \in Nat

TypeInv == LocalsOK /\ StoreOK /\ WorldOK

LEMMA TypeInit == Init => TypeInv
  BY ConstantsAssumption
  DEF Init, TypeInv, LocalsOK, StoreOK, WorldOK, Steps

LEMMA TypeInvTypeOK == TypeInv => TypeOK
  BY DEF TypeInv, LocalsOK, StoreOK, WorldOK, TypeOK

\* A running call has a job whose parts have their types.
LEMMA JobParts ==
  ASSUME LocalsOK, NEW s \in Proc, pc[s] # "idle"
  PROVE  /\ job[s] \in Job /\ job[s].packet \in Packet
         /\ job[s].content \in Content /\ job[s].grant \in Grant
         /\ job[s].grant.id \in GrantId
  BY GrantAssumption DEF LocalsOK, Job

\* Returning from a call, or moving on to a step other than recording, keeps
\* the types of the locals.
LEMMA ForgetLocals ==
  ASSUME LocalsOK, NEW s \in Proc, Forget(s)
  PROVE  LocalsOK'
  BY ConstantsAssumption DEF LocalsOK, Forget, Steps

LEMMA GotoLocals ==
  ASSUME LocalsOK, NEW s \in Proc, NEW step \in Steps \ {"idle", "record"},
         pc[s] # "idle", Goto(s, step), UNCHANGED <<job, outcome, attempted>>
  PROVE  LocalsOK'
  BY DEF LocalsOK, Goto, Steps

LEMMA DenyType ==
  ASSUME WorldOK, NEW j \in Job, Deny(j)
  PROVE  denied' \subseteq GrantId
  BY GrantAssumption DEF Deny, Job, WorldOK

LEMMA RevokedByType ==
  ASSUME StoreOK, NEW j \in Job
  PROVE  RevokedBy(j) \subseteq GrantId
  BY GrantAssumption DEF RevokedBy, Job, StoreOK

\* Every step keeps the types, and only Recheck and Run lead to "record".
LEMMA TypeStep == TypeInv /\ [Next]_vars => TypeInv'
  <1> SUFFICES ASSUME LocalsOK, StoreOK, WorldOK, [Next]_vars PROVE TypeInv'
    BY DEF TypeInv
  <1> USE DEF TypeInv, At
  <1>1. ASSUME NEW s \in Proc, NEW j \in Job, Begin(s, j) PROVE TypeInv'
    <2>1. LocalsOK'
      <3>1. j # None
        BY ConstantsAssumption
      <3>2. CASE Goto(s, "enqueue") /\ job' = [job EXCEPT ![s] = j] /\ UNCHANGED <<outcome, attempted>>
        BY <1>1, <3>1, <3>2 DEF LocalsOK, Goto, Steps
      <3>3. CASE UNCHANGED locals
        BY <3>3 DEF LocalsOK, locals
      <3> QED
        BY <1>1, <3>2, <3>3 DEF Begin
    <2>2. StoreOK'
      BY <1>1, RevokedByType DEF Begin, StoreOK
    <2>3. WorldOK'
      BY <1>1, DenyType DEF Begin, WorldOK, world
    <2> QED
      BY <2>1, <2>2, <2>3
  <1>2. ASSUME NEW s \in Proc, Enqueue(s) PROVE TypeInv'
    <2>1. LocalsOK'
      BY <1>2, ForgetLocals, GotoLocals DEF Enqueue, Steps
    <2>2. StoreOK'
      BY <1>2, JobParts DEF Enqueue, StoreOK
    <2>3. WorldOK'
      BY <1>2 DEF Enqueue, WorldOK, world, history
    <2> QED
      BY <2>1, <2>2, <2>3
  <1>3. ASSUME NEW s \in Proc, ReadResult(s) PROVE TypeInv'
    <2>1. LocalsOK'
      BY <1>3, GotoLocals DEF ReadResult, Steps
    <2>2. StoreOK'
      BY <1>3 DEF ReadResult, StoreOK, store
    <2>3. WorldOK'
      BY <1>3 DEF ReadResult, WorldOK, world, history
    <2> QED
      BY <2>1, <2>2, <2>3
  <1>4. ASSUME NEW s \in Proc, ReadClaim(s) PROVE TypeInv'
    <2>1. LocalsOK'
      BY <1>4, ForgetLocals, GotoLocals DEF ReadClaim, Steps
    <2>2. StoreOK'
      BY <1>4 DEF ReadClaim, StoreOK, store
    <2>3. WorldOK'
      BY <1>4 DEF ReadClaim, WorldOK, world, history
    <2> QED
      BY <2>1, <2>2, <2>3
  <1>5. ASSUME NEW s \in Proc, Claim(s) PROVE TypeInv'
    <2>1. LocalsOK'
      BY <1>5, ForgetLocals, GotoLocals DEF Claim, Steps
    <2>2. StoreOK'
      <3>1. CASE UNCHANGED <<spent, claim>>
        BY <1>5, <3>1 DEF Claim, StoreOK
      <3>2. CASE CanSpend(s)
        <4> DEFINE p == job[s].packet  g == job[s].grant  c == job[s].content
        <4>1. p \in Packet /\ g \in Grant /\ c \in Content /\ now \in Nat
          BY <1>5, JobParts DEF Claim, WorldOK
        <4>2. [grant |-> g, packet |-> p, at |-> now] \in [grant : Grant, packet : Packet, at : Nat]
          BY <4>1
        <4>3. [grant |-> g, content |-> c] \in [grant : Grant, content : Content]
          BY <4>1
        <4>4. /\ spent' = spent \cup {[grant |-> g, packet |-> p, at |-> now]}
              /\ claim' = [claim EXCEPT ![p] = [grant |-> g, content |-> c]]
              /\ UNCHANGED <<queued, result, delivery, revoked>>
          BY <1>5, <3>2 DEF Claim
        <4> HIDE DEF p, g, c
        <4> QED
          BY <4>1, <4>2, <4>3, <4>4 DEF StoreOK
      <3> QED
        BY <1>5, <3>1, <3>2 DEF Claim
    <2>3. WorldOK'
      BY <1>5, JobParts, DenyType DEF Claim, WorldOK, world
    <2> QED
      BY <2>1, <2>2, <2>3
  <1>6. ASSUME NEW s \in Proc, Recheck(s) PROVE TypeInv'
    <2>1. LocalsOK'
      <3>1. CASE Authorized(job[s])
        BY <1>6, <3>1 DEF Recheck, LocalsOK, Goto, Steps
      <3>2. CASE ~Authorized(job[s])
        BY <1>6, <3>2, ConstantsAssumption DEF Recheck, LocalsOK, Goto, Steps
      <3> QED
        BY <3>1, <3>2
    <2>2. StoreOK'
      BY <1>6, JobParts, RevokedByType DEF Recheck, StoreOK
    <2>3. WorldOK'
      BY <1>6, JobParts, DenyType DEF Recheck, WorldOK, world
    <2> QED
      BY <2>1, <2>2, <2>3
  <1>7. ASSUME NEW s \in Proc, Run(s) PROVE TypeInv'
    <2>1. LocalsOK'
      BY <1>7 DEF Run, LocalsOK, Goto, Steps
    <2>2. StoreOK'
      BY <1>7 DEF Run, StoreOK, store
    <2>3. WorldOK'
      BY <1>7, JobParts DEF Run, WorldOK, world
    <2> QED
      BY <2>1, <2>2, <2>3
  <1>8. ASSUME NEW s \in Proc, RecordResult(s) PROVE TypeInv'
    <2>1. LocalsOK'
      BY <1>8, GotoLocals DEF RecordResult, Steps
    <2>2. StoreOK'
      BY <1>8, JobParts DEF RecordResult, StoreOK, LocalsOK
    <2>3. WorldOK'
      BY <1>8 DEF RecordResult, WorldOK, world, history
    <2> QED
      BY <2>1, <2>2, <2>3
  <1>9. ASSUME NEW s \in Proc, Busy(s) PROVE TypeInv'
    <2>1. LocalsOK'
      BY <1>9, ForgetLocals DEF Busy
    <2>2. StoreOK'
      BY <1>9 DEF Busy, StoreOK, store
    <2>3. WorldOK'
      BY <1>9 DEF Busy, WorldOK, world, history
    <2> QED
      BY <2>1, <2>2, <2>3
  <1>10. ASSUME NEW s \in Proc, ReadDelivery(s) PROVE TypeInv'
    <2>1. LocalsOK'
      BY <1>10, ForgetLocals, GotoLocals DEF ReadDelivery, Steps
    <2>2. StoreOK'
      BY <1>10, JobParts, RevokedByType DEF ReadDelivery, StoreOK
    <2>3. WorldOK'
      BY <1>10, JobParts, DenyType DEF ReadDelivery, WorldOK, world
    <2> QED
      BY <2>1, <2>2, <2>3
  <1>11. ASSUME NEW s \in Proc, BeginDelivery(s) PROVE TypeInv'
    <2>1. LocalsOK'
      BY <1>11, ForgetLocals, GotoLocals DEF BeginDelivery, Steps
    <2>2. StoreOK'
      BY <1>11 DEF BeginDelivery, StoreOK, store
    <2>3. WorldOK'
      BY <1>11, JobParts, DenyType DEF BeginDelivery, WorldOK, world
    <2> QED
      BY <2>1, <2>2, <2>3
  <1>12. ASSUME NEW s \in Proc, ListComments(s) PROVE TypeInv'
    <2>1. LocalsOK'
      BY <1>12, ForgetLocals, GotoLocals DEF ListComments, Rollback, Steps
    <2>2. StoreOK'
      BY <1>12 DEF ListComments, StoreOK, store
    <2>3. WorldOK'
      BY <1>12 DEF ListComments, Rollback, WorldOK, world, history
    <2> QED
      BY <2>1, <2>2, <2>3
  <1>13. ASSUME NEW s \in Proc, Post(s) PROVE TypeInv'
    <2>1. LocalsOK'
      BY <1>13, ForgetLocals, GotoLocals DEF Post, Rollback, Steps
    <2>2. StoreOK'
      BY <1>13 DEF Post, StoreOK, store
    <2>3. WorldOK'
      BY <1>13, JobParts DEF Post, Rollback, WorldOK, history
    <2> QED
      BY <2>1, <2>2, <2>3
  <1>14. ASSUME NEW s \in Proc, Confirm(s) PROVE TypeInv'
    <2>1. LocalsOK'
      BY <1>14, ForgetLocals DEF Confirm, Rollback
    <2>2. StoreOK'
      BY <1>14, JobParts DEF Confirm, StoreOK
    <2>3. WorldOK'
      BY <1>14 DEF Confirm, Rollback, WorldOK, world, history
    <2> QED
      BY <2>1, <2>2, <2>3
  <1>15. ASSUME NEW s \in Proc, Crash(s) PROVE TypeInv'
    <2>1. LocalsOK'
      BY <1>15, ForgetLocals DEF Crash
    <2>2. StoreOK'
      BY <1>15 DEF Crash, StoreOK, store
    <2>3. WorldOK'
      BY <1>15 DEF Crash, WorldOK, world
    <2> QED
      BY <2>1, <2>2, <2>3
  <1>16. CASE Environment
    <2>1. LocalsOK'
      BY <1>16 DEF Environment, Tick, Comment, EditPolicy, LandLate, LocalsOK, locals
    <2>2. StoreOK'
      BY <1>16 DEF Environment, Tick, Comment, EditPolicy, LandLate, StoreOK, store
    <2>3. WorldOK'
      <3>1. ASSUME NEW id \in GrantId, EditPolicy(id) PROVE WorldOK'
        BY <3>1 DEF EditPolicy, WorldOK, history
      <3>2. ASSUME NEW p \in Packet, LandLate(p) PROVE WorldOK'
        BY <3>2 DEF LandLate, WorldOK, history
      <3>3. CASE Tick
        BY <3>3 DEF Tick, WorldOK, history
      <3>4. CASE Comment
        BY <3>4 DEF Comment, WorldOK, history
      <3> QED
        BY <1>16, <3>1, <3>2, <3>3, <3>4 DEF Environment
    <2> QED
      BY <2>1, <2>2, <2>3
  <1>17. CASE UNCHANGED vars
    BY <1>17 DEF vars, store, locals, world, history, LocalsOK, StoreOK, WorldOK
  <1> QED
    BY <1>1, <1>2, <1>3, <1>4, <1>5, <1>6, <1>7, <1>8, <1>9, <1>10, <1>11, <1>12, <1>13, <1>14, <1>15, <1>16, <1>17
    DEF Next, Step, Continue

\* Every variable has its type in every reachable state of every instance.
THEOREM Typing == Spec => []TypeOK
  <1>1. Spec => []TypeInv
    BY TypeInit, TypeStep, PTL DEF Spec
  <1> QED
    BY <1>1, TypeInvTypeOK, PTL
-----------------------------------------------------------------------------
(* At most one run.  AtMostOneRun and ReceiptHonest are not inductive: they *)
(* rest on the claim having one executing owner until its result is stored. *)

Executing(s) == pc[s] \in {"claimed", "run", "record"}
Early == {"idle", "enqueue", "read", "noresult", "claim", "claimed"}

OneOwner ==
  /\ \A s \in Proc : Executing(s) => claim[job[s].packet] # None /\ result[job[s].packet] = None
  /\ \A s, t \in Proc :
       Executing(s) /\ Executing(t) /\ job[s].packet = job[t].packet => s = t

RunsTold ==
  /\ \A s \in Proc : pc[s] \in {"claimed", "run"} => runs[job[s].packet] = 0
  /\ \A s \in Proc : pc[s] \in Early => attempted[s] = FALSE
  /\ \A s \in Proc : pc[s] = "run" => attempted[s] = TRUE
  /\ \A s \in Proc : pc[s] = "record" => (attempted[s] <=> runs[job[s].packet] > 0)

OnceInv == OneOwner /\ RunsTold /\ ReceiptHonest /\ AtMostOneRun

LEMMA OnceInit == Init => OnceInv
  BY DEF Init, OnceInv, OneOwner, RunsTold, ReceiptHonest, AtMostOneRun, Executing, Early

\* A call that returns, or moves on outside claiming and executing, cannot
\* disturb the owners.
LEMMA OnceForget ==
  ASSUME LocalsOK, OnceInv, NEW s \in Proc, Forget(s), UNCHANGED <<claim, result, runs>>
  PROVE  OnceInv'
  BY DEF LocalsOK, OnceInv, OneOwner, RunsTold, ReceiptHonest, AtMostOneRun, Executing, Early,
         Forget

LEMMA OnceGoto ==
  ASSUME LocalsOK, OnceInv, NEW s \in Proc, NEW step \in Steps,
         step \notin {"idle", "claimed", "run", "record"}, step \in Early => pc[s] \in Early,
         Goto(s, step), UNCHANGED <<job, attempted, claim, result, runs>>
  PROVE  OnceInv'
  BY DEF LocalsOK, OnceInv, OneOwner, RunsTold, ReceiptHonest, AtMostOneRun, Executing, Early,
         Goto

LEMMA OnceStep == TypeInv /\ OnceInv /\ [Next]_vars => OnceInv'
  <1> SUFFICES ASSUME LocalsOK, StoreOK, WorldOK, OnceInv, [Next]_vars PROVE OnceInv'
    BY DEF TypeInv
  <1> USE DEF At
  <1>1. ASSUME NEW s \in Proc, NEW j \in Job, Begin(s, j) PROVE OnceInv'
    BY <1>1 DEF Begin, Goto, locals, LocalsOK, OnceInv, OneOwner, RunsTold, ReceiptHonest,
                AtMostOneRun, Executing, Early
  <1>2. ASSUME NEW s \in Proc, Enqueue(s) PROVE OnceInv'
    BY <1>2, OnceForget, OnceGoto DEF Enqueue, history, Steps, Early
  <1>3. ASSUME NEW s \in Proc, ReadResult(s) PROVE OnceInv'
    BY <1>3, OnceGoto DEF ReadResult, store, history, Steps, Early
  <1>4. ASSUME NEW s \in Proc, ReadClaim(s) PROVE OnceInv'
    BY <1>4, OnceForget, OnceGoto DEF ReadClaim, store, history, Steps, Early
  <1>5. ASSUME NEW s \in Proc, Claim(s) PROVE OnceInv'
    <2>1. CASE ~CanSpend(s)
      BY <1>5, <2>1, OnceForget DEF Claim
    <2>2. CASE CanSpend(s)
      <3> DEFINE p == job[s].packet
                 new == [grant |-> job[s].grant, content |-> job[s].content]
      <3>1. p \in Packet /\ new # None /\ claim[p] = None
        BY <1>5, <2>2, JobParts, ConstantsAssumption DEF Claim, CanSpend, Unclaimed
      <3>2. /\ claim' = [claim EXCEPT ![p] = new] /\ pc' = [pc EXCEPT ![s] = "claimed"]
            /\ UNCHANGED <<job, attempted, result, runs>> /\ pc[s] = "claim"
        BY <1>5, <2>2 DEF Claim, Goto
      <3>3. runs[p] = 0 /\ result[p] = None
        BY <3>1 DEF OnceInv, ReceiptHonest
      <3> HIDE DEF p, new
      <3>4. p = job[s].packet
        BY DEF p
      <3> QED
        BY <3>1, <3>2, <3>3, <3>4
        DEF LocalsOK, StoreOK, OnceInv, OneOwner, RunsTold, ReceiptHonest, AtMostOneRun,
            Executing, Early
    <2> QED
      BY <2>1, <2>2
  <1>6. ASSUME NEW s \in Proc, Recheck(s) PROVE OnceInv'
    BY <1>6 DEF Recheck, Goto, LocalsOK, WorldOK, OnceInv, OneOwner, RunsTold, ReceiptHonest,
                AtMostOneRun, Executing, Early
  <1>7. ASSUME NEW s \in Proc, Run(s) PROVE OnceInv'
    <2>1. job[s].packet \in Packet
      BY <1>7, JobParts DEF Run
    <2> QED
      BY <1>7, <2>1 DEF Run, Goto, store, LocalsOK, StoreOK, WorldOK, OnceInv, OneOwner,
                        RunsTold, ReceiptHonest, AtMostOneRun, Executing, Early
  <1>8. ASSUME NEW s \in Proc, RecordResult(s) PROVE OnceInv'
    <2> DEFINE p == job[s].packet
               new == [status |-> outcome[s], attempted |-> attempted[s]]
    <2>1. p \in Packet /\ result[p] = None /\ claim[p] # None /\ pc[s] = "record"
      BY <1>8, JobParts DEF RecordResult, OnceInv, OneOwner, Executing
    <2>2. /\ result' = [result EXCEPT ![p] = new] /\ pc' = [pc EXCEPT ![s] = "deliver"]
          /\ UNCHANGED <<job, attempted, claim, runs>>
      BY <1>8, <2>1 DEF RecordResult, Goto, history
    <2>3. new.attempted <=> runs[p] > 0
      BY <2>1 DEF OnceInv, RunsTold
    <2> HIDE DEF p, new
    <2>4. p = job[s].packet
      BY DEF p
    <2> QED
      BY <2>1, <2>2, <2>3, <2>4
      DEF LocalsOK, StoreOK, OnceInv, OneOwner, RunsTold, ReceiptHonest, AtMostOneRun,
          Executing, Early
  <1>9. ASSUME NEW s \in Proc, Busy(s) PROVE OnceInv'
    BY <1>9, OnceForget DEF Busy, store, history
  <1>10. ASSUME NEW s \in Proc, ReadDelivery(s) PROVE OnceInv'
    BY <1>10, OnceForget, OnceGoto DEF ReadDelivery, Steps, Early
  <1>11. ASSUME NEW s \in Proc, BeginDelivery(s) PROVE OnceInv'
    BY <1>11, OnceForget, OnceGoto DEF BeginDelivery, store, Steps, Early
  <1>12. ASSUME NEW s \in Proc, ListComments(s) PROVE OnceInv'
    BY <1>12, OnceForget, OnceGoto DEF ListComments, Rollback, store, history, Steps, Early
  <1>13. ASSUME NEW s \in Proc, Post(s) PROVE OnceInv'
    BY <1>13, OnceForget, OnceGoto DEF Post, Rollback, store, history, Steps, Early
  <1>14. ASSUME NEW s \in Proc, Confirm(s) PROVE OnceInv'
    BY <1>14, OnceForget DEF Confirm, Rollback, history
  <1>15. ASSUME NEW s \in Proc, Crash(s) PROVE OnceInv'
    BY <1>15, OnceForget DEF Crash, store
  <1>16. CASE Environment \/ UNCHANGED vars
    BY <1>16 DEF Environment, Tick, Comment, EditPolicy, LandLate, vars, store, locals, history,
                 OnceInv, OneOwner, RunsTold, ReceiptHonest, AtMostOneRun, Executing
  <1> QED
    BY <1>1, <1>2, <1>3, <1>4, <1>5, <1>6, <1>7, <1>8, <1>9, <1>10, <1>11, <1>12, <1>13,
       <1>14, <1>15, <1>16 DEF Next, Step, Continue

\* However many processes compete and crash, no packet's provider runs twice.
THEOREM AtMostOnce == Spec => []AtMostOneRun
  <1>1. Spec => [](TypeInv /\ OnceInv)
    BY TypeInit, TypeStep, OnceInit, OnceStep, PTL DEF Spec
  <1>2. OnceInv => AtMostOneRun
    BY DEF OnceInv
  <1> QED
    BY <1>1, <1>2, PTL

\* A stored receipt tells truthfully whether the provider was started.
THEOREM HonestReceipts == Spec => []ReceiptHonest
  <1>1. Spec => [](TypeInv /\ OnceInv)
    BY TypeInit, TypeStep, OnceInit, OnceStep, PTL DEF Spec
  <1>2. OnceInv => ReceiptHonest
    BY DEF OnceInv
  <1> QED
    BY <1>1, <1>2, PTL
-----------------------------------------------------------------------------
(* Action properties *)

\* Only Claim adds to `spent`, and only under an unrevoked grant.
LEMMA OnlyClaimSpends ==
  ASSUME NEW s \in Proc, Step(s), spent' # spent
  PROVE  Claim(s) /\ CanSpend(s)
  BY DEF Step, Continue, Begin, Enqueue, ReadResult, ReadClaim, Claim, Recheck, Run, RecordResult,
         Busy, ReadDelivery, BeginDelivery, ListComments, Post, Confirm, Crash, store

\* A recorded revocation stops every later spend on its grant id, also of calls
\* that were authorized before it was recorded.
THEOREM RevokedNeverSpent == Spec => RevocationStopsSpending
  <1>1. ASSUME [Next]_vars, NEW u \in spent' \ spent PROVE u.grant.id \notin revoked
    <2>1. PICK s \in Proc : Step(s)
      BY <1>1 DEF Next, Environment, Tick, Comment, EditPolicy, LandLate, vars, store
    <2>2. Claim(s) /\ CanSpend(s)
      BY <1>1, <2>1, OnlyClaimSpends
    <2>3. u = [grant |-> job[s].grant, packet |-> job[s].packet, at |-> now]
      BY <1>1, <2>2 DEF Claim
    <2> QED
      BY <2>2, <2>3 DEF CanSpend, Authorized, Unrevoked
  <1>2. [Next]_vars => [\A u \in spent' \ spent : u.grant.id \notin revoked]_vars
    BY <1>1
  <1> QED
    BY <1>2, PTL DEF Spec, RevocationStopsSpending

\* A claimed packet without an owner neither gets a result nor a new owner.
THEOREM OrphansAreFinal == Spec => OrphanStaysOrphan
  <1>1. ASSUME TypeInv, [Next]_vars, NEW p \in Packet, Orphan(p) PROVE Orphan(p)'
    <2> SUFFICES ASSUME NEW s \in Proc, Step(s) PROVE Orphan(p)'
      BY <1>1 DEF Next, Environment, Tick, Comment, EditPolicy, LandLate, vars, store, locals,
                  Orphan, Owners
    <2>1. claim[p] # None /\ result[p] = None
          /\ \A t \in Proc : ~(pc[t] \in {"claimed", "run", "record"} /\ job[t].packet = p)
      BY <1>1 DEF Orphan, Owners
    <2> USE DEF At, Goto, Forget, TypeInv, LocalsOK, StoreOK
    <2> SUFFICES claim'[p] # None /\ result'[p] = None
          /\ \A t \in Proc : ~(pc'[t] \in {"claimed", "run", "record"} /\ job'[t].packet = p)
      BY DEF Orphan, Owners
    <2>2. CASE Claim(s)
      BY <1>1, <2>1, <2>2 DEF Claim, CanSpend, Unclaimed
    <2>3. CASE RecordResult(s)
      BY <1>1, <2>1, <2>3 DEF RecordResult
    <2>4. CASE \E j \in Job : Begin(s, j)
      BY <1>1, <2>1, <2>4 DEF Begin, locals
    <2>5. CASE Enqueue(s) \/ ReadResult(s) \/ ReadClaim(s) \/ Busy(s) \/ Crash(s)
      BY <1>1, <2>1, <2>5 DEF Enqueue, ReadResult, ReadClaim, Busy, Crash, store
    <2>6. CASE Recheck(s) \/ Run(s)
      BY <1>1, <2>1, <2>6 DEF Recheck, Run, store
    <2>7. CASE ReadDelivery(s) \/ BeginDelivery(s) \/ ListComments(s) \/ Post(s) \/ Confirm(s)
      BY <1>1, <2>1, <2>7
      DEF ReadDelivery, BeginDelivery, ListComments, Post, Confirm, Rollback, store
    <2> QED
      BY <2>2, <2>3, <2>4, <2>5, <2>6, <2>7 DEF Step, Continue
  <1>2. TypeInv /\ [Next]_vars => [\A p \in Packet : Orphan(p) => Orphan(p)']_vars
    BY <1>1
  <1>3. Spec => []TypeInv
    BY TypeInit, TypeStep, PTL DEF Spec
  <1> QED
    BY <1>2, <1>3, PTL DEF Spec, OrphanStaysOrphan

-----------------------------------------------------------------------------
(* Budgets.  All spends of an id are spends of one grant: a standing grant is *)
(* pinned by its first spend, and a one-shot id is spent once.               *)

Ledger ==
  /\ IsFiniteSet(spent)
  /\ \A u, v \in spent : u.grant.id = v.grant.id => u.grant = v.grant
  /\ \A u, v \in spent : u.grant.id = v.grant.id /\ ~u.grant.standing => u = v
  /\ BudgetHeld /\ RateHeld

LEMMA LedgerInit == Init => Ledger
  BY FS_EmptySet DEF Init, Ledger, BudgetHeld, RateHeld

\* Every spend is within the budget of its grant and keeps its interval.
LEMMA LedgerStep == TypeInv /\ Ledger /\ [Next]_vars => Ledger'
  <1> SUFFICES ASSUME TypeInv, Ledger, [Next]_vars PROVE Ledger'
    OBVIOUS
  <1>1. CASE spent' = spent
    BY <1>1 DEF Ledger, BudgetHeld, RateHeld, Usage
  <1>2. ASSUME NEW s \in Proc, Claim(s), CanSpend(s) PROVE Ledger'
    <2>0. job[s].grant \in Grant
      BY <1>2, JobParts DEF Claim, At, TypeInv
    <2>1. PICK g \in Grant : g = job[s].grant
      BY <2>0
    <2>1a. g.id \in GrantId /\ g.max \in Nat /\ g.max > 0 /\ g.gap \in Nat
          /\ (~g.standing => g.max = 1)
      BY GrantAssumption
    <2>1b. PICK new : new = [grant |-> g, packet |-> job[s].packet, at |-> now]
      OBVIOUS
    <2>2. spent' = spent \cup {new} /\ now \in Nat
      BY <1>2, <2>1, <2>1b DEF Claim, TypeInv, WorldOK
    <2>3. \A u \in spent : u.at \in Nat /\ u.grant \in Grant
      BY DEF TypeInv, StoreOK
    <2>4. \A u \in Usage(g.id) : u.grant.standing => u.grant = g
      BY <1>2, <2>1 DEF CanSpend, Authorized, Admits, Pinned, Usage
    <2>5. BudgetLeft(g)
      BY <1>2, <2>1 DEF CanSpend
    <2>6. new.grant = g /\ new.at = now
      BY <2>1b
    <2>7. IsFiniteSet(spent')
      BY <2>2, FS_AddElement DEF Ledger
    <2>8. Usage(g.id)' = Usage(g.id) \cup {new} /\ \A id : id # g.id => Usage(id)' = Usage(id)
      BY <2>2, <2>6 DEF Usage
    <2>9. IsFiniteSet(Usage(g.id))
      BY FS_Subset DEF Ledger, Usage
    <2>10. Cardinality(Usage(g.id)') <= g.max
      <3>1. Cardinality(Usage(g.id)) \in Nat
        BY <2>9, FS_CardinalityType
      <3>2. Cardinality(Usage(g.id)') <= Cardinality(Usage(g.id)) + 1
        BY <2>8, <2>9, <3>1, FS_AddElement
      <3>3. CASE g.standing
        <4>1. Cardinality(Usage(g.id)) < g.max
          BY <2>5, <3>3 DEF BudgetLeft
        <4>2. Cardinality(Usage(g.id)') \in Nat
          BY <2>8, <2>9, FS_AddElement, FS_CardinalityType
        <4> QED
          BY <2>1a, <3>1, <3>2, <4>1, <4>2
      <3>4. CASE ~g.standing
        <4>1. Usage(g.id) = {}
          BY <2>4, <2>5, <3>4 DEF BudgetLeft
        <4>2. Usage(g.id)' = {new}
          BY <2>8, <4>1
        <4>3. Cardinality(Usage(g.id)') = 1
          BY <4>2, FS_Singleton
        <4> QED
          BY <2>1a, <4>3
      <3> QED
        BY <3>3, <3>4
    <2>11. \A u \in Usage(g.id) : g.standing /\ u.grant = g /\ now - u.at >= g.gap
      BY <2>4, <2>5 DEF BudgetLeft
    <2>12. \A u \in spent : u.grant.id = g.id => u \in Usage(g.id)
      BY DEF Usage
    <2>13. /\ \A u, v \in spent' : u.grant.id = v.grant.id => u.grant = v.grant
           /\ \A u, v \in spent' : u.grant.id = v.grant.id /\ ~u.grant.standing => u = v
      BY <2>2, <2>6, <2>11, <2>12 DEF Ledger
    <2>14. BudgetHeld'
      <3> SUFFICES ASSUME NEW u \in spent' PROVE Cardinality(Usage(u.grant.id)') <= u.grant.max
        BY DEF BudgetHeld, Usage
      <3>1. CASE u.grant.id = g.id
        BY <2>2, <2>6, <2>10, <2>11, <2>12, <3>1
      <3>2. CASE u.grant.id # g.id
        BY <2>2, <2>6, <2>8, <3>2 DEF Ledger, BudgetHeld
      <3> QED
        BY <3>1, <3>2
    <2>15. RateHeld'
      <3> SUFFICES ASSUME NEW u \in spent', NEW v \in spent', u.grant.standing,
                          u.grant.id = v.grant.id, u # v
                   PROVE  u.at - v.at >= u.grant.gap \/ v.at - u.at >= u.grant.gap
        BY DEF RateHeld
      <3>1. CASE u \in spent /\ v \in spent
        BY <3>1 DEF Ledger, RateHeld
      <3>2. CASE u = new /\ v \in spent
        BY <2>6, <2>11, <2>12, <3>2
      <3>3. CASE u \in spent /\ v = new
        BY <2>6, <2>11, <2>12, <3>3
      <3> QED
        BY <2>2, <3>1, <3>2, <3>3
    <2> QED
      BY <2>7, <2>13, <2>14, <2>15 DEF Ledger
  <1>3. CASE spent' # spent
    <2>1. PICK s \in Proc : Step(s)
      BY <1>3 DEF Next, Environment, Tick, Comment, EditPolicy, LandLate, vars, store
    <2> QED
      BY <1>2, <1>3, <2>1, OnlyClaimSpends
  <1> QED
    BY <1>1, <1>3

\* What is executed under one grant id stays within the budget of every grant
\* signed under that id that was used, across packets and processes.
THEOREM WithinBudget == Spec => []BudgetHeld
  <1>1. Spec => [](TypeInv /\ Ledger)
    BY TypeInit, TypeStep, LedgerInit, LedgerStep, PTL DEF Spec
  <1>2. Ledger => BudgetHeld
    BY DEF Ledger
  <1> QED
    BY <1>1, <1>2, PTL

\* Executions under one standing grant id keep its interval.
THEOREM WithinRate == Spec => []RateHeld
  <1>1. Spec => [](TypeInv /\ Ledger)
    BY TypeInit, TypeStep, LedgerInit, LedgerStep, PTL DEF Spec
  <1>2. Ledger => RateHeld
    BY DEF Ledger
  <1> QED
    BY <1>1, <1>2, PTL

-----------------------------------------------------------------------------
(* Claims and spends.  A call past "enqueue" works on the content its packet *)
(* is queued with, so the claim pays for what the receipt will answer.       *)

Paired ==
  /\ ClaimPaidOnce
  /\ \A s \in Proc : pc[s] \notin {"idle", "enqueue"} => queued[job[s].packet] = job[s].content

\* A call that goes on or returns without touching the ledger keeps the pairs.
LEMMA PairedStay ==
  ASSUME TypeInv, Paired, NEW s \in Proc, UNCHANGED <<queued, claim, spent>>,
         \A t \in Proc \ {s} : pc'[t] = pc[t] /\ job'[t] = job[t],
         pc'[s] \in {"idle", "enqueue"} \/ (pc[s] \notin {"idle", "enqueue"} /\ job'[s] = job[s])
  PROVE  Paired'
  BY DEF Paired, ClaimPaidOnce

LEMMA PairedStep == TypeInv /\ Paired /\ [Next]_vars => Paired'
  <1> SUFFICES ASSUME TypeInv, Paired, [Next]_vars PROVE Paired'
    OBVIOUS
  <1>0. LocalsOK /\ StoreOK
    BY DEF TypeInv
  <1> USE DEF At, Goto, Forget
  <1>1. ASSUME NEW s \in Proc, NEW j \in Job, Begin(s, j) PROVE Paired'
    <2>1. UNCHANGED <<queued, claim, spent>>
      BY <1>1 DEF Begin
    <2>2. \A t \in Proc \ {s} : pc'[t] = pc[t] /\ job'[t] = job[t]
      BY <1>0, <1>1 DEF Begin, locals, LocalsOK
    <2>3. pc'[s] \in {"idle", "enqueue"}
      BY <1>0, <1>1 DEF Begin, locals, LocalsOK
    <2> QED
      BY <2>1, <2>2, <2>3, PairedStay
  <1>2. ASSUME NEW s \in Proc, Enqueue(s) PROVE Paired'
    <2>1. CASE SameIdentity(s)
      <3> DEFINE p == job[s].packet  c == job[s].content
      <3>1. p \in Packet /\ c \in Content /\ c # None
        BY <1>0, <1>2, JobParts, ConstantsAssumption DEF Enqueue
      <3>2. /\ queued' = [queued EXCEPT ![p] = c] /\ pc' = [pc EXCEPT ![s] = "read"]
            /\ UNCHANGED <<job, claim, spent>> /\ queued[p] \in {None, c}
        BY <1>2, <2>1 DEF Enqueue, SameIdentity
      <3>3. \A q \in Packet : queued[q] # None => queued'[q] = queued[q]
        BY <1>0, <3>1, <3>2 DEF StoreOK
      <3>4. \A t \in Proc : pc[t] \notin {"idle", "enqueue"} =>
              job[t].packet \in Packet /\ job[t].content # None
        BY <1>0, JobParts, ConstantsAssumption
      <3>5. ClaimPaidOnce'
        <4>1. \A q \in Packet : claim[q] # None => claim[q].content # None
          BY <1>0, ConstantsAssumption DEF StoreOK
        <4> QED
          BY <3>2, <3>3, <4>1 DEF Paired, ClaimPaidOnce
      <3>6. queued'[p] = c
        BY <1>0, <3>1, <3>2 DEF StoreOK
      <3>7. ASSUME NEW t \in Proc, pc'[t] \notin {"idle", "enqueue"}
            PROVE  queued'[job'[t].packet] = job'[t].content
        <4>1. CASE t = s
          BY <3>2, <3>6, <4>1
        <4>2. CASE t # s
          BY <1>0, <3>2, <3>3, <3>4, <3>7, <4>2 DEF Paired, LocalsOK
        <4> QED
          BY <4>1, <4>2
      <3> QED
        BY <3>5, <3>7 DEF Paired
    <2>2. CASE ~SameIdentity(s)
      BY <1>0, <1>2, <2>2, PairedStay DEF Enqueue, LocalsOK
    <2> QED
      BY <2>1, <2>2
  <1>3. ASSUME NEW s \in Proc, Claim(s) PROVE Paired'
    <2>1. CASE CanSpend(s)
      <3>0. job[s].packet \in Packet /\ job[s].grant \in Grant /\ job[s].content \in Content
        BY <1>0, <1>3, JobParts DEF Claim
      <3>1. PICK p \in Packet : p = job[s].packet
        BY <3>0
      <3>2. PICK g \in Grant, c \in Content : g = job[s].grant /\ c = job[s].content
        BY <3>0
      <3>3. PICK bill : bill = [grant |-> g, packet |-> p, at |-> now]
        OBVIOUS
      <3>4. PICK mine : mine = [grant |-> g, content |-> c]
        OBVIOUS
      <3>5. /\ spent' = spent \cup {bill} /\ claim' = [claim EXCEPT ![p] = mine]
            /\ pc' = [pc EXCEPT ![s] = "claimed"] /\ UNCHANGED <<job, queued>>
        BY <1>3, <2>1, <3>1, <3>2, <3>3, <3>4 DEF Claim
      <3>6. claim[p] = None /\ mine # None /\ queued[p] = c
        BY <1>3, <2>1, <3>1, <3>2, <3>4, ConstantsAssumption
        DEF Claim, CanSpend, Unclaimed, Paired
      <3>7. \A v \in spent : v.packet # p
        BY <3>6 DEF Paired, ClaimPaidOnce
      <3>8. bill.packet = p /\ bill.grant = g /\ mine.grant = g /\ mine.content = c
        BY <3>3, <3>4
      <3>9. claim'[p] = mine /\ \A q \in Packet \ {p} : claim'[q] = claim[q]
        BY <1>0, <3>5 DEF StoreOK
      <3>10. ClaimPaidOnce'
        <4>1. ASSUME NEW q \in Packet, claim'[q] # None
              PROVE  /\ claim'[q].content = queued'[q]
                     /\ {u.grant : u \in {v \in spent' : v.packet = q}} = {claim'[q].grant}
          <5>1. CASE q = p
            <6>1. {v \in spent' : v.packet = q} = {bill}
              BY <3>5, <3>7, <3>8, <5>1
            <6> QED
              BY <3>5, <3>6, <3>8, <3>9, <5>1, <6>1
          <5>2. CASE q # p
            <6>1. {v \in spent' : v.packet = q} = {v \in spent : v.packet = q}
              BY <3>5, <3>8, <5>2
            <6> QED
              BY <3>5, <3>9, <4>1, <5>2, <6>1 DEF Paired, ClaimPaidOnce
          <5> QED
            BY <5>1, <5>2
        <4>2. ASSUME NEW u \in spent' PROVE claim'[u.packet] # None
          <5>1. CASE u = bill
            BY <3>6, <3>8, <3>9, <5>1
          <5>2. CASE u \in spent
            BY <1>0, <3>7, <3>9, <5>2 DEF Paired, ClaimPaidOnce, StoreOK
          <5> QED
            BY <3>5, <4>2, <5>1, <5>2
        <4> QED
          BY <4>1, <4>2 DEF ClaimPaidOnce
      <3> QED
        BY <1>0, <1>3, <3>5, <3>10 DEF Claim, Paired, LocalsOK
    <2>2. CASE ~CanSpend(s)
      BY <1>0, <1>3, <2>2, PairedStay DEF Claim, LocalsOK
    <2> QED
      BY <2>1, <2>2
  <1>4. ASSUME NEW s \in Proc,
               ReadResult(s) \/ ReadClaim(s) \/ Recheck(s) \/ Run(s) \/ RecordResult(s) \/ Busy(s)
        PROVE  Paired'
    <2>1. UNCHANGED <<queued, claim, spent>>
      BY <1>4 DEF ReadResult, ReadClaim, Recheck, Run, RecordResult, Busy, store
    <2>2. \A t \in Proc \ {s} : pc'[t] = pc[t] /\ job'[t] = job[t]
      BY <1>0, <1>4 DEF ReadResult, ReadClaim, Recheck, Run, RecordResult, Busy, LocalsOK
    <2>3. pc'[s] = "idle" \/ (pc[s] \notin {"idle", "enqueue"} /\ job'[s] = job[s])
      BY <1>0, <1>4 DEF ReadResult, ReadClaim, Recheck, Run, RecordResult, Busy, LocalsOK
    <2> QED
      BY <2>1, <2>2, <2>3, PairedStay
  <1>5. ASSUME NEW s \in Proc, ReadDelivery(s) \/ BeginDelivery(s) \/ ListComments(s)
                               \/ Post(s) \/ Confirm(s) \/ Crash(s)
        PROVE  Paired'
    <2>1. UNCHANGED <<queued, claim, spent>>
      BY <1>5 DEF ReadDelivery, BeginDelivery, ListComments, Post, Confirm, Crash, store
    <2>2. \A t \in Proc \ {s} : pc'[t] = pc[t] /\ job'[t] = job[t]
      BY <1>0, <1>5
      DEF ReadDelivery, BeginDelivery, ListComments, Post, Confirm, Crash, Rollback, LocalsOK
    <2>3. pc'[s] = "idle" \/ (pc[s] \notin {"idle", "enqueue"} /\ job'[s] = job[s])
      BY <1>0, <1>5
      DEF ReadDelivery, BeginDelivery, ListComments, Post, Confirm, Crash, Rollback, LocalsOK
    <2> QED
      BY <2>1, <2>2, <2>3, PairedStay
  <1>6. CASE Environment \/ UNCHANGED vars
    BY <1>6 DEF Environment, Tick, Comment, EditPolicy, LandLate, vars, store, locals, Paired,
                ClaimPaidOnce
  <1> QED
    BY <1>1, <1>2, <1>3, <1>4, <1>5, <1>6 DEF Next, Step, Continue

\* A claimed packet was paid for once, by the grant of its claim, for the
\* content it was queued with, whoever claims, crashes or edits the issue.
THEOREM PaidOnce == Spec => []ClaimPaidOnce
  <1>1. Init => Paired
    BY DEF Init, Paired, ClaimPaidOnce
  <1>2. Spec => [](TypeInv /\ Paired)
    BY <1>1, TypeInit, TypeStep, PairedStep, PTL DEF Spec
  <1>3. Paired => ClaimPaidOnce
    BY DEF Paired
  <1> QED
    BY <1>2, <1>3, PTL

-----------------------------------------------------------------------------
(* Revocation during delivery.  The delivery transaction and the recording of *)
(* a revocation both need the write lock.                                    *)

Delivering(s) == pc[s] \in {"list", "post", "confirm"}

LockedOut == \A s \in Proc : Delivering(s) => writer = s /\ job[s].grant.id \notin revoked

LEMMA LockedOutStep == TypeInv /\ LockedOut /\ [Next]_vars => LockedOut'
  <1> SUFFICES ASSUME TypeInv, LockedOut, [Next]_vars PROVE LockedOut'
    OBVIOUS
  <1>0. LocalsOK /\ None \notin Proc
    BY ConstantsAssumption DEF TypeInv
  <1> USE DEF At, Goto, Forget, Delivering
  <1>1. \A t \in Proc : writer = None => ~Delivering(t)
    BY <1>0 DEF LockedOut
  <1>2. ASSUME NEW s \in Proc, NEW j \in Job, Begin(s, j) PROVE LockedOut'
    BY <1>0, <1>1, <1>2 DEF Begin, locals, LocalsOK, LockedOut
  <1>3. ASSUME NEW s \in Proc, Enqueue(s) \/ Claim(s) \/ RecordResult(s) PROVE LockedOut'
    BY <1>0, <1>1, <1>3 DEF Enqueue, Claim, RecordResult, LocalsOK, LockedOut
  <1>4. ASSUME NEW s \in Proc, ReadResult(s) \/ ReadClaim(s) \/ Busy(s) \/ Run(s) PROVE LockedOut'
    BY <1>0, <1>4 DEF ReadResult, ReadClaim, Busy, Run, store, LocalsOK, LockedOut
  <1>5. ASSUME NEW s \in Proc, Recheck(s) \/ ReadDelivery(s) PROVE LockedOut'
    <2>1. writer' = writer /\ (writer # None => revoked' = revoked)
      BY <1>5 DEF Recheck, ReadDelivery, RevokedBy
    <2>2. ~Delivering(s)' /\ \A t \in Proc \ {s} : pc'[t] = pc[t] /\ job'[t] = job[t]
      BY <1>0, <1>5 DEF Recheck, ReadDelivery, LocalsOK
    <2> QED
      BY <1>1, <2>1, <2>2 DEF LockedOut
  <1>6. ASSUME NEW s \in Proc, BeginDelivery(s) PROVE LockedOut'
    BY <1>0, <1>1, <1>6
    DEF BeginDelivery, MayPublish, Publishable, Authorized, Unrevoked, store, LocalsOK, LockedOut
  <1>7. ASSUME NEW s \in Proc, ListComments(s) \/ Post(s) \/ Confirm(s) PROVE LockedOut'
    <2>1. writer = s /\ revoked' = revoked
      BY <1>7 DEF ListComments, Post, Confirm, store, LockedOut
    <2>2. \A t \in Proc \ {s} : ~Delivering(t) /\ pc'[t] = pc[t]
      BY <1>0, <1>7, <2>1 DEF ListComments, Post, Confirm, Rollback, LocalsOK, LockedOut
    <2>3. Delivering(s)' => writer' = s /\ job'[s] = job[s]
      BY <1>0, <1>7, <2>1 DEF ListComments, Post, Confirm, Rollback, LocalsOK
    <2>4. job[s].grant.id \notin revoked
      BY <1>7 DEF ListComments, Post, Confirm, LockedOut
    <2> QED
      BY <2>1, <2>2, <2>3, <2>4 DEF LockedOut
  <1>8. ASSUME NEW s \in Proc, Crash(s) PROVE LockedOut'
    BY <1>0, <1>8 DEF Crash, store, LocalsOK, LockedOut
  <1>9. CASE Environment \/ UNCHANGED vars
    BY <1>9 DEF Environment, Tick, Comment, EditPolicy, LandLate, vars, store, locals, LockedOut
  <1> QED
    BY <1>2, <1>3, <1>4, <1>5, <1>6, <1>7, <1>8, <1>9 DEF Next, Step, Continue

\* A call enters its delivery only through the check inside the transaction.
LEMMA OnlyBeginDelivers ==
  ASSUME LocalsOK, [Next]_vars, NEW s \in Proc, pc[s] = "publish", Delivering(s)'
  PROVE  BeginDelivery(s) /\ MayPublish(s)
  <1> USE DEF At, Goto, Forget, Delivering
  <1>1. PICK t \in Proc : Step(t)
    BY DEF Next, Environment, Tick, Comment, EditPolicy, LandLate, vars, locals
  <1>2. t = s
    BY <1>1 DEF Step, Continue, Begin, Enqueue, ReadResult, ReadClaim, Claim, Recheck, Run,
                RecordResult, Busy, ReadDelivery, BeginDelivery, ListComments, Post, Confirm,
                Crash, Rollback, locals, LocalsOK
  <1>3. BeginDelivery(s)
    BY <1>1, <1>2 DEF Step, Continue, Begin, Enqueue, ReadResult, ReadClaim, Claim, Recheck, Run,
                      RecordResult, Busy, ReadDelivery, ListComments, Post, Confirm, Crash, LocalsOK
  <1> QED
    BY <1>3 DEF BeginDelivery, LocalsOK

\* Once a revocation is recorded no delivery on that grant id starts or goes
\* on, also of calls that were authorized to publish before.
THEOREM RevokedNeverPublished == Spec => RevocationStopsPublishing
  <1>1. ASSUME TypeInv, LockedOut, [Next]_vars, NEW s \in Proc,
               pc[s] \in {"publish", "list", "post"}, pc'[s] \in {"list", "post", "confirm"}
        PROVE  job[s].grant.id \notin revoked
    <2>1. CASE pc[s] = "publish"
      <3>1. MayPublish(s)
        BY <1>1, <2>1, OnlyBeginDelivers DEF TypeInv, Delivering
      <3> QED
        BY <3>1 DEF MayPublish, Publishable, Authorized, Unrevoked
    <2>2. CASE pc[s] # "publish"
      BY <1>1, <2>2 DEF LockedOut, Delivering
    <2> QED
      BY <2>1, <2>2
  <1>2. TypeInv /\ LockedOut /\ [Next]_vars =>
          [\A s \in Proc : pc[s] \in {"publish", "list", "post"} /\ pc'[s] \in {"list", "post", "confirm"}
             => job[s].grant.id \notin revoked]_vars
    BY <1>1
  <1>3. Init => LockedOut
    BY DEF Init, LockedOut, Delivering
  <1>4. Spec => [](TypeInv /\ LockedOut)
    BY <1>3, TypeInit, TypeStep, LockedOutStep, PTL DEF Spec
  <1> QED
    BY <1>2, <1>4, PTL DEF Spec, RevocationStopsPublishing

-----------------------------------------------------------------------------
(* One receipt on the issue.  The look at its comments and the POST are two *)
(* calls, and others comment in between; what makes them one is the delivery *)
(* transaction, and that a look at a full page leads to no POST.           *)

Carries(p) == \E i \in DOMAIN thread : thread[i] = p
Single(p) == \A i, j \in DOMAIN thread : thread[i] = p /\ thread[j] = p => i = j

PostedOnce ==
  /\ inflight = {}
  /\ \A p \in Packet : Single(p) /\ (delivery[p] => Carries(p))
  /\ \A s \in Proc : pc[s] = "post" => ~Carries(job[s].packet)
  /\ \A s \in Proc : pc[s] = "confirm" => Carries(job[s].packet)

\* What an appended comment does to the comments there are.
LEMMA Appended ==
  ASSUME WorldOK, NEW c \in Packet \cup {Other}, thread' = Append(thread, c)
  PROVE  /\ \A p : Carries(p)' <=> Carries(p) \/ p = c
         /\ \A p : Single(p) /\ (p = c => ~Carries(p)) => Single(p)'
  <1>1. /\ thread \in Seq(Packet \cup {Other}) /\ Len(thread) \in Nat
        /\ DOMAIN thread = 1 .. Len(thread) /\ DOMAIN thread' = 1 .. Len(thread) + 1
        /\ \A i \in 1 .. Len(thread) : thread'[i] = thread[i]
        /\ thread'[Len(thread) + 1] = c
    BY DEF WorldOK
  <1>2. \A i \in DOMAIN thread' : i \in DOMAIN thread \/ i = Len(thread) + 1
    BY <1>1
  <1>3. \A i \in DOMAIN thread : i \in DOMAIN thread' /\ thread'[i] = thread[i]
    BY <1>1
  <1>4. Len(thread) + 1 \in DOMAIN thread'
    BY <1>1
  <1> QED
    BY <1>1, <1>2, <1>3, <1>4 DEF Carries, Single

\* A page that is not full is the whole thread.
LEMMA PageTells ==
  ASSUME WorldOK, NEW p
  PROVE  /\ Prior(p) => Carries(p)
         /\ ~Prior(p) /\ ~PageFull => ~Carries(p)
  <1>0. /\ thread \in Seq(Packet \cup {Other}) /\ Len(thread) \in Nat
        /\ DOMAIN thread = 1 .. Len(thread)
    BY DEF WorldOK
  <1>1. PICK len \in Nat : len = Len(thread)
    BY <1>0, Zenon
  <1>2. PICK n \in Nat : /\ n = IF Len(thread) < Window THEN Len(thread) ELSE Window
                         /\ n <= len /\ (~PageFull => n = len)
    BY <1>1, ConstantsAssumption DEF PageFull
  <1>3. DOMAIN Page = 1 .. n /\ \A i \in 1 .. n : Page[i] = thread[i]
    <2>1. Page = SubSeq(thread, 1, n)
      BY <1>2 DEF Page
    <2>2. n <= Len(thread) /\ 1 \in Nat
      BY <1>1, <1>2
    <2>3. /\ DOMAIN SubSeq(thread, 1, n) = 1 .. n
          /\ \A i \in 1 .. n : SubSeq(thread, 1, n)[i] = thread[i]
      BY <1>0, <2>2
    <2> QED
      BY <2>1, <2>3
  <1>4. 1 .. n \subseteq DOMAIN thread
    <2>1. 1 .. n \subseteq 1 .. len
      BY <1>2
    <2> QED
      BY <1>0, <1>1, <2>1, Zenon
  <1> QED
    BY <1>0, <1>1, <1>2, <1>3, <1>4 DEF Prior, Carries

\* A call that moves on to neither step, or stays where it is.
LEMMA PostedStays ==
  ASSUME PostedOnce, UNCHANGED <<thread, inflight, delivery>>,
         \A s \in Proc : pc'[s] \in {"post", "confirm"} => pc'[s] = pc[s] /\ job'[s] = job[s]
  PROVE  PostedOnce'
  BY DEF PostedOnce, Carries, Single

LEMMA PostedOnceStep ==
  ASSUME ~LatePosts
  PROVE  TypeInv /\ LockedOut /\ PostedOnce /\ [Next]_vars => PostedOnce'
  <1> SUFFICES ASSUME TypeInv, LockedOut, PostedOnce, [Next]_vars PROVE PostedOnce'
    OBVIOUS
  <1>0. LocalsOK /\ WorldOK /\ StoreOK
    BY DEF TypeInv
  <1> USE DEF At, Goto, Forget
  <1>1. ASSUME NEW s \in Proc, NEW j \in Job, Begin(s, j) PROVE PostedOnce'
    BY <1>0, <1>1, PostedStays DEF Begin, locals, world, LocalsOK
  <1>2. ASSUME NEW s \in Proc, Enqueue(s) \/ ReadResult(s) \/ ReadClaim(s) \/ Claim(s) PROVE PostedOnce'
    BY <1>0, <1>2, PostedStays DEF Enqueue, ReadResult, ReadClaim, Claim, store, world, LocalsOK
  <1>3. ASSUME NEW s \in Proc, Recheck(s) \/ Run(s) \/ RecordResult(s) \/ Busy(s) PROVE PostedOnce'
    BY <1>0, <1>3, PostedStays DEF Recheck, Run, RecordResult, Busy, store, world, LocalsOK
  <1>4. ASSUME NEW s \in Proc, ReadDelivery(s) \/ BeginDelivery(s) PROVE PostedOnce'
    BY <1>0, <1>4, PostedStays DEF ReadDelivery, BeginDelivery, store, world, LocalsOK
  <1>5. ASSUME NEW s \in Proc, ListComments(s) PROVE PostedOnce'
    <2>1. UNCHANGED <<thread, inflight, delivery>> /\ \A t \in Proc \ {s} : pc'[t] = pc[t] /\ job'[t] = job[t]
      BY <1>0, <1>5 DEF ListComments, Rollback, store, world, LocalsOK
    <2>2. /\ pc'[s] = "confirm" => job'[s] = job[s] /\ Carries(job[s].packet)
          /\ pc'[s] = "post" => job'[s] = job[s] /\ ~Carries(job[s].packet)
      BY <1>0, <1>5, PageTells DEF ListComments, Rollback, LocalsOK
    <2> QED
      BY <2>1, <2>2 DEF PostedOnce, Carries, Single
  <1>6. ASSUME NEW s \in Proc, Post(s) PROVE PostedOnce'
    <2>0. /\ job[s].packet \in Packet /\ ~Carries(job[s].packet) /\ inflight' = inflight
          /\ UNCHANGED delivery
      BY <1>0, <1>6, JobParts DEF Post, store, PostedOnce
    <2>1. \A t \in Proc \ {s} : /\ pc'[t] = pc[t] /\ job'[t] = job[t]
                                /\ pc[t] \notin {"post", "confirm"}
      BY <1>0, <1>6 DEF Post, Rollback, LocalsOK, LockedOut, Delivering
    <2>2. /\ pc'[s] \in {"idle", "confirm"}
          /\ pc'[s] = "confirm" => thread' = Append(thread, job[s].packet) /\ job'[s] = job[s]
      BY <1>0, <1>6 DEF Post, Rollback, LocalsOK
    <2>3. CASE thread' = thread
      <3>1. pc'[s] = "idle"
        BY <1>0, <2>2, <2>3 DEF WorldOK
      <3> QED
        BY <2>0, <2>1, <2>3, <3>1, PostedStays
    <2>4. CASE thread' = Append(thread, job[s].packet)
      <3>1. \A p \in Packet : Single(p)' /\ (delivery'[p] => Carries(p)')
        BY <1>0, <2>0, <2>4, Appended DEF PostedOnce
      <3>2. \A p \in Packet : p = job[s].packet => Carries(p)'
        BY <1>0, <2>0, <2>4, Appended
      <3> QED
        BY <2>0, <2>1, <2>2, <3>1, <3>2 DEF PostedOnce, Carries
    <2> QED
      BY <1>6, <2>3, <2>4 DEF Post
  <1>7. ASSUME NEW s \in Proc, Confirm(s) PROVE PostedOnce'
    <2>1. /\ UNCHANGED <<thread, inflight>> /\ job[s].packet \in Packet
          /\ Carries(job[s].packet)
      BY <1>0, <1>7, JobParts DEF Confirm, world, PostedOnce
    <2>2. \A t \in Proc : pc'[t] \in {"post", "confirm"} => pc'[t] = pc[t] /\ job'[t] = job[t]
      BY <1>0, <1>7 DEF Confirm, Rollback, LocalsOK
    <2>3. \A p \in Packet : delivery'[p] => delivery[p] \/ p = job[s].packet
      BY <1>0, <1>7 DEF Confirm, StoreOK
    <2> QED
      BY <2>1, <2>2, <2>3 DEF PostedOnce, Carries, Single
  <1>8. ASSUME NEW s \in Proc, Crash(s) PROVE PostedOnce'
    BY <1>0, <1>8, PostedStays DEF Crash, store, world, LocalsOK
  <1>9. CASE Comment
    <2>1. /\ thread' = Append(thread, Other) /\ UNCHANGED <<delivery, pc, job, inflight>>
          /\ Other \notin Packet
      BY <1>9, ConstantsAssumption DEF Comment, store, locals
    <2>2. \A p \in Packet : (Carries(p)' <=> Carries(p)) /\ (Single(p) => Single(p)')
      BY <1>0, <2>1, Appended
    <2>3. \A s \in Proc : pc[s] \in {"post", "confirm"} => job[s].packet \in Packet
      BY <1>0, JobParts
    <2>4. \A s \in Proc : pc[s] \in {"post", "confirm"} =>
            (Carries(job[s].packet)' <=> Carries(job[s].packet))
      BY <2>1, <2>2, <2>3 DEF Carries
    <2> QED
      BY <2>1, <2>2, <2>4 DEF PostedOnce
  <1>10. CASE UNCHANGED vars \/ Tick \/ \E id \in GrantId : EditPolicy(id)
    BY <1>10, PostedStays DEF Tick, EditPolicy, vars, store, locals, world
  <1>11. ASSUME NEW p \in Packet, LandLate(p) PROVE PostedOnce'
    BY <1>11 DEF LandLate, PostedOnce
  <1> QED
    BY <1>1, <1>2, <1>3, <1>4, <1>5, <1>6, <1>7, <1>8, <1>9, <1>10, <1>11
    DEF Next, Step, Continue, Environment

\* If no POST that was given up on still lands, the issue carries a receipt
\* at most once, and once when it is recorded as delivered: for any number of
\* processes, crashes, lost answers and comments of others, and any window.
THEOREM ReceiptsOnce == ASSUME ~LatePosts PROVE Spec => []ReceiptOnce
  <1>1. Init => LockedOut /\ PostedOnce
    BY DEF Init, LockedOut, Delivering, PostedOnce, Carries, Single
  <1>2. PostedOnce => ReceiptOnce
    <2> SUFFICES ASSUME PostedOnce, NEW p \in Packet
                 PROVE  Copies(p) <= 1 /\ (delivery[p] => Copies(p) = 1)
      BY DEF ReceiptOnce
    <2> DEFINE at == {i \in DOMAIN thread : thread[i] = p}
    <2>1. CASE ~Carries(p)
      <3>1. at = {}
        BY <2>1 DEF Carries
      <3>2. Cardinality(at) = 0
        BY <3>1, FS_EmptySet
      <3> QED
        BY <2>1, <3>2 DEF PostedOnce, Copies
    <2>2. CASE Carries(p)
      <3>1. PICK i \in DOMAIN thread : thread[i] = p
        BY <2>2 DEF Carries
      <3>2. at = {i}
        BY <3>1 DEF PostedOnce, Single
      <3>3. Cardinality(at) = 1
        BY <3>2, FS_Singleton
      <3> QED
        BY <3>3 DEF Copies
    <2> QED
      BY <2>1, <2>2
  <1>3. TypeInv /\ LockedOut /\ PostedOnce /\ [Next]_vars => PostedOnce'
    BY PostedOnceStep
  <1> QED
    BY <1>1, <1>2, <1>3, TypeInit, TypeStep, LockedOutStep, PTL DEF Spec

-----------------------------------------------------------------------------
(* PacketConsumer implements AuthorizedEffect: the shared store, read as a *)
(* phase per packet, the provider's runs and the packets each grant id has *)
(* paid for, moves only as AuthorizedEffect allows.                        *)

-----------------------------------------------------------------------------
(* Only a packet with a result is delivered.                               *)

Answered ==
  /\ \A p \in Packet : delivery[p] => result[p] # None
  /\ \A s \in Proc : pc[s] \in {"deliver", "publish", "list", "post", "confirm"}
       => result[job[s].packet] # None

LEMMA AnsweredStep == TypeInv /\ OnceInv /\ Answered /\ [Next]_vars => Answered'
  <1> SUFFICES ASSUME TypeInv, OnceInv, Answered, [Next]_vars PROVE Answered'
    OBVIOUS
  <1>0. LocalsOK /\ StoreOK /\ WorldOK
    BY DEF TypeInv
  <1> USE DEF At, Goto, Forget
  <1>1. ASSUME NEW s \in Proc, NEW j \in Job, Begin(s, j) PROVE Answered'
    BY <1>0, <1>1 DEF Begin, locals, LocalsOK, Answered
  <1>2. ASSUME NEW s \in Proc,
               Enqueue(s) \/ ReadResult(s) \/ ReadClaim(s) \/ Claim(s) \/ Busy(s) \/ Crash(s)
        PROVE  Answered'
    BY <1>0, <1>2
    DEF Enqueue, ReadResult, ReadClaim, Claim, Busy, Crash, store, LocalsOK, Answered
  <1>3. ASSUME NEW s \in Proc, Recheck(s) \/ Run(s) PROVE Answered'
    BY <1>0, <1>3 DEF Recheck, Run, store, LocalsOK, Answered
  <1>4. ASSUME NEW s \in Proc, RecordResult(s) PROVE Answered'
    <2> DEFINE p == job[s].packet
    <2>1. p \in Packet /\ outcome[s] \in Outcome /\ attempted[s] \in BOOLEAN
      BY <1>0, <1>4, JobParts DEF RecordResult, LocalsOK
    <2>2. [status |-> outcome[s], attempted |-> attempted[s]] # None
      BY <2>1, ConstantsAssumption
    <2>3. result'[p] # None /\ \A q \in Packet : result[q] # None => result'[q] # None
      BY <1>0, <1>4, <2>1, <2>2 DEF RecordResult, StoreOK
    <2>4. UNCHANGED <<job, delivery>> /\ \A t \in Proc \ {s} : pc'[t] = pc[t]
      BY <1>0, <1>4 DEF RecordResult, LocalsOK
    <2>5. \A t \in Proc : pc[t] # "idle" => job[t].packet \in Packet
      BY <1>0, JobParts
    <2> QED
      BY <2>3, <2>4, <2>5 DEF Answered
  <1>5. ASSUME NEW s \in Proc, ReadDelivery(s) \/ BeginDelivery(s) \/ ListComments(s) \/ Post(s)
        PROVE  Answered'
    BY <1>0, <1>5
    DEF ReadDelivery, BeginDelivery, ListComments, Post, Rollback, store, LocalsOK, Answered
  <1>6. ASSUME NEW s \in Proc, Confirm(s) PROVE Answered'
    <2>1. result[job[s].packet] # None /\ result' = result
      BY <1>6 DEF Confirm, Answered
    <2>2. \A p \in Packet : delivery'[p] => delivery[p] \/ p = job[s].packet
      BY <1>0, <1>6 DEF Confirm, StoreOK
    <2> QED
      BY <1>0, <1>6, <2>1, <2>2 DEF Confirm, Rollback, LocalsOK, Answered
  <1>7. CASE Environment \/ UNCHANGED vars
    BY <1>7 DEF Environment, Tick, Comment, EditPolicy, LandLate, vars, store, locals, Answered
  <1> QED
    BY <1>1, <1>2, <1>3, <1>4, <1>5, <1>6, <1>7 DEF Next, Step, Continue

-----------------------------------------------------------------------------
(* Steps map to steps. *)

\* The instance counts as the module does.
LEMMA SameCardinality ==
  ASSUME NEW S
  PROVE  Abstract!Cardinality(S) = Cardinality(S)
  BY DEF Abstract!Cardinality, Cardinality

\* A packet moves on, and no other packet does.
LEMMA PhaseMoves ==
  ASSUME NEW p \in Packet, NEW from, NEW to, Phase(p) \in from, Phase(p)' = to,
         \A q \in Packet \ {p} : Phase(q)' = Phase(q)
  PROVE  Abstract!Move(p, from, to)
  BY DEF Abstract!Move

\* What no event, run or spend changes, the abstract state does not notice.
LEMMA StoreStutters ==
  ASSUME UNCHANGED <<claim, result, delivery, spent, runs>>
  PROVE  UNCHANGED Abstract!vars
  BY DEF Abstract!vars, Phase, Usage

\* The packets an id has paid for are at most its spends.
LEMMA PayerBound ==
  ASSUME Ledger, NEW id
  PROVE  /\ Cardinality({u.packet : u \in Usage(id)}) \in Nat /\ Cardinality(Usage(id)) \in Nat
         /\ Cardinality({u.packet : u \in Usage(id)}) <= Cardinality(Usage(id))
  <1> DEFINE T == {u.packet : u \in Usage(id)}
             f == [u \in Usage(id) |-> u.packet]
  <1>1. IsFiniteSet(Usage(id))
    BY FS_Subset DEF Ledger, Usage
  <1>2. f \in Surjection(Usage(id), T)
    BY DEF Surjection
  <1>3. IsFiniteSet(T) /\ Cardinality(T) <= Cardinality(Usage(id))
    BY <1>1, <1>2, FS_Surjection
  <1> QED
    BY <1>1, <1>3, FS_CardinalityType

\* The claim transaction authorizes.
LEMMA ClaimAuthorizes ==
  ASSUME TypeInv, OnceInv, Ledger, Answered, NEW s \in Proc, Claim(s), CanSpend(s)
  PROVE  Abstract!Next
  <1>0. LocalsOK /\ StoreOK /\ WorldOK
    BY DEF TypeInv
  <1>1. /\ job[s].packet \in Packet /\ job[s].grant \in Grant /\ job[s].content \in Content
        /\ job[s].grant.id \in GrantId
    BY <1>0, JobParts DEF Claim, At
  <1>2. PICK p \in Packet, g \in Grant, c \in Content :
          p = job[s].packet /\ g = job[s].grant /\ c = job[s].content
    BY <1>1
  <1>3. PICK bill : bill = [grant |-> g, packet |-> p, at |-> now]
    OBVIOUS
  <1>4. PICK mine : mine = [grant |-> g, content |-> c]
    OBVIOUS
  <1>5. /\ spent' = spent \cup {bill} /\ claim' = [claim EXCEPT ![p] = mine]
        /\ UNCHANGED <<result, delivery, runs>> /\ claim[p] = None /\ mine # None
    BY <1>2, <1>3, <1>4, ConstantsAssumption DEF Claim, CanSpend, Unclaimed
  <1>6. result[p] = None /\ runs[p] = 0 /\ ~delivery[p]
    BY <1>5 DEF OnceInv, ReceiptHonest, Answered
  <1>7. claim'[p] # None /\ \A q \in Packet \ {p} : claim'[q] = claim[q]
    BY <1>0, <1>5 DEF StoreOK
  <1>8. Abstract!Move(p, {"open"}, "claimed")
    <2>1. Phase(p) = "open"
      BY <1>5, <1>6 DEF Phase
    <2>2. Phase(p)' = "claimed"
      BY <1>5, <1>6, <1>7 DEF Phase
    <2>3. \A q \in Packet \ {p} : Phase(q)' = Phase(q)
      BY <1>5, <1>7 DEF Phase
    <2> QED
      BY <2>1, <2>2, <2>3, PhaseMoves
  <1>9. \E n \in {h.max : h \in {k \in Grant : k.id = g.id}} :
          Cardinality({u.packet : u \in Usage(g.id)}) < n
    <2> DEFINE T == {u.packet : u \in Usage(g.id)}
    <2>1. g.max \in Nat /\ g.max > 0
      BY GrantAssumption
    <2>2. Cardinality(T) < g.max
      <3>1. BudgetLeft(g)
        BY <1>2 DEF CanSpend
      <3>2. CASE g.standing
        <4>1. Cardinality(Usage(g.id)) < g.max
          BY <3>1, <3>2 DEF BudgetLeft
        <4> QED
          BY <2>1, <4>1, PayerBound
      <3>3. CASE ~g.standing
        <4>1. \A u \in Usage(g.id) : u.grant.standing => u.grant = g
          BY <1>2 DEF CanSpend, Authorized, Admits, Pinned, Usage
        <4>2. Usage(g.id) = {}
          BY <3>1, <3>3, <4>1 DEF BudgetLeft
        <4>3. T = {}
          BY <4>2
        <4> QED
          BY <2>1, <4>3, FS_EmptySet
      <3> QED
        BY <3>2, <3>3
    <2> QED
      BY <2>2
  <1>10. [id \in GrantId |-> {u.packet : u \in Usage(id)'}] =
           [[id \in GrantId |-> {u.packet : u \in Usage(id)}] EXCEPT ![g.id] = @ \cup {p}]
    <2>1. bill.grant.id = g.id /\ bill.packet = p
      BY <1>3
    <2>2. \A id : Usage(id)' = IF id = g.id THEN Usage(id) \cup {bill} ELSE Usage(id)
      BY <1>5, <2>1 DEF Usage
    <2>3. \A id : {u.packet : u \in Usage(id)'} =
            IF id = g.id THEN {u.packet : u \in Usage(id)} \cup {p} ELSE {u.packet : u \in Usage(id)}
      BY <2>1, <2>2
    <2> QED
      BY <1>1, <1>2, <2>3
  <1>11. g.id \in GrantId
    BY <1>1, <1>2
  <1>12. Abstract!Authorize(p, g.id)
    BY <1>5, <1>8, <1>9, <1>10, <1>11, SameCardinality DEF Abstract!Authorize
  <1> QED
    BY <1>11, <1>12 DEF Abstract!Next

\* The provider's run is the effect.
LEMMA RunEffects ==
  ASSUME TypeInv, OnceInv, Answered, NEW s \in Proc, Run(s)
  PROVE  Abstract!Next
  <1>1. PICK p \in Packet : p = job[s].packet
    BY JobParts DEF TypeInv, Run, At
  <1>2. runs[p] = 0 /\ claim[p] # None /\ result[p] = None /\ ~delivery[p]
    BY <1>1 DEF Run, At, OnceInv, OneOwner, RunsTold, Executing, Answered
  <1>3. runs' = [runs EXCEPT ![p] = @ + 1] /\ UNCHANGED <<claim, result, delivery, spent>>
    BY <1>1 DEF Run, store
  <1>4. runs'[p] = 1 /\ \A q \in Packet \ {p} : runs'[q] = runs[q]
    BY <1>2, <1>3 DEF TypeInv, WorldOK
  <1>5. Abstract!Move(p, {"claimed"}, "effected")
    <2>1. Phase(p) = "claimed"
      BY <1>2 DEF Phase
    <2>2. Phase(p)' = "effected"
      BY <1>2, <1>3, <1>4 DEF Phase
    <2>3. \A q \in Packet \ {p} : Phase(q)' = Phase(q)
      BY <1>3, <1>4 DEF Phase
    <2> QED
      BY <2>1, <2>2, <2>3, PhaseMoves
  <1>6. Abstract!Effect(p)
    BY <1>3, <1>5 DEF Abstract!Effect, Usage
  <1> QED
    BY <1>6 DEF Abstract!Next

\* The result event is the record, of an effect or of its refusal.
LEMMA ResultRecords ==
  ASSUME TypeInv, OnceInv, Answered, NEW s \in Proc, RecordResult(s)
  PROVE  Abstract!Next
  <1>0. LocalsOK /\ StoreOK /\ WorldOK
    BY DEF TypeInv
  <1>1. PICK p \in Packet : p = job[s].packet
    BY <1>0, JobParts DEF RecordResult, At
  <1>2. claim[p] # None /\ result[p] = None /\ ~delivery[p] /\ runs[p] \in Nat
    BY <1>0, <1>1 DEF RecordResult, At, OnceInv, OneOwner, Executing, Answered, WorldOK
  <1>3. PICK new : new = [status |-> outcome[s], attempted |-> attempted[s]]
    OBVIOUS
  <1>4. new # None
    BY <1>0, <1>3, ConstantsAssumption DEF RecordResult, At, LocalsOK
  <1>5. result' = [result EXCEPT ![p] = new] /\ UNCHANGED <<claim, delivery, spent, runs>>
    BY <1>1, <1>2, <1>3 DEF RecordResult, history
  <1>6. result'[p] # None /\ \A q \in Packet \ {p} : result'[q] = result[q]
    BY <1>0, <1>4, <1>5 DEF StoreOK
  <1>7. Abstract!Move(p, {"claimed", "effected"}, "recorded")
    <2>1. Phase(p) \in {"claimed", "effected"}
      BY <1>2 DEF Phase
    <2>2. Phase(p)' = "recorded"
      BY <1>2, <1>5, <1>6 DEF Phase
    <2>3. \A q \in Packet \ {p} : Phase(q)' = Phase(q)
      BY <1>5, <1>6 DEF Phase
    <2> QED
      BY <2>1, <2>2, <2>3, PhaseMoves
  <1>8. Abstract!Record(p)
    BY <1>5, <1>7 DEF Abstract!Record, Usage
  <1> QED
    BY <1>8 DEF Abstract!Next

\* The committed delivery is the return of the receipt.
LEMMA ConfirmDelivers ==
  ASSUME TypeInv, Answered, NEW s \in Proc, Confirm(s)
  PROVE  Abstract!Next \/ UNCHANGED Abstract!vars
  <1>0. StoreOK
    BY DEF TypeInv
  <1>1. PICK p \in Packet : p = job[s].packet
    BY JobParts DEF TypeInv, Confirm, At
  <1>2. result[p] # None /\ UNCHANGED <<claim, result, spent, runs>>
    BY <1>1 DEF Confirm, At, Answered, history
  <1>3. CASE delivery' = delivery
    BY <1>2, <1>3, StoreStutters
  <1>4. CASE delivery' # delivery
    <2>1. delivery' = [delivery EXCEPT ![p] = TRUE]
      BY <1>1, <1>4 DEF Confirm
    <2>2. delivery'[p] = TRUE /\ delivery[p] = FALSE /\ \A q \in Packet \ {p} : delivery'[q] = delivery[q]
      BY <1>0, <1>4, <2>1 DEF StoreOK
    <2>3. Abstract!Move(p, {"recorded"}, "delivered")
      <3>1. Phase(p) = "recorded"
        BY <1>2, <2>2 DEF Phase
      <3>2. Phase(p)' = "delivered"
        BY <1>2, <2>2 DEF Phase
      <3>3. \A q \in Packet \ {p} : Phase(q)' = Phase(q)
        BY <1>2, <2>2 DEF Phase
      <3> QED
        BY <3>1, <3>2, <3>3, PhaseMoves
    <2>4. Abstract!Deliver(p)
      BY <1>2, <2>3 DEF Abstract!Deliver, Usage
    <2> QED
      BY <2>4 DEF Abstract!Next
  <1> QED
    BY <1>3, <1>4

LEMMA InitMaps == Init => Abstract!Init
  BY DEF Init, Abstract!Init, Phase, Usage

LEMMA StepMaps ==
  TypeInv /\ OnceInv /\ Ledger /\ Answered /\ [Next]_vars => [Abstract!Next]_Abstract!vars
  <1> SUFFICES ASSUME TypeInv, OnceInv, Ledger, Answered, [Next]_vars
               PROVE  Abstract!Next \/ UNCHANGED Abstract!vars
    OBVIOUS
  <1>1. ASSUME NEW s \in Proc, Claim(s) PROVE Abstract!Next \/ UNCHANGED Abstract!vars
    <2>1. CASE CanSpend(s)
      BY <1>1, <2>1, ClaimAuthorizes
    <2>2. CASE ~CanSpend(s)
      BY <1>1, <2>2, StoreStutters DEF Claim
    <2> QED
      BY <2>1, <2>2
  <1>2. ASSUME NEW s \in Proc, Run(s) \/ RecordResult(s) \/ Confirm(s)
        PROVE  Abstract!Next \/ UNCHANGED Abstract!vars
    BY <1>2, RunEffects, ResultRecords, ConfirmDelivers
  <1>3. ASSUME NEW s \in Proc,
               \/ \E j \in Job : Begin(s, j)
               \/ Enqueue(s) \/ ReadResult(s) \/ ReadClaim(s) \/ Recheck(s) \/ Busy(s)
               \/ ReadDelivery(s) \/ BeginDelivery(s) \/ ListComments(s) \/ Post(s) \/ Crash(s)
        PROVE  UNCHANGED Abstract!vars
    <2>1. UNCHANGED <<claim, result, delivery, spent, runs>>
      BY <1>3 DEF Begin, Enqueue, ReadResult, ReadClaim, Recheck, Busy, ReadDelivery,
                  BeginDelivery, ListComments, Post, Crash, store, history
    <2> QED
      BY <2>1, StoreStutters
  <1>4. CASE Environment \/ UNCHANGED vars
    <2>1. UNCHANGED <<claim, result, delivery, spent, runs>>
      BY <1>4 DEF Environment, Tick, Comment, EditPolicy, LandLate, vars, store, history
    <2> QED
      BY <2>1, StoreStutters
  <1> QED
    BY <1>1, <1>2, <1>3, <1>4 DEF Next, Step, Continue

\* The consumer processes, with their races, crashes and lost answers, implement
\* AuthorizedEffect: one paid effect, one record and one return per packet.
THEOREM Implements == Spec => ImplementsAuthorizedEffect
  <1>1. Init => Answered
    BY DEF Init, Answered
  <1>2. Spec => [](TypeInv /\ OnceInv /\ Ledger /\ Answered)
    BY <1>1, TypeInit, TypeStep, OnceInit, OnceStep, LedgerInit, LedgerStep, AnsweredStep, PTL
    DEF Spec
  <1> QED
    BY <1>2, InitMaps, StepMaps, PTL DEF Spec, ImplementsAuthorizedEffect, Abstract!Spec
=============================================================================
