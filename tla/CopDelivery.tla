----------------------------- MODULE CopDelivery -----------------------------
(***************************************************************************)
(* Store-and-forward of COP packets between two nodes: the outbox and its  *)
(* deliverer on the sender, the inbox and the packet handler on the peer   *)
(* (cop-store.js, cop-deliverer.js, cop-handler.js, ttl-sweeper.js of      *)
(* lib/node-agent).                                                        *)
(*                                                                         *)
(* The outbox is drained by the probe worker of the node agent, one pass   *)
(* at a time, and by every `operium node snapshot --fresh` in a process of *)
(* its own.  A pass lists rows once and then awaits one POST per row.      *)
(* Requests and answers may be lost or late; every process may crash.      *)
(* Time is kept as ages and remaining waits, so it needs no bound.         *)
(***************************************************************************)
EXTENDS Integers, FiniteSets

CONSTANTS
  Envelope,     \* packets, numbered in the order of their created_at
  Kind,         \* of each packet: what the peer does with its packet_type
  Agent, Cli,   \* the node agent's pass; the passes of CLI processes
  None,
  MaxAttempts,  \* MAX_DELIVERY_ATTEMPTS (10)
  MaxWait,      \* cap of the backoff (1 h; the first wait is 1 min)
  DeliveredTtl, FailedTtl, InboxTtl,  \* retention (24 h, 7 d, 48 h)
  MaxPasses, MaxCrashes               \* bounds: CLI passes, crashes

Drainer == {Agent} \cup Cli

\* A row as a drainer lists it, and a request; by = None once nobody waits.
Listed == [env : Envelope, attempts : Nat]
Request == [env : Envelope, by : Drainer \cup {None}]

\* "event" and "snapshot" have a handler; "refused" is a stub or unknown type.
ASSUME KindAssumption ==
  /\ Envelope \subseteq Nat /\ Kind \in [Envelope -> {"event", "snapshot", "refused"}]
  /\ Agent \notin Cli /\ None \notin Drainer \cup Nat \cup Listed \cup Request
  /\ None \notin {"ok", "refused", "rejected"}
  /\ \A rows \in SUBSET [env : Envelope, attempts : 0 .. MaxAttempts - 1] : None # rows

ASSUME TimeAssumption ==
  /\ MaxAttempts \in Nat \ {0} /\ MaxWait \in Nat \ {0}
  /\ DeliveredTtl \in Nat /\ FailedTtl \in Nat /\ InboxTtl \in Nat
  /\ MaxPasses \in Nat /\ MaxCrashes \in Nat

VARIABLES
  outbox,    \* cop_outbox
  todo,      \* of each drainer: the listed rows still to send; None: no pass
  sending,   \* of each drainer: the listed row whose POST it awaits
  answer,    \* of each drainer: the answer that has come back
  net,       \* requests on their way
  inbox,     \* cop_inbox: the age of each recorded packet
  handling,  \* the request whose handler has run, before it is recorded
  handled,   \* history: how often each packet's handler ran
  tries,     \* history: attempts of each packet, counted up to MaxAttempts
  lapses,    \* history: how often the peer lost a packet's inbox record
  passes, crashes

sender == <<outbox, todo, sending, answer, tries, passes>>
peer == <<inbox, handling, handled, lapses>>
vars == <<sender, net, peer, crashes>>

Init ==
  /\ outbox = [e \in Envelope |-> None] /\ todo = [d \in Drainer |-> None]
  /\ sending = [d \in Drainer |-> None] /\ answer = [d \in Drainer |-> None]
  /\ net = {} /\ inbox = [e \in Envelope |-> None] /\ handling = None
  /\ handled = [e \in Envelope |-> 0] /\ tries = [e \in Envelope |-> 0]
  /\ lapses = [e \in Envelope |-> 0] /\ passes = 0 /\ crashes = 0

-----------------------------------------------------------------------------
(* The outbox *)

Enqueue(e) ==
  /\ outbox[e] = None /\ tries[e] = 0
  /\ \A f \in Envelope : f < e => outbox[f] # None \/ tries[f] > 0
  /\ outbox' = [outbox EXCEPT ![e] =
                  [state |-> "pending", attempts |-> 0, wait |-> 0, age |-> 0]]
  /\ UNCHANGED <<todo, sending, answer, tries, passes, net, peer, crashes>>

IsDue(r) == r # None /\ r.state = "pending" /\ r.wait = 0 /\ r.attempts < MaxAttempts

\* listPendingOutbox: rows are copied, their attempts with them.
Due(box) == {[env |-> e, attempts |-> box[e].attempts] :
               e \in {f \in Envelope : IsDue(box[f])}}

\* 2 ** n
Doubled[n \in 0 .. MaxAttempts] == IF n = 0 THEN 1 ELSE 2 * Doubled[n - 1]

Backoff(n) == IF Doubled[n - 1] < MaxWait THEN Doubled[n - 1] ELSE MaxWait

\* Mutant of GivesUp: off by one, against the listing's attempts < max.
GivesUpLate(n) == n > MaxAttempts

GivesUp(n) == n >= MaxAttempts

Attempts(row) == row.attempts + 1

\* UPDATE ... WHERE id: nothing if the row has been swept.  It overwrites what
\* another drainer wrote since the row was listed, its state included.
Mark(row, state, attempts, wait) ==
  outbox' = IF outbox[row.env] = None THEN outbox
            ELSE [outbox EXCEPT ![row.env].state = state, ![row.env].attempts = attempts,
                                ![row.env].wait = wait]

MarkFailed(row) ==
  LET n == Attempts(row) IN
  IF GivesUp(n) THEN Mark(row, "failed", n, 0) ELSE Mark(row, "pending", n, Backoff(n))

MarkDelivered(row) ==
  Mark(row, "delivered", IF outbox[row.env] = None THEN 0 ELSE outbox[row.env].attempts, 0)

\* runTtlSweeper on the outbox: by age since creation.
Expired(r) == r # None /\ \/ r.state = "delivered" /\ r.age >= DeliveredTtl
                          \/ r.state = "failed" /\ r.age >= FailedTtl
Swept == [e \in Envelope |-> IF Expired(outbox[e]) THEN None ELSE outbox[e]]

-----------------------------------------------------------------------------
(* deliverCopOutbox *)

\* The agent's probe cycle sweeps first; its `running` flag allows one pass.
StartPass(d) ==
  LET box == IF d = Agent THEN Swept ELSE outbox IN
  /\ todo[d] = None
  /\ d \in Cli => passes < MaxPasses
  /\ passes' = IF d \in Cli THEN passes + 1 ELSE passes
  /\ outbox' = box
  /\ todo' = [todo EXCEPT ![d] = IF Due(box) = {} THEN None ELSE Due(box)]
  /\ UNCHANGED <<sending, answer, tries, net, peer, crashes>>

\* Mutant of Advance: an answer outlives the row it was for.
AdvanceKeepsAnswer(d) ==
  /\ sending' = [sending EXCEPT ![d] = None] /\ UNCHANGED answer
  /\ todo' = [todo EXCEPT ![d] = IF @ = {} THEN None ELSE @]

\* The row is done with; the pass ends after its last one.
Advance(d) ==
  /\ sending' = [sending EXCEPT ![d] = None] /\ answer' = [answer EXCEPT ![d] = None]
  /\ todo' = [todo EXCEPT ![d] = IF @ = {} THEN None ELSE @]

\* ORDER BY created_at; the endpoint of the peer may be unknown by now.
Send(d) ==
  /\ todo[d] # None /\ sending[d] = None
  /\ \E row \in todo[d] :
       /\ \A other \in todo[d] : row.env <= other.env
       /\ tries' = [tries EXCEPT ![row.env] = IF @ < MaxAttempts THEN @ + 1 ELSE @]
       /\ \/ /\ MarkFailed(row)                        \* peer_endpoint_not_found
             /\ todo' = [todo EXCEPT ![d] = IF @ = {row} THEN None ELSE @ \ {row}]
             /\ UNCHANGED <<sending, net>>
          \/ /\ net' = net \cup {[env |-> row.env, by |-> d]}
             /\ sending' = [sending EXCEPT ![d] = row]
             /\ todo' = [todo EXCEPT ![d] = @ \ {row}]
             /\ UNCHANGED outbox
  /\ UNCHANGED <<answer, passes, peer, crashes>>

\* response.ok && body.ok !== false
Accepted(a) == a = "ok"

\* Storing the snapshot an answer carries may throw after the row was marked
\* delivered; the catch marks it failed.
Receive(d) ==
  /\ answer[d] # None
  /\ IF Accepted(answer[d])
     THEN \/ MarkDelivered(sending[d])
          \/ Kind[sending[d].env] = "snapshot" /\ MarkFailed(sending[d])
     ELSE MarkFailed(sending[d])
  /\ Advance(d)
  /\ UNCHANGED <<tries, passes, net, peer, crashes>>

\* Nobody waits for the answer to d's request any more.
Abandon(d) ==
  /\ net' = {IF r.by = d THEN [r EXCEPT !.by = None] ELSE r : r \in net}
  /\ handling' = IF handling # None /\ handling.by = d
                 THEN [handling EXCEPT !.by = None] ELSE handling

\* AbortSignal.timeout, or the connection failed.
Timeout(d) ==
  /\ sending[d] # None /\ answer[d] = None
  /\ MarkFailed(sending[d]) /\ Advance(d) /\ Abandon(d)
  /\ UNCHANGED <<tries, passes, inbox, handled, lapses, crashes>>

-----------------------------------------------------------------------------
(* handleCopHttpRequest on the peer *)

Answer(r, a) ==
  \/ r.by # None /\ answer' = [answer EXCEPT ![r.by] = a]
  \/ UNCHANGED answer                                   \* the answer is lost

\* Mutant of Known: the inbox is not consulted.
KnownNever(e) == FALSE

\* inboxExists
Known(e) == inbox[e] # None

RecordInbox(e) == inbox' = [inbox EXCEPT ![e] = IF @ = None THEN 0 ELSE @]

\* A request is taken to the point where its handler's effect has committed;
\* the handlers do not yield, so the peer takes one request at a time.
Take(r) ==
  /\ handling = None /\ r \in net /\ net' = net \ {r}
  /\ \/ Answer(r, "rejected") /\ UNCHANGED <<inbox, handling, handled>>  \* 401, 5xx
     \/ Known(r.env) /\ Answer(r, "ok") /\ UNCHANGED <<inbox, handling, handled>>
     \/ /\ ~Known(r.env) /\ Kind[r.env] = "refused"      \* 400 and 501 are recorded
        /\ RecordInbox(r.env) /\ Answer(r, "refused") /\ UNCHANGED <<handling, handled>>
     \/ /\ ~Known(r.env) /\ Kind[r.env] # "refused"
        /\ handled' = [handled EXCEPT ![r.env] = @ + 1] /\ handling' = r
        /\ UNCHANGED <<inbox, answer>>
  /\ UNCHANGED <<outbox, todo, sending, tries, passes, lapses, crashes>>

\* Also when the handler reported a failure: the answer is 200 or 202.
Record ==
  /\ handling # None /\ handling' = None
  /\ RecordInbox(handling.env) /\ Answer(handling, "ok")
  /\ UNCHANGED <<outbox, todo, sending, tries, passes, net, handled, lapses, crashes>>

\* The peer's own sweep of cop_inbox.
SweepInbox(e) ==
  /\ Known(e) /\ inbox[e] >= InboxTtl
  /\ inbox' = [inbox EXCEPT ![e] = None] /\ lapses' = [lapses EXCEPT ![e] = @ + 1]
  /\ UNCHANGED <<sender, net, handling, handled, crashes>>

-----------------------------------------------------------------------------
(* The environment *)

Lose(r) == r \in net /\ net' = net \ {r} /\ UNCHANGED <<sender, peer, crashes>>

CrashPeer ==
  /\ crashes < MaxCrashes /\ crashes' = crashes + 1
  /\ handling # None /\ handling' = None
  /\ lapses' = [lapses EXCEPT ![handling.env] = @ + 1]
  /\ UNCHANGED <<sender, net, inbox, handled>>

CrashDrainer(d) ==
  /\ crashes < MaxCrashes /\ crashes' = crashes + 1
  /\ todo[d] # None /\ todo' = [todo EXCEPT ![d] = None]
  /\ sending' = [sending EXCEPT ![d] = None] /\ answer' = [answer EXCEPT ![d] = None]
  /\ Abandon(d)
  /\ UNCHANGED <<outbox, tries, passes, inbox, handled, lapses>>

Older(age, ttl) == IF age < ttl THEN age + 1 ELSE age
Tick ==
  /\ outbox' = [e \in Envelope |->
       IF outbox[e] = None THEN None
       ELSE [outbox[e] EXCEPT !.wait = IF @ > 0 THEN @ - 1 ELSE 0,
                              !.age = Older(@, FailedTtl)]]
  /\ inbox' = [e \in Envelope |-> IF Known(e) THEN Older(inbox[e], InboxTtl) ELSE None]
  /\ UNCHANGED <<todo, sending, answer, tries, passes, net, handling, handled, lapses, crashes>>

Step(d) == Send(d) \/ Receive(d) \/ Timeout(d)

Next ==
  \/ \E e \in Envelope : Enqueue(e) \/ SweepInbox(e)
  \/ \E d \in Drainer : StartPass(d) \/ Step(d) \/ CrashDrainer(d)
  \/ \E r \in net : Take(r) \/ Lose(r)
  \/ Record \/ CrashPeer \/ Tick

Spec == Init /\ [][Next]_vars

\* The probe worker's interval starts a pass again and again, every POST has a
\* timeout, and time passes.  Nothing is assumed of the network or the peer.
Fairness == WF_vars(StartPass(Agent)) /\ WF_vars(Step(Agent)) /\ WF_vars(Tick)
FairSpec == Spec /\ Fairness
-----------------------------------------------------------------------------
(* Properties *)

Row == [state : {"pending", "delivered", "failed"}, attempts : 0 .. MaxAttempts,
        wait : 0 .. MaxWait, age : 0 .. FailedTtl]

\* Every variable has its type; the attempts written never exceed the maximum,
\* and a drainer waits for an answer only to the row it is sending.
TypeOK ==
  /\ outbox \in [Envelope -> Row \cup {None}]
  /\ todo \in [Drainer -> (SUBSET Listed) \cup {None}]
  /\ sending \in [Drainer -> Listed \cup {None}]
  /\ answer \in [Drainer -> {"ok", "refused", "rejected", None}]
  /\ \A d \in Drainer : /\ todo[d] # None => \A row \in todo[d] : row.attempts < MaxAttempts
                        /\ answer[d] # None => sending[d] # None
                        /\ sending[d] # None => todo[d] # None
  /\ net \subseteq Request /\ handling \in Request \cup {None}
  /\ inbox \in [Envelope -> (0 .. InboxTtl) \cup {None}]
  /\ \A h \in {handled, tries, lapses} : h \in [Envelope -> Nat]
  /\ passes \in Nat /\ crashes \in Nat

\* A packet's handler runs again only when the peer lost its inbox record, by a
\* crash between the handler and recordCopInbox or by the 48 h retention: "the
\* handler must not run twice when store-and-forward retries after an ambiguous
\* delivery outcome" (scripts/test-ona-cop-roundtrip.js:106-107).
HandledAgainOnlyAfterLapse == \A e \in Envelope : handled[e] <= 1 + lapses[e]

\* A packet the peer has a handler for is marked delivered only if its handler
\* ran, whichever of its answers was lost and whichever drainer marks it.
DeliveredWasHandled ==
  \A e \in Envelope :
    outbox[e] # None /\ outbox[e].state = "delivered" /\ Kind[e] # "refused"
      => handled[e] > 0

\* Overlapping passes may lose an attempt but never invent one: a row is given
\* up only after MaxAttempts real attempts.
GivenUpAfterAllAttempts ==
  \A e \in Envelope : outbox[e] # None =>
    /\ outbox[e].attempts <= tries[e]
    /\ outbox[e].state = "failed" => tries[e] >= MaxAttempts

\* Every queued packet is settled for good, delivered, given up or swept, even
\* if a CLI pass reopens a row the agent has settled.
Pending(e) == outbox[e] # None /\ outbox[e].state = "pending"
EventuallySettled == \A e \in Envelope : Pending(e) ~> [](~Pending(e))

\* A packet the peer refuses is never marked delivered: "Unknown `packet_type`
\* -> `400` with `unknown_packet_type`" (docs/operium-node-agent.md:462).
RefusedNotDelivered ==
  \A e \in Envelope : Kind[e] = "refused" /\ outbox[e] # None => outbox[e].state # "delivered"
=============================================================================
