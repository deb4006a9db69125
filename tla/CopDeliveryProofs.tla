-------------------------- MODULE CopDeliveryProofs --------------------------
(***************************************************************************)
(* Proofs about CopDelivery for any packets, any number of CLI processes,  *)
(* any loss, delay and crash, and every value of the bounds.               *)
(***************************************************************************)
EXTENDS CopDelivery, RecursionLemmas, TLAPS

-----------------------------------------------------------------------------
(* Types, as far as the properties need them: how long a row waits and how  *)
(* old it is matters to none of them.                                       *)

RowsOK ==
  /\ DOMAIN outbox = Envelope
  /\ \A e \in Envelope : outbox[e] # None =>
       /\ DOMAIN outbox[e] = {"state", "attempts", "wait", "age"}
       /\ outbox[e].attempts \in Nat

PassesOK ==
  /\ todo \in [Drainer -> (SUBSET Listed) \cup {None}]
  /\ sending \in [Drainer -> Listed \cup {None}]
  /\ answer \in [Drainer -> {"ok", "refused", "rejected", None}]
  /\ net \subseteq Request /\ handling \in Request \cup {None}

CountsOK ==
  /\ inbox \in [Envelope -> Nat \cup {None}]
  /\ handled \in [Envelope -> Nat] /\ tries \in [Envelope -> Nat]
  /\ lapses \in [Envelope -> Nat]

TypeInv == RowsOK /\ PassesOK /\ CountsOK

\* Every answer finds the drainer that waits for it: a request somebody waits
\* for belongs to the row that drainer is sending, it is either on its way or
\* being handled, and nothing of it is left once its answer has come back.
Routing ==
  /\ \A d \in Drainer : answer[d] # None =>
       /\ sending[d] # None /\ \A r \in net : r.by # d
       /\ handling # None => handling.by # d
  /\ \A r \in net : r.by # None => sending[r.by] # None /\ sending[r.by].env = r.env
  /\ handling # None /\ handling.by # None =>
       /\ sending[handling.by] # None /\ sending[handling.by].env = handling.env
       /\ \A r \in net : r.by # handling.by

\* Writing a row touches that row only, and nothing if it is gone.
LEMMA MarkRow ==
  ASSUME RowsOK, NEW row \in Listed, NEW state, NEW n \in Nat, NEW wait,
         Mark(row, state, n, wait)
  PROVE  /\ RowsOK'
         /\ \A e \in Envelope : outbox'[e] # None =>
              \/ outbox[e] # None /\ outbox'[e] = outbox[e]
              \/ e = row.env /\ outbox'[e].state = state /\ outbox'[e].attempts = n
  <1>0. row.env \in Envelope
    BY DEF Listed
  <1>1. CASE outbox[row.env] = None
    BY <1>1 DEF Mark, RowsOK
  <1>2. CASE outbox[row.env] # None
    <2> DEFINE r == outbox[row.env]
               a == [r EXCEPT !.state = state]
               b == [a EXCEPT !.attempts = n]
               c == [b EXCEPT !.wait = wait]
    <2>1. DOMAIN c = {"state", "attempts", "wait", "age"} /\ c.state = state /\ c.attempts = n
      BY <1>0, <1>2 DEF RowsOK
    <2>2. outbox' = [outbox EXCEPT ![row.env] = c]
      BY <1>0, <1>2 DEF Mark, RowsOK
    <2> QED
      BY <1>0, <2>1, <2>2 DEF RowsOK
  <1> QED
    BY <1>1, <1>2

\* A failed attempt counts one more, and gives up only at the maximum.
LEMMA MarkFailedRow ==
  ASSUME RowsOK, NEW row \in Listed, MarkFailed(row)
  PROVE  /\ RowsOK'
         /\ \A e \in Envelope : outbox'[e] # None =>
              \/ outbox[e] # None /\ outbox'[e] = outbox[e]
              \/ /\ e = row.env /\ outbox'[e].attempts = row.attempts + 1
                 /\ \/ outbox'[e].state = "pending"
                    \/ outbox'[e].state = "failed" /\ row.attempts + 1 >= MaxAttempts
  <1>1. Attempts(row) \in Nat /\ Attempts(row) = row.attempts + 1
    BY DEF Attempts, Listed
  <1>2. CASE GivesUp(Attempts(row))
    <2>1. Mark(row, "failed", Attempts(row), 0)
      BY <1>2 DEF MarkFailed
    <2>2. /\ RowsOK'
          /\ \A e \in Envelope : outbox'[e] # None =>
               \/ outbox[e] # None /\ outbox'[e] = outbox[e]
               \/ /\ e = row.env /\ outbox'[e].state = "failed"
                  /\ outbox'[e].attempts = Attempts(row)
      BY <1>1, <2>1, MarkRow
    <2>3. row.attempts + 1 >= MaxAttempts
      BY <1>1, <1>2 DEF GivesUp
    <2> QED
      BY <1>1, <2>2, <2>3
  <1>3. CASE ~GivesUp(Attempts(row))
    <2>1. Mark(row, "pending", Attempts(row), Backoff(Attempts(row)))
      BY <1>3 DEF MarkFailed
    <2>2. /\ RowsOK'
          /\ \A e \in Envelope : outbox'[e] # None =>
               \/ outbox[e] # None /\ outbox'[e] = outbox[e]
               \/ /\ e = row.env /\ outbox'[e].state = "pending"
                  /\ outbox'[e].attempts = Attempts(row)
      BY <1>1, <2>1, MarkRow
    <2> QED
      BY <1>1, <2>2
  <1> QED
    BY <1>2, <1>3

LEMMA MarkDeliveredRow ==
  ASSUME RowsOK, NEW row \in Listed, MarkDelivered(row)
  PROVE  /\ RowsOK'
         /\ \A e \in Envelope : outbox'[e] # None =>
              \/ outbox[e] # None /\ outbox'[e] = outbox[e]
              \/ /\ e = row.env /\ outbox'[e].state = "delivered"
                 /\ outbox[e] # None /\ outbox'[e].attempts = outbox[e].attempts
  <1>0. row.env \in Envelope
    BY DEF Listed
  <1>1. CASE outbox[row.env] = None
    BY <1>1 DEF MarkDelivered, Mark, RowsOK
  <1>2. CASE outbox[row.env] # None
    <2>1. outbox[row.env].attempts \in Nat
      BY <1>0, <1>2 DEF RowsOK
    <2>2. Mark(row, "delivered", outbox[row.env].attempts, 0)
      BY <1>2 DEF MarkDelivered
    <2> QED
      BY <1>0, <1>2, <2>1, <2>2, MarkRow
  <1> QED
    BY <1>1, <1>2

\* Time changes neither the state of a row nor its attempts.
LEMMA TickRow ==
  ASSUME RowsOK, Tick
  PROVE  /\ RowsOK'
         /\ \A e \in Envelope : outbox'[e] # None =>
              /\ outbox[e] # None /\ outbox'[e].state = outbox[e].state
              /\ outbox'[e].attempts = outbox[e].attempts
  <1> SUFFICES ASSUME NEW e \in Envelope, outbox'[e] # None
               PROVE  /\ outbox[e] # None /\ outbox'[e].state = outbox[e].state
                      /\ outbox'[e].attempts = outbox[e].attempts
                      /\ DOMAIN outbox'[e] = {"state", "attempts", "wait", "age"}
    BY DEF RowsOK, Tick
  <1> DEFINE r == outbox[e]
             a == [r EXCEPT !.wait = IF r.wait > 0 THEN r.wait - 1 ELSE 0]
             b == [a EXCEPT !.age = Older(a.age, FailedTtl)]
  <1>1. r # None /\ outbox'[e] = b
    BY DEF Tick
  <1>2. DOMAIN b = {"state", "attempts", "wait", "age"} /\ b.state = r.state
        /\ b.attempts = r.attempts
    BY <1>1 DEF RowsOK
  <1> QED
    BY <1>1, <1>2

\* A pass starts from rows of the table, swept or not.
LEMMA StartRow ==
  ASSUME RowsOK, PassesOK, NEW d \in Drainer, StartPass(d)
  PROVE  /\ RowsOK'
         /\ \A e \in Envelope : outbox'[e] # None => outbox'[e] = outbox[e]
         /\ todo'[d] # None => \A row \in todo'[d] :
              /\ row \in Listed /\ row.attempts < MaxAttempts
              /\ outbox[row.env] # None /\ row.attempts = outbox[row.env].attempts
         /\ \A c \in Drainer : c # d => todo'[c] = todo[c]
         /\ todo' \in [Drainer -> (SUBSET Listed) \cup {None}]
  <1> DEFINE box == IF d = Agent THEN Swept ELSE outbox
  <1>1. outbox' = box /\ todo' = [todo EXCEPT ![d] = IF Due(box) = {} THEN None ELSE Due(box)]
    BY DEF StartPass
  <1>2. DOMAIN box = Envelope /\ \A e \in Envelope : box[e] = outbox[e] \/ box[e] = None
    BY DEF RowsOK, Swept
  <1>3. \A row \in Due(box) :
          /\ row \in Listed /\ row.attempts < MaxAttempts
          /\ outbox[row.env] # None /\ row.attempts = outbox[row.env].attempts
    <2> HIDE DEF box
    <2> SUFFICES ASSUME NEW e \in Envelope, IsDue(box[e])
                 PROVE  LET row == [env |-> e, attempts |-> box[e].attempts] IN
                        /\ row \in Listed /\ row.attempts < MaxAttempts
                        /\ outbox[row.env] # None /\ row.attempts = outbox[row.env].attempts
      BY DEF Due
    <2>1. box[e] = outbox[e] /\ outbox[e] # None /\ box[e].attempts < MaxAttempts
      BY <1>2 DEF IsDue
    <2> QED
      BY <2>1 DEF RowsOK, Listed
  <1>4. RowsOK' /\ \A e \in Envelope : outbox'[e] # None => outbox'[e] = outbox[e]
    <2> HIDE DEF box
    <2> QED
      BY <1>1, <1>2 DEF RowsOK
  <1> QED
    <2> HIDE DEF box
    <2>1. todo'[d] = None \/ todo'[d] = Due(box)
      BY <1>1 DEF PassesOK
    <2>2. Due(box) \in SUBSET Listed
      BY <1>3
    <2> QED
      BY <1>1, <1>3, <1>4, <2>1, <2>2 DEF PassesOK

-----------------------------------------------------------------------------
(* Types are invariant. *)

\* What an answer or a step of the peer changes has its type.
LEMMA AnswerType ==
  ASSUME PassesOK, NEW r \in Request, NEW a \in {"ok", "refused", "rejected"}, Answer(r, a)
  PROVE  answer' \in [Drainer -> {"ok", "refused", "rejected", None}]
  BY DEF PassesOK, Answer, Request

LEMMA AbandonType ==
  ASSUME PassesOK, NEW d \in Drainer, Abandon(d)
  PROVE  net' \subseteq Request /\ handling' \in Request \cup {None}
  BY DEF PassesOK, Abandon, Request

LEMMA AdvanceType ==
  ASSUME PassesOK, NEW d \in Drainer, Advance(d)
  PROVE  /\ todo' \in [Drainer -> (SUBSET Listed) \cup {None}]
         /\ sending' \in [Drainer -> Listed \cup {None}]
         /\ answer' \in [Drainer -> {"ok", "refused", "rejected", None}]
  BY DEF PassesOK, Advance

LEMMA RecordType ==
  ASSUME CountsOK, NEW e \in Envelope, RecordInbox(e)
  PROVE  inbox' \in [Envelope -> Nat \cup {None}]
  BY DEF CountsOK, RecordInbox

LEMMA TypeInit == Init => TypeInv
  BY DEF Init, TypeInv, RowsOK, PassesOK, CountsOK

\* Every step keeps the types.
LEMMA TypeStep == TypeInv /\ Routing /\ [Next]_vars => TypeInv'
  <1> SUFFICES ASSUME RowsOK, PassesOK, CountsOK, Routing, [Next]_vars PROVE TypeInv'
    BY DEF TypeInv
  <1> USE DEF TypeInv
  <1>1. ASSUME NEW e \in Envelope, Enqueue(e) PROVE TypeInv'
    BY <1>1 DEF Enqueue, RowsOK, PassesOK, CountsOK, peer
  <1>2. ASSUME NEW e \in Envelope, SweepInbox(e) PROVE TypeInv'
    BY <1>2 DEF SweepInbox, RowsOK, PassesOK, CountsOK, sender
  <1>3. ASSUME NEW d \in Drainer, StartPass(d) PROVE TypeInv'
    <2>1. RowsOK' /\ todo' \in [Drainer -> (SUBSET Listed) \cup {None}]
      BY <1>3, StartRow
    <2> QED
      BY <1>3, <2>1 DEF StartPass, PassesOK, CountsOK, peer
  <1>4. ASSUME NEW d \in Drainer, Send(d) PROVE TypeInv'
    <2>1. PICK row \in todo[d] :
            /\ tries' = [tries EXCEPT ![row.env] = IF @ < MaxAttempts THEN @ + 1 ELSE @]
            /\ \/ /\ MarkFailed(row)
                  /\ todo' = [todo EXCEPT ![d] = IF @ = {row} THEN None ELSE @ \ {row}]
                  /\ UNCHANGED <<sending, net>>
               \/ /\ net' = net \cup {[env |-> row.env, by |-> d]}
                  /\ sending' = [sending EXCEPT ![d] = row]
                  /\ todo' = [todo EXCEPT ![d] = @ \ {row}]
                  /\ UNCHANGED outbox
      BY <1>4 DEF Send
    <2>2. row \in Listed /\ row.env \in Envelope
      BY <1>4 DEF Send, PassesOK, Listed
    <2>3. RowsOK'
      BY <2>1, <2>2, MarkFailedRow DEF RowsOK
    <2>4. todo' \in [Drainer -> (SUBSET Listed) \cup {None}]
      BY <1>4, <2>1 DEF Send, PassesOK
    <2>5. [env |-> row.env, by |-> d] \in Request
      BY <2>2 DEF Request
    <2>6. PassesOK'
      BY <1>4, <2>1, <2>2, <2>4, <2>5 DEF Send, PassesOK, peer
    <2>7. CountsOK'
      <3> DEFINE n == IF tries[row.env] < MaxAttempts THEN tries[row.env] + 1
                      ELSE tries[row.env]
      <3>1. n \in Nat
        BY <2>2 DEF CountsOK
      <3>2. tries' = [tries EXCEPT ![row.env] = n]
        BY <2>1
      <3>3. tries' \in [Envelope -> Nat]
        BY <3>1, <3>2 DEF CountsOK
      <3> QED
        BY <1>4, <3>3 DEF Send, CountsOK, peer
    <2> QED
      BY <2>3, <2>6, <2>7
  <1>5. ASSUME NEW d \in Drainer, Receive(d) PROVE TypeInv'
    <2>1. sending[d] \in Listed
      BY <1>5 DEF Receive, PassesOK, Routing
    <2>2. RowsOK'
      BY <1>5, <2>1, MarkFailedRow, MarkDeliveredRow DEF Receive
    <2>3. PassesOK'
      BY <1>5, AdvanceType DEF Receive, PassesOK, peer
    <2>4. CountsOK'
      BY <1>5 DEF Receive, CountsOK, peer
    <2> QED
      BY <2>2, <2>3, <2>4
  <1>6. ASSUME NEW d \in Drainer, Timeout(d) PROVE TypeInv'
    <2>1. sending[d] \in Listed
      BY <1>6 DEF Timeout, PassesOK
    <2>2. RowsOK'
      BY <1>6, <2>1, MarkFailedRow DEF Timeout
    <2>3. PassesOK'
      BY <1>6, AdvanceType, AbandonType DEF Timeout, PassesOK
    <2>4. CountsOK'
      BY <1>6 DEF Timeout, CountsOK
    <2> QED
      BY <2>2, <2>3, <2>4
  <1>7. ASSUME NEW d \in Drainer, CrashDrainer(d) PROVE TypeInv'
    <2>1. RowsOK'
      BY <1>7 DEF CrashDrainer, RowsOK
    <2>2. PassesOK'
      BY <1>7, AbandonType DEF CrashDrainer, PassesOK
    <2>3. CountsOK'
      BY <1>7 DEF CrashDrainer, CountsOK
    <2> QED
      BY <2>1, <2>2, <2>3
  <1>8. ASSUME NEW r \in net, Take(r) PROVE TypeInv'
    <2>1. r \in Request /\ r.env \in Envelope
      BY DEF PassesOK, Request
    <2>2. RowsOK'
      BY <1>8 DEF Take, RowsOK
    <2>3. PassesOK'
      BY <1>8, <2>1, AnswerType DEF Take, PassesOK
    <2>4. CountsOK'
      BY <1>8, <2>1, RecordType DEF Take, CountsOK
    <2> QED
      BY <2>2, <2>3, <2>4
  <1>9. ASSUME Record PROVE TypeInv'
    <2>1. handling \in Request /\ handling.env \in Envelope
      BY <1>9 DEF Record, PassesOK, Request
    <2>2. RowsOK'
      BY <1>9 DEF Record, RowsOK
    <2>3. PassesOK'
      BY <1>9, <2>1, AnswerType DEF Record, PassesOK
    <2>4. CountsOK'
      BY <1>9, <2>1, RecordType DEF Record, CountsOK
    <2> QED
      BY <2>2, <2>3, <2>4
  <1>10. ASSUME NEW r \in net, Lose(r) PROVE TypeInv'
    BY <1>10 DEF Lose, RowsOK, PassesOK, CountsOK, sender, peer
  <1>11. ASSUME CrashPeer PROVE TypeInv'
    <2>1. handling \in Request /\ handling.env \in Envelope
      BY <1>11 DEF CrashPeer, PassesOK, Request
    <2> QED
      BY <1>11, <2>1 DEF CrashPeer, RowsOK, PassesOK, CountsOK, sender
  <1>12. ASSUME Tick PROVE TypeInv'
    <2>1. RowsOK'
      BY <1>12, TickRow
    <2>2. PassesOK'
      BY <1>12 DEF Tick, PassesOK
    <2>3. CountsOK'
      <3>1. \A e \in Envelope : inbox[e] # None => Older(inbox[e], InboxTtl) \in Nat
        BY DEF CountsOK, Older
      <3>2. inbox' \in [Envelope -> Nat \cup {None}]
        BY <1>12, <3>1 DEF Tick, Known
      <3> QED
        BY <1>12, <3>2 DEF Tick, CountsOK
    <2> QED
      BY <2>1, <2>2, <2>3
  <1>13. CASE UNCHANGED vars
    BY <1>13 DEF vars, sender, peer, RowsOK, PassesOK, CountsOK
  <1> QED
    BY <1>1, <1>2, <1>3, <1>4, <1>5, <1>6, <1>7, <1>8, <1>9, <1>10, <1>11, <1>12, <1>13
    DEF Next, Step

-----------------------------------------------------------------------------
(* Answers are routed. *)

LEMMA RoutingInit == Init => Routing
  BY DEF Init, Routing

\* Nothing is left of a request once d has stopped waiting for it.
LEMMA AbandonRouting ==
  ASSUME TypeInv, Routing, NEW d \in Drainer, Abandon(d),
         answer'[d] = None, \A c \in Drainer \ {d} : sending'[c] = sending[c] /\ answer'[c] = answer[c]
  PROVE  Routing'
  <1>1. None \notin Drainer
    BY KindAssumption
  <1>2. \A r \in net' : r.by # d /\ (r.by # None => r \in net)
    BY <1>1 DEF TypeInv, PassesOK, Request, Abandon
  <1>3. handling' # None => handling'.by # d /\ (handling'.by # None => handling' = handling)
    BY <1>1 DEF TypeInv, PassesOK, Request, Abandon
  <1>4. \A r \in Request : r.by \in Drainer \cup {None}
    BY DEF Request
  <1>5. net' \subseteq Request /\ handling' \in Request \cup {None}
    BY AbandonType DEF TypeInv
  <1> QED
    BY <1>1, <1>2, <1>3, <1>4, <1>5 DEF Routing

\* An answer is the last of its request.
LEMMA AnswerRouting ==
  ASSUME TypeInv, Routing, NEW r \in Request, NEW a, Answer(r, a),
         r.by # None => sending[r.by] # None,
         \A s \in net' : s.by # None => s.by # r.by,
         net' \subseteq net, sending' = sending, handling' = None
  PROVE  Routing'
  BY DEF TypeInv, PassesOK, Request, Answer, Routing

\* Every step keeps the routing.
LEMMA RoutingStep == TypeInv /\ Routing /\ [Next]_vars => Routing'
  <1> SUFFICES ASSUME TypeInv, Routing, [Next]_vars PROVE Routing'
    OBVIOUS
  <1>1. ASSUME NEW e \in Envelope, Enqueue(e) PROVE Routing'
    BY <1>1 DEF Enqueue, Routing, peer
  <1>2. ASSUME NEW e \in Envelope, SweepInbox(e) PROVE Routing'
    BY <1>2 DEF SweepInbox, Routing, sender
  <1>3. ASSUME NEW d \in Drainer, StartPass(d) PROVE Routing'
    BY <1>3 DEF StartPass, Routing, peer
  <1>4. ASSUME NEW d \in Drainer, Send(d) PROVE Routing'
    <2>1. answer[d] = None /\ (\A r \in net : r.by # d) /\ (handling # None => handling.by # d)
      BY <1>4, KindAssumption DEF Send, Routing
    <2>2. UNCHANGED <<answer, handling>>
      BY <1>4 DEF Send, peer
    <2>3. CASE UNCHANGED <<sending, net>>
      BY <2>2, <2>3 DEF Routing
    <2>4. ASSUME NEW row \in todo[d], net' = net \cup {[env |-> row.env, by |-> d]},
                 sending' = [sending EXCEPT ![d] = row]
          PROVE  Routing'
      <3>1. row # None /\ row \in Listed
        BY <1>4, KindAssumption DEF Send, TypeInv, PassesOK
      <3>2. sending'[d] = row /\ \A c \in Drainer \ {d} : sending'[c] = sending[c]
        BY <2>4 DEF TypeInv, PassesOK
      <3>3. \A r \in net' : r \in net \/ (r.env = row.env /\ r.by = d)
        <4> SUFFICES ASSUME NEW r \in net', r \notin net PROVE r.env = row.env /\ r.by = d
          OBVIOUS
        <4>1. r = [env |-> row.env, by |-> d]
          BY <2>4
        <4> QED
          BY <4>1
      <3>4. \A r \in net : r.by \in Drainer \cup {None}
        BY DEF TypeInv, PassesOK, Request
      <3>5. handling # None => handling.by \in Drainer \cup {None}
        BY DEF TypeInv, PassesOK, Request
      <3> QED
        BY <2>1, <2>2, <3>1, <3>2, <3>3, <3>4, <3>5 DEF Routing
    <2> QED
      BY <1>4, <2>3, <2>4 DEF Send
  <1>5. ASSUME NEW d \in Drainer, Receive(d) PROVE Routing'
    <2>1. (\A r \in net : r.by # d) /\ (handling # None => handling.by # d)
      BY <1>5 DEF Receive, Routing
    <2>2. /\ answer'[d] = None
          /\ \A c \in Drainer \ {d} : sending'[c] = sending[c] /\ answer'[c] = answer[c]
      BY <1>5 DEF Receive, Advance, TypeInv, PassesOK
    <2>3. UNCHANGED <<net, handling>>
      BY <1>5 DEF Receive, peer
    <2>4. \A r \in net : r.by \in Drainer \cup {None}
      BY DEF TypeInv, PassesOK, Request
    <2>5. handling # None => handling.by \in Drainer \cup {None}
      BY DEF TypeInv, PassesOK, Request
    <2> QED
      BY <2>1, <2>2, <2>3, <2>4, <2>5 DEF Routing
  <1>6. ASSUME NEW d \in Drainer, Timeout(d) PROVE Routing'
    <2>1. /\ answer'[d] = None
          /\ \A c \in Drainer \ {d} : sending'[c] = sending[c] /\ answer'[c] = answer[c]
      BY <1>6 DEF Timeout, Advance, TypeInv, PassesOK
    <2> QED
      BY <1>6, <2>1, AbandonRouting DEF Timeout
  <1>7. ASSUME NEW d \in Drainer, CrashDrainer(d) PROVE Routing'
    <2>1. /\ answer'[d] = None
          /\ \A c \in Drainer \ {d} : sending'[c] = sending[c] /\ answer'[c] = answer[c]
      BY <1>7 DEF CrashDrainer, TypeInv, PassesOK
    <2> QED
      BY <1>7, <2>1, AbandonRouting DEF CrashDrainer
  <1>8. ASSUME NEW r \in net, Take(r) PROVE Routing'
    <2>1. r \in Request /\ r # None
      BY KindAssumption DEF TypeInv, PassesOK
    <2>2. r.by # None => sending[r.by] # None /\ sending[r.by].env = r.env
      BY DEF Routing
    <2>3. \A s \in net : s.by # None /\ s.by = r.by => s = r
      BY <2>2 DEF Routing, TypeInv, PassesOK, Request
    <2>4. net' = net \ {r} /\ sending' = sending
      BY <1>8 DEF Take
    <2>5. CASE \E a : Answer(r, a) /\ handling' = None
      <3>1. \A s \in net' : s.by # None => s.by # r.by
        BY <2>3, <2>4
      <3> QED
        BY <2>1, <2>2, <2>4, <2>5, <3>1, AnswerRouting
    <2>6. CASE handling' = r /\ UNCHANGED answer
      BY <2>1, <2>2, <2>3, <2>4, <2>6 DEF Routing
    <2> QED
      BY <1>8, <2>5, <2>6 DEF Take
  <1>9. ASSUME Record PROVE Routing'
    <2>1. handling \in Request /\ handling # None
      BY <1>9 DEF Record, TypeInv, PassesOK
    <2>2. handling.by # None => /\ sending[handling.by] # None
                                /\ \A s \in net : s.by # handling.by
      BY <2>1 DEF Routing
    <2>3. net' = net /\ sending' = sending /\ handling' = None /\ Answer(handling, "ok")
      BY <1>9 DEF Record
    <2> QED
      BY <2>1, <2>2, <2>3, AnswerRouting
  <1>10. ASSUME NEW r \in net, Lose(r) PROVE Routing'
    BY <1>10 DEF Lose, Routing, sender, peer
  <1>11. ASSUME CrashPeer PROVE Routing'
    BY <1>11 DEF CrashPeer, Routing, sender
  <1>12. ASSUME Tick PROVE Routing'
    BY <1>12 DEF Tick, Routing
  <1>13. CASE UNCHANGED vars
    BY <1>13 DEF vars, sender, peer, Routing
  <1> QED
    BY <1>1, <1>2, <1>3, <1>4, <1>5, <1>6, <1>7, <1>8, <1>9, <1>10, <1>11, <1>12, <1>13
    DEF Next, Step

-----------------------------------------------------------------------------
(* A handler runs once, but for lost records. *)

\* A run of the handler is accounted for by the packet's inbox record, by the
\* request that is about to write it, or by a record the peer lost.
Accounted ==
  \A e \in Envelope :
    /\ handled[e] <= 1 + lapses[e]
    /\ inbox[e] = None /\ (handling = None \/ handling.env # e) => handled[e] <= lapses[e]

\* Only the peer's steps move what Accounted speaks of.
LEMMA AccountedStep == TypeInv /\ Accounted /\ [Next]_vars => Accounted'
  <1> SUFFICES ASSUME TypeInv, Accounted, [Next]_vars PROVE Accounted'
    OBVIOUS
  <1>0. CountsOK /\ net \subseteq Request /\ handling \in Request \cup {None}
    BY DEF TypeInv, PassesOK
  <1>1. CASE UNCHANGED peer
    BY <1>1 DEF peer, Accounted
  <1>2. ASSUME NEW e \in Envelope, SweepInbox(e) PROVE Accounted'
    BY <1>0, <1>2 DEF SweepInbox, CountsOK, Accounted
  <1>3. ASSUME NEW d \in Drainer, Abandon(d), UNCHANGED <<inbox, handled, lapses>>
        PROVE  Accounted'
    <2>1. (handling' = None <=> handling = None)
          /\ (handling # None => handling'.env = handling.env)
      BY <1>0, <1>3, KindAssumption DEF Abandon, Request
    <2> QED
      BY <1>3, <2>1 DEF Accounted
  <1>4. ASSUME NEW r \in net, Take(r) PROVE Accounted'
    <2>1. r.env \in Envelope /\ r # None /\ handling = None /\ UNCHANGED lapses
      BY <1>0, <1>4, KindAssumption DEF Take, Request
    <2>2. CASE UNCHANGED <<inbox, handling, handled>>
      BY <2>1, <2>2 DEF Accounted
    <2>3. CASE RecordInbox(r.env) /\ UNCHANGED <<handling, handled>>
      BY <1>0, <2>1, <2>3 DEF Accounted, RecordInbox, CountsOK
    <2>4. CASE /\ ~Known(r.env) /\ handled' = [handled EXCEPT ![r.env] = @ + 1]
               /\ handling' = r /\ UNCHANGED inbox
      BY <1>0, <2>1, <2>4 DEF Accounted, Known, CountsOK
    <2> QED
      BY <1>4, <2>2, <2>3, <2>4 DEF Take
  <1>5. ASSUME Record PROVE Accounted'
    <2>1. handling.env \in Envelope /\ inbox' = [inbox EXCEPT ![handling.env] = IF @ = None THEN 0 ELSE @]
      BY <1>0, <1>5 DEF Record, RecordInbox, Request
    <2>2. inbox'[handling.env] # None
      BY <1>0, <2>1, KindAssumption DEF CountsOK
    <2> QED
      BY <1>0, <1>5, <2>1, <2>2 DEF Record, Accounted, CountsOK
  <1>6. ASSUME CrashPeer PROVE Accounted'
    <2>1. handling.env \in Envelope
      BY <1>0, <1>6 DEF CrashPeer, Request
    <2> QED
      BY <1>0, <1>6, <2>1 DEF CrashPeer, Accounted, CountsOK
  <1>7. ASSUME Tick PROVE Accounted'
    <2>1. \A e \in Envelope : inbox'[e] = None => inbox[e] = None
      <3>1. \A e \in Envelope : inbox[e] # None => Older(inbox[e], InboxTtl) \in Nat
        BY <1>0 DEF CountsOK, Older
      <3> QED
        BY <1>7, <3>1, KindAssumption DEF Tick, Known
    <2> QED
      BY <1>7, <2>1 DEF Tick, Accounted
  <1>8. CASE UNCHANGED vars
    BY <1>1, <1>8 DEF vars
  <1> QED
    BY <1>1, <1>2, <1>3, <1>4, <1>5, <1>6, <1>7, <1>8
    DEF Next, Step, Enqueue, StartPass, Send, Receive, Timeout, CrashDrainer, Lose

-----------------------------------------------------------------------------
(* A packet marked delivered was handled. *)

Handled(e) == Kind[e] # "refused" => handled[e] > 0

\* The peer says "ok" to a packet only when its handler has run: an inbox
\* record, the request being recorded and an answer on its way are evidence.
Evidence ==
  /\ \A e \in Envelope : inbox[e] # None => Handled(e)
  /\ handling # None => handled[handling.env] > 0
  /\ \A d \in Drainer : answer[d] = "ok" => Handled(sending[d].env)
  /\ DeliveredWasHandled

\* An "ok" for a packet that was handled keeps the evidence.
LEMMA AnswerEvidence ==
  ASSUME TypeInv, Routing, Evidence, NEW r \in Request, NEW a, Answer(r, a),
         r.by # None => sending[r.by].env = r.env, UNCHANGED <<sending, handled>>,
         a = "ok" => Handled(r.env)
  PROVE  \A d \in Drainer : answer'[d] = "ok" => Handled(sending[d].env)'
  BY DEF TypeInv, PassesOK, Request, Answer, Evidence, Handled

\* A handler that has run has run: the count only grows.
LEMMA HandledGrows ==
  TypeInv /\ [Next]_vars => \A e \in Envelope : Handled(e) => Handled(e)'
  <1> SUFFICES ASSUME TypeInv, [Next]_vars, NEW e \in Envelope, Handled(e)
               PROVE  Handled(e)'
    OBVIOUS
  <1>1. CASE UNCHANGED handled
    BY <1>1 DEF Handled
  <1>2. ASSUME NEW r \in net, handled' = [handled EXCEPT ![r.env] = @ + 1]
        PROVE  Handled(e)'
    BY <1>2 DEF Handled, TypeInv, CountsOK
  <1> QED
    BY <1>1, <1>2
    DEF Next, Step, Enqueue, SweepInbox, StartPass, Send, Receive, Timeout, CrashDrainer,
        Take, Record, Lose, CrashPeer, Tick, vars, sender, peer

\* Only the drainer that holds an "ok" marks a row delivered.
LEMMA DeliveredStep ==
  ASSUME TypeInv, Routing, [Next]_vars, NEW e \in Envelope,
         outbox'[e] # None, outbox'[e].state = "delivered"
  PROVE  \/ outbox[e] # None /\ outbox[e].state = "delivered"
         \/ \E d \in Drainer : answer[d] = "ok" /\ sending[d].env = e
  <1> DEFINE Kept == outbox[e] # None /\ outbox[e].state = "delivered"
  <1>0. RowsOK /\ PassesOK
    BY DEF TypeInv
  <1>1. CASE UNCHANGED outbox
    BY <1>1
  <1>2. ASSUME NEW row \in Listed, MarkFailed(row) PROVE Kept
    BY <1>0, <1>2, MarkFailedRow
  <1>3. ASSUME NEW f \in Envelope, Enqueue(f) PROVE Kept
    BY <1>0, <1>3 DEF Enqueue, RowsOK
  <1>4. ASSUME NEW d \in Drainer, StartPass(d) PROVE Kept
    BY <1>0, <1>4, StartRow
  <1>5. ASSUME NEW d \in Drainer, Send(d) PROVE Kept
    <2>1. \A row \in todo[d] : row \in Listed
      BY <1>0, <1>5 DEF Send, PassesOK
    <2> QED
      BY <1>1, <1>2, <1>5, <2>1 DEF Send
  <1>6. ASSUME NEW d \in Drainer, Receive(d)
        PROVE  Kept \/ (answer[d] = "ok" /\ sending[d].env = e)
    <2>1. sending[d] \in Listed
      BY <1>0, <1>6 DEF Receive, PassesOK, Routing
    <2>2. CASE MarkFailed(sending[d])
      BY <1>2, <2>1, <2>2
    <2>3. CASE Accepted(answer[d]) /\ MarkDelivered(sending[d])
      BY <1>0, <2>1, <2>3, MarkDeliveredRow DEF Accepted
    <2> QED
      BY <1>6, <2>2, <2>3 DEF Receive
  <1>7. ASSUME NEW d \in Drainer, Timeout(d) PROVE Kept
    BY <1>0, <1>2, <1>7 DEF Timeout, PassesOK
  <1>8. ASSUME Tick PROVE Kept
    BY <1>0, <1>8, TickRow
  <1> QED
    BY <1>1, <1>3, <1>4, <1>5, <1>6, <1>7, <1>8
    DEF Next, Step, SweepInbox, CrashDrainer, Take, Record, Lose, CrashPeer, vars, sender

\* Every step keeps the evidence.
LEMMA EvidenceStep == TypeInv /\ Routing /\ Evidence /\ [Next]_vars => Evidence'
  <1> SUFFICES ASSUME TypeInv, Routing, Evidence, [Next]_vars PROVE Evidence'
    OBVIOUS
  <1>0. /\ PassesOK /\ CountsOK /\ net \subseteq Request
        /\ \A r \in Request : r # None /\ r.env \in Envelope
    BY KindAssumption DEF TypeInv, PassesOK, Request
  <1>1. \A e \in Envelope : Handled(e) => Handled(e)'
    BY HandledGrows
  <1>2. \A d \in Drainer : answer[d] = "ok" => sending[d].env \in Envelope
    BY <1>0, KindAssumption DEF Routing, PassesOK, Listed
  <1>3. DeliveredWasHandled'
    <2> SUFFICES ASSUME NEW e \in Envelope, outbox'[e] # None, outbox'[e].state = "delivered"
                 PROVE  Handled(e)'
      BY DEF DeliveredWasHandled, Handled
    <2>1. CASE outbox[e] # None /\ outbox[e].state = "delivered"
      BY <1>1, <2>1 DEF Evidence, DeliveredWasHandled, Handled
    <2>2. CASE \E d \in Drainer : answer[d] = "ok" /\ sending[d].env = e
      BY <1>1, <2>2 DEF Evidence
    <2> QED
      BY <2>1, <2>2, DeliveredStep
  <1> DEFINE Holds == /\ \A e \in Envelope : inbox[e] # None => Handled(e)
                      /\ handling # None => handled[handling.env] > 0
             Told == \A d \in Drainer : answer[d] = "ok" => Handled(sending[d].env)
  <1>4. Holds'
    <2>1. CASE UNCHANGED peer
      BY <2>1 DEF peer, Evidence, Handled
    <2>2. ASSUME NEW e \in Envelope, SweepInbox(e) PROVE Holds'
      BY <1>0, <2>2 DEF SweepInbox, CountsOK, Evidence, Handled
    <2>3. ASSUME NEW d \in Drainer, Abandon(d), UNCHANGED <<inbox, handled, lapses>>
          PROVE  Holds'
      <3>1. (handling' = None <=> handling = None)
            /\ (handling # None => handling'.env = handling.env)
        BY <1>0, <2>3, KindAssumption DEF Abandon, PassesOK, Request
      <3> QED
        BY <2>3, <3>1 DEF Evidence, Handled
    <2>4. ASSUME NEW r \in net, Take(r) PROVE Holds'
      <3>1. r.env \in Envelope /\ r # None /\ handling = None
        BY <1>0, <2>4 DEF Take
      <3>2. CASE UNCHANGED <<inbox, handling, handled>>
        BY <3>2 DEF Evidence, Handled
      <3>3. CASE /\ Kind[r.env] = "refused" /\ RecordInbox(r.env)
                 /\ UNCHANGED <<handling, handled>>
        BY <1>0, <3>1, <3>3 DEF RecordInbox, CountsOK, Evidence, Handled
      <3>4. CASE /\ handled' = [handled EXCEPT ![r.env] = @ + 1]
                 /\ handling' = r /\ UNCHANGED inbox
        <4>1. handled'[handling'.env] > 0
          BY <1>0, <3>1, <3>4 DEF CountsOK
        <4> QED
          BY <1>1, <3>4, <4>1 DEF Evidence
      <3> QED
        BY <2>4, <3>2, <3>3, <3>4 DEF Take
    <2>5. ASSUME Record PROVE Holds'
      <3>1. handling \in Request /\ Handled(handling.env)
        BY <1>0, <2>5 DEF Record, PassesOK, Evidence, Handled
      <3>2. \A e \in Envelope : inbox'[e] # None => inbox[e] # None \/ e = handling.env
        BY <1>0, <2>5 DEF Record, RecordInbox, CountsOK
      <3>3. handling' = None
        BY <2>5 DEF Record
      <3> QED
        BY <1>0, <1>1, <3>1, <3>2, <3>3 DEF Evidence
    <2>6. ASSUME CrashPeer PROVE Holds'
      BY <2>6 DEF CrashPeer, Evidence, Handled
    <2>7. ASSUME Tick PROVE Holds'
      <3>1. \A e \in Envelope : inbox'[e] # None => inbox[e] # None
        BY <2>7 DEF Tick, Known
      <3> QED
        BY <2>7, <3>1 DEF Tick, Evidence, Handled
    <2>8. CASE UNCHANGED vars
      BY <2>1, <2>8 DEF vars
    <2> QED
      BY <2>1, <2>2, <2>3, <2>4, <2>5, <2>6, <2>7, <2>8
      DEF Next, Step, Enqueue, StartPass, Send, Receive, Timeout, CrashDrainer, Lose
  <1>5. Told'
    <2>1. CASE UNCHANGED <<sending, answer>>
      BY <1>1, <1>2, <2>1 DEF Evidence
    <2>2. ASSUME NEW d \in Drainer, Send(d) PROVE Told'
      <3>1. answer'[d] = None /\ \A c \in Drainer \ {d} : sending'[c] = sending[c] /\ answer'[c] = answer[c]
        BY <1>0, <2>2 DEF Send, PassesOK, Routing
      <3> QED
        BY <1>1, <1>2, <3>1, KindAssumption DEF Evidence
    <2>3. ASSUME NEW d \in Drainer, Receive(d) \/ Timeout(d) \/ CrashDrainer(d) PROVE Told'
      <3>1. answer'[d] = None /\ \A c \in Drainer \ {d} : sending'[c] = sending[c] /\ answer'[c] = answer[c]
        BY <1>0, <2>3 DEF Receive, Timeout, CrashDrainer, Advance, PassesOK
      <3> QED
        BY <1>1, <1>2, <3>1, KindAssumption DEF Evidence
    <2>4. ASSUME NEW r \in Request, NEW a, Answer(r, a), UNCHANGED <<sending, handled>>,
                 r.by # None => sending[r.by].env = r.env, a = "ok" => Handled(r.env)
          PROVE  Told'
      BY <2>4, AnswerEvidence DEF Handled
    <2>5. ASSUME NEW r \in net, Take(r) PROVE Told'
      <3>1. r \in Request /\ (r.by # None => sending[r.by].env = r.env)
        BY <1>0 DEF Routing
      <3>2. Known(r.env) => Handled(r.env)
        BY <1>0, <3>1 DEF Known, Evidence
      <3>3. CASE UNCHANGED answer
        BY <1>1, <1>2, <2>1, <2>5, <3>3 DEF Take
      <3>4. CASE \E a : Answer(r, a) /\ (a = "ok" => Known(r.env)) /\ UNCHANGED handled
        BY <2>4, <2>5, <3>1, <3>2, <3>4 DEF Take
      <3> QED
        BY <2>5, <3>3, <3>4 DEF Take
    <2>6. ASSUME Record PROVE Told'
      <3>1. handling \in Request /\ Handled(handling.env)
        BY <1>0, <2>6 DEF Record, PassesOK, Evidence, Handled
      <3>2. handling.by # None => sending[handling.by].env = handling.env
        BY <2>6 DEF Record, Routing
      <3> QED
        BY <2>4, <2>6, <3>1, <3>2 DEF Record
    <2> QED
      BY <2>1, <2>2, <2>3, <2>5, <2>6
      DEF Next, Step, Enqueue, SweepInbox, StartPass, Lose, CrashPeer, Tick, vars, sender
  <1> QED
    BY <1>3, <1>4, <1>5 DEF Evidence

-----------------------------------------------------------------------------
(* Attempts are never invented. *)

\* No copy of a row's attempts, in the table or in a listing however stale,
\* exceeds the attempts made; the one in flight is already among them.
Attempted ==
  /\ GivenUpAfterAllAttempts
  /\ \A d \in Drainer : todo[d] # None =>
       \A row \in todo[d] : row.attempts <= tries[row.env] /\ row.attempts < MaxAttempts
  /\ \A d \in Drainer : sending[d] # None => sending[d].attempts < tries[sending[d].env]

\* A failed attempt that was made may be written down.
LEMMA FailedAttempted ==
  ASSUME TypeInv, Attempted, NEW row \in Listed, MarkFailed(row),
         row.attempts < tries'[row.env],
         \A e \in Envelope : tries'[e] \in Nat /\ tries[e] <= tries'[e]
  PROVE  GivenUpAfterAllAttempts'
  <1> SUFFICES ASSUME NEW e \in Envelope, outbox'[e] # None
               PROVE  /\ outbox'[e].attempts <= tries'[e]
                      /\ outbox'[e].state = "failed" => tries'[e] >= MaxAttempts
    BY DEF GivenUpAfterAllAttempts
  <1>0. RowsOK /\ CountsOK /\ row.attempts \in Nat /\ MaxAttempts \in Nat
    BY TimeAssumption DEF TypeInv, Listed
  <1>1. CASE outbox[e] # None /\ outbox'[e] = outbox[e]
    BY <1>0, <1>1 DEF Attempted, GivenUpAfterAllAttempts, RowsOK, CountsOK
  <1>2. CASE /\ e = row.env /\ outbox'[e].attempts = row.attempts + 1
             /\ \/ outbox'[e].state = "pending"
                \/ outbox'[e].state = "failed" /\ row.attempts + 1 >= MaxAttempts
    BY <1>0, <1>2
  <1> QED
    BY <1>0, <1>1, <1>2, MarkFailedRow

\* Rows that keep their attempts and their state, or leave, stay within bounds.
LEMMA KeptAttempted ==
  ASSUME TypeInv, Attempted, UNCHANGED tries,
         \A e \in Envelope : outbox'[e] # None =>
           /\ outbox[e] # None /\ outbox'[e].attempts = outbox[e].attempts
           /\ outbox'[e].state = "failed" => outbox[e].state = "failed"
  PROVE  GivenUpAfterAllAttempts'
  BY DEF Attempted, GivenUpAfterAllAttempts

\* Every step keeps the account of the attempts.
LEMMA AttemptedStep == TypeInv /\ Routing /\ Attempted /\ [Next]_vars => Attempted'
  <1> SUFFICES ASSUME TypeInv, Routing, Attempted, [Next]_vars PROVE Attempted'
    OBVIOUS
  <1>0. RowsOK /\ PassesOK /\ CountsOK /\ MaxAttempts \in Nat
    BY TimeAssumption DEF TypeInv
  <1>1. ASSUME UNCHANGED <<outbox, todo, sending, tries>> PROVE Attempted'
    BY <1>1 DEF Attempted, GivenUpAfterAllAttempts
  <1>2. ASSUME NEW e \in Envelope, Enqueue(e) PROVE Attempted'
    <2>1. GivenUpAfterAllAttempts'
      BY <1>0, <1>2 DEF Enqueue, Attempted, GivenUpAfterAllAttempts, RowsOK, CountsOK
    <2> QED
      BY <1>2, <2>1 DEF Enqueue, Attempted
  <1>3. ASSUME NEW d \in Drainer, StartPass(d) PROVE Attempted'
    <2>1. UNCHANGED <<sending, tries>>
      BY <1>3 DEF StartPass
    <2>2. GivenUpAfterAllAttempts'
      BY <1>0, <1>3, <2>1, StartRow, KeptAttempted
    <2>3. todo'[d] # None => \A row \in todo'[d] :
            row.attempts <= tries[row.env] /\ row.attempts < MaxAttempts
      <3>1. todo'[d] # None => \A row \in todo'[d] :
              /\ row \in Listed /\ row.attempts < MaxAttempts
              /\ outbox[row.env] # None /\ row.attempts = outbox[row.env].attempts
        BY <1>0, <1>3, StartRow
      <3> QED
        BY <3>1 DEF Attempted, GivenUpAfterAllAttempts, Listed
    <2>4. \A c \in Drainer : c # d => todo'[c] = todo[c]
      BY <1>0, <1>3, StartRow
    <2> QED
      BY <2>1, <2>2, <2>3, <2>4 DEF Attempted
  <1>4. ASSUME NEW d \in Drainer, Send(d) PROVE Attempted'
    <2>1. PICK row \in todo[d] :
            /\ tries' = [tries EXCEPT ![row.env] = IF @ < MaxAttempts THEN @ + 1 ELSE @]
            /\ \/ /\ MarkFailed(row)
                  /\ todo' = [todo EXCEPT ![d] = IF @ = {row} THEN None ELSE @ \ {row}]
                  /\ UNCHANGED <<sending, net>>
               \/ /\ net' = net \cup {[env |-> row.env, by |-> d]}
                  /\ sending' = [sending EXCEPT ![d] = row]
                  /\ todo' = [todo EXCEPT ![d] = @ \ {row}]
                  /\ UNCHANGED outbox
      BY <1>4 DEF Send
    <2>2. row \in Listed /\ row.env \in Envelope /\ todo[d] # None
      BY <1>0, <1>4 DEF Send, PassesOK, Listed
    <2>3. row.attempts \in Nat /\ row.attempts <= tries[row.env] /\ row.attempts < MaxAttempts
      BY <2>2 DEF Attempted, Listed
    <2>4. \A e \in Envelope : tries'[e] \in Nat /\ tries[e] <= tries'[e]
      <3> DEFINE n == IF tries[row.env] < MaxAttempts THEN tries[row.env] + 1
                      ELSE tries[row.env]
      <3>1. n \in Nat /\ tries[row.env] <= n
        BY <1>0, <2>2 DEF CountsOK
      <3>2. tries' = [tries EXCEPT ![row.env] = n]
        BY <2>1
      <3> HIDE DEF n
      <3> QED
        BY <1>0, <2>2, <3>1, <3>2 DEF CountsOK
    <2>5. row.attempts < tries'[row.env]
      <3>1. tries'[row.env] = IF tries[row.env] < MaxAttempts THEN tries[row.env] + 1
                              ELSE tries[row.env]
        BY <1>0, <2>1, <2>2 DEF CountsOK
      <3>2. tries[row.env] \in Nat
        BY <1>0, <2>2 DEF CountsOK
      <3> QED
        BY <1>0, <2>3, <3>1, <3>2
    <2>6. GivenUpAfterAllAttempts'
      <3>1. CASE MarkFailed(row)
        BY <2>2, <2>4, <2>5, <3>1, FailedAttempted
      <3>2. CASE UNCHANGED outbox
        <4> SUFFICES ASSUME NEW e \in Envelope, outbox[e] # None
                     PROVE  /\ outbox[e].attempts <= tries'[e]
                            /\ outbox[e].state = "failed" => tries'[e] >= MaxAttempts
          BY <3>2 DEF GivenUpAfterAllAttempts
        <4>1. outbox[e].attempts \in Nat /\ tries[e] \in Nat
          BY <1>0 DEF RowsOK, CountsOK
        <4> QED
          BY <1>0, <2>4, <4>1 DEF Attempted, GivenUpAfterAllAttempts
      <3> QED
        BY <2>1, <3>1, <3>2
    <2>7. \A c \in Drainer : todo'[c] # None => todo[c] # None /\ todo'[c] \subseteq todo[c]
      BY <1>0, <2>1, <2>2 DEF PassesOK
    <2>8. \A c \in Drainer : todo'[c] # None =>
            \A other \in todo'[c] : other.attempts <= tries'[other.env] /\ other.attempts < MaxAttempts
      <3> SUFFICES ASSUME NEW c \in Drainer, todo'[c] # None, NEW other \in todo'[c]
                   PROVE  other.attempts <= tries'[other.env] /\ other.attempts < MaxAttempts
        OBVIOUS
      <3>1. other \in todo[c] /\ todo[c] # None
        BY <2>7
      <3>2. other \in Listed
        BY <1>0, <3>1 DEF PassesOK
      <3>3. other.attempts \in Nat /\ other.env \in Envelope /\ tries[other.env] \in Nat
        BY <1>0, <3>2 DEF Listed, CountsOK
      <3> QED
        BY <2>4, <3>1, <3>3 DEF Attempted
    <2>9. \A c \in Drainer : sending'[c] # None => sending'[c].attempts < tries'[sending'[c].env]
      <3> SUFFICES ASSUME NEW c \in Drainer, sending'[c] # None
                   PROVE  sending'[c].attempts < tries'[sending'[c].env]
        OBVIOUS
      <3>1. CASE sending'[c] = row
        BY <2>5, <3>1
      <3>2. CASE sending'[c] = sending[c]
        <4>1. sending[c] \in Listed
          BY <1>0, <3>2 DEF PassesOK
        <4>2. /\ sending[c].attempts \in Nat /\ sending[c].env \in Envelope
              /\ tries[sending[c].env] \in Nat
          BY <1>0, <4>1 DEF Listed, CountsOK
        <4> QED
          BY <2>4, <3>2, <4>2 DEF Attempted
      <3> QED
        BY <1>0, <2>1, <3>1, <3>2 DEF PassesOK
    <2> QED
      BY <2>6, <2>8, <2>9 DEF Attempted
  <1>5. ASSUME NEW d \in Drainer, Advance(d), UNCHANGED tries, GivenUpAfterAllAttempts'
        PROVE  Attempted'
    <2>1. \A c \in Drainer : /\ todo'[c] # None => todo'[c] = todo[c]
                             /\ sending'[c] # None => sending'[c] = sending[c]
      BY <1>0, <1>5 DEF Advance, PassesOK
    <2> QED
      BY <1>5, <2>1 DEF Attempted
  <1>6. ASSUME NEW d \in Drainer, sending[d] # None, MarkFailed(sending[d]), UNCHANGED tries
        PROVE  GivenUpAfterAllAttempts'
    <2>1. sending[d] \in Listed
      BY <1>0, <1>6 DEF PassesOK
    <2>2. \A e \in Envelope : tries'[e] \in Nat /\ tries[e] <= tries'[e]
      BY <1>0, <1>6 DEF CountsOK
    <2> QED
      BY <1>6, <2>1, <2>2, FailedAttempted DEF Attempted
  <1>7. ASSUME NEW d \in Drainer, Receive(d) PROVE Attempted'
    <2>1. sending[d] # None /\ sending[d] \in Listed
      BY <1>0, <1>7 DEF Receive, PassesOK, Routing
    <2>2. CASE MarkDelivered(sending[d])
      <3>1. GivenUpAfterAllAttempts'
        BY <1>0, <1>7, <2>1, <2>2, MarkDeliveredRow, KeptAttempted DEF Receive
      <3> QED
        BY <1>5, <1>7, <3>1 DEF Receive
    <2>3. CASE MarkFailed(sending[d])
      BY <1>5, <1>6, <1>7, <2>1, <2>3 DEF Receive
    <2> QED
      BY <1>7, <2>2, <2>3 DEF Receive
  <1>8. ASSUME NEW d \in Drainer, Timeout(d) PROVE Attempted'
    BY <1>5, <1>6, <1>8 DEF Timeout
  <1>9. ASSUME NEW d \in Drainer, CrashDrainer(d) PROVE Attempted'
    <2>1. \A c \in Drainer : /\ todo'[c] # None => todo'[c] = todo[c]
                             /\ sending'[c] # None => sending'[c] = sending[c]
      BY <1>0, <1>9 DEF CrashDrainer, PassesOK
    <2> QED
      BY <1>9, <2>1 DEF CrashDrainer, Attempted, GivenUpAfterAllAttempts
  <1>10. ASSUME Tick PROVE Attempted'
    <2>1. GivenUpAfterAllAttempts'
      BY <1>0, <1>10, TickRow, KeptAttempted DEF Tick
    <2> QED
      BY <1>10, <2>1 DEF Tick, Attempted
  <1> QED
    BY <1>1, <1>2, <1>3, <1>4, <1>7, <1>8, <1>9, <1>10
    DEF Next, Step, SweepInbox, Take, Record, Lose, CrashPeer, vars, sender
-----------------------------------------------------------------------------
(* Waits, ages and counts stay within their caps. *)

\* What the types of the properties leave out: the values a row can hold, that
\* a drainer awaits an answer only within a pass, and the bounded counts.
Bounded ==
  /\ outbox \in [Envelope -> Row \cup {None}]
  /\ \A d \in Drainer : sending[d] # None => sending[d].attempts < MaxAttempts /\ todo[d] # None
  /\ inbox \in [Envelope -> (0 .. InboxTtl) \cup {None}]
  /\ passes \in Nat /\ crashes \in Nat

\* The backoff is a wait up to its cap, for every attempt that is retried.
LEMMA BackoffBounded ==
  ASSUME NEW n \in Nat, 1 <= n, n <= MaxAttempts
  PROVE  Backoff(n) \in 0 .. MaxWait
  <1>1. MaxAttempts \in Nat /\ MaxWait \in Nat
    BY TimeAssumption
  <1>2. Doubled = CHOOSE f : Doubles(f, MaxAttempts)
    BY DEF Doubled, Doubles
  <1>3. Doubled[n - 1] \in Nat
    BY <1>1, <1>2, Doubling
  <1> QED
    BY <1>1, <1>3 DEF Backoff

\* Writing values within the caps keeps the rows within them.
LEMMA MarkBounded ==
  ASSUME RowsOK, Bounded, NEW row \in Listed,
         NEW state \in {"pending", "delivered", "failed"}, NEW n \in 0 .. MaxAttempts,
         NEW wait \in 0 .. MaxWait, Mark(row, state, n, wait)
  PROVE  outbox' \in [Envelope -> Row \cup {None}]
  <1>0. row.env \in Envelope
    BY DEF Listed
  <1>1. CASE outbox[row.env] = None
    BY <1>1 DEF Mark, Bounded
  <1>2. CASE outbox[row.env] # None
    <2> DEFINE r == outbox[row.env]
               a == [r EXCEPT !.state = state]
               b == [a EXCEPT !.attempts = n]
               c == [b EXCEPT !.wait = wait]
    <2>1. r \in Row
      BY <1>0, <1>2 DEF Bounded
    <2>2. c \in Row
      BY <2>1 DEF Row
    <2>3. outbox' = [outbox EXCEPT ![row.env] = c]
      BY <1>0, <1>2 DEF Mark, RowsOK
    <2> QED
      BY <1>0, <2>2, <2>3 DEF RowsOK, Bounded
  <1> QED
    BY <1>1, <1>2

LEMMA MarkFailedBounded ==
  ASSUME RowsOK, Bounded, NEW row \in Listed, row.attempts < MaxAttempts, MarkFailed(row)
  PROVE  outbox' \in [Envelope -> Row \cup {None}]
  <1>1. /\ Attempts(row) \in Nat /\ 1 <= Attempts(row) /\ Attempts(row) <= MaxAttempts
        /\ Attempts(row) \in 0 .. MaxAttempts /\ 0 \in 0 .. MaxWait
    BY TimeAssumption DEF Attempts, Listed
  <1>2. CASE GivesUp(Attempts(row))
    <2>1. Mark(row, "failed", Attempts(row), 0)
      BY <1>2 DEF MarkFailed
    <2> QED
      BY <1>1, <2>1, MarkBounded
  <1>3. CASE ~GivesUp(Attempts(row))
    <2>1. Mark(row, "pending", Attempts(row), Backoff(Attempts(row)))
      BY <1>3 DEF MarkFailed
    <2>2. Backoff(Attempts(row)) \in 0 .. MaxWait
      BY <1>1, BackoffBounded
    <2> QED
      BY <1>1, <2>1, <2>2, MarkBounded
  <1> QED
    BY <1>2, <1>3

LEMMA MarkDeliveredBounded ==
  ASSUME RowsOK, Bounded, NEW row \in Listed, MarkDelivered(row)
  PROVE  outbox' \in [Envelope -> Row \cup {None}]
  <1>0. row.env \in Envelope /\ 0 \in 0 .. MaxWait
    BY TimeAssumption DEF Listed
  <1>1. CASE outbox[row.env] = None
    BY <1>1 DEF MarkDelivered, Mark, Bounded
  <1>2. CASE outbox[row.env] # None
    <2>1. outbox[row.env].attempts \in 0 .. MaxAttempts
      BY <1>0, <1>2 DEF Bounded, Row
    <2>2. Mark(row, "delivered", outbox[row.env].attempts, 0)
      BY <1>2 DEF MarkDelivered
    <2> QED
      BY <1>0, <2>1, <2>2, MarkBounded
  <1> QED
    BY <1>1, <1>2

LEMMA TickBounded ==
  ASSUME RowsOK, CountsOK, Bounded, Tick
  PROVE  Bounded'
  <1>0. /\ InboxTtl \in Nat /\ FailedTtl \in Nat /\ MaxWait \in Nat
    BY TimeAssumption
  <1>1. ASSUME NEW e \in Envelope, outbox[e] # None PROVE outbox'[e] \in Row
    <2> DEFINE r == outbox[e]
               a == [r EXCEPT !.wait = IF r.wait > 0 THEN r.wait - 1 ELSE 0]
               b == [a EXCEPT !.age = Older(a.age, FailedTtl)]
    <2>1. r \in Row /\ outbox'[e] = b
      BY <1>1 DEF Tick, Bounded
    <2>2. (IF r.wait > 0 THEN r.wait - 1 ELSE 0) \in 0 .. MaxWait
      BY <1>0, <2>1 DEF Row
    <2>3. a \in Row /\ a.age = r.age
      BY <2>1, <2>2 DEF Row
    <2>4. Older(a.age, FailedTtl) \in 0 .. FailedTtl
      BY <1>0, <2>1, <2>3 DEF Row, Older
    <2>5. b \in Row
      <3> HIDE DEF a
      <3> QED BY <2>3, <2>4 DEF Row
    <2> QED
      BY <2>1, <2>5
  <1>2. inbox' \in [Envelope -> (0 .. InboxTtl) \cup {None}]
    <2>1. \A e \in Envelope : Known(e) => Older(inbox[e], InboxTtl) \in 0 .. InboxTtl
      BY <1>0 DEF Bounded, Known, Older
    <2> QED
      BY <2>1 DEF Tick
  <1> QED
    <2>1. outbox' \in [Envelope -> Row \cup {None}]
      BY <1>1 DEF Tick
    <2> QED
      BY <1>2, <2>1 DEF Tick, Bounded

LEMMA BoundedStep ==
  TypeInv /\ Routing /\ Attempted /\ Bounded /\ [Next]_vars => Bounded'
  <1> SUFFICES ASSUME TypeInv, Routing, Attempted, Bounded, [Next]_vars PROVE Bounded'
    OBVIOUS
  <1>0. /\ RowsOK /\ PassesOK /\ CountsOK
        /\ MaxAttempts \in Nat \ {0} /\ InboxTtl \in Nat /\ FailedTtl \in Nat /\ MaxWait \in Nat
    BY TimeAssumption DEF TypeInv
  <1>1. ASSUME NEW e \in Envelope, Enqueue(e) PROVE Bounded'
    <2>1. [state |-> "pending", attempts |-> 0, wait |-> 0, age |-> 0] \in Row
      BY <1>0 DEF Row
    <2> QED
      BY <1>0, <1>1, <2>1 DEF Enqueue, Bounded, RowsOK, peer
  <1>2. ASSUME NEW e \in Envelope, SweepInbox(e) PROVE Bounded'
    BY <1>2 DEF SweepInbox, Bounded, sender
  <1>3. ASSUME NEW d \in Drainer, StartPass(d) PROVE Bounded'
    <2>1. outbox' = Swept \/ outbox' = outbox
      BY <1>3 DEF StartPass
    <2>5. outbox' \in [Envelope -> Row \cup {None}]
      BY <2>1 DEF Swept, Bounded
    <2>2. sending[d] = None
      BY <1>3 DEF StartPass, Bounded
    <2>3. \A c \in Drainer : c # d => todo'[c] = todo[c]
      BY <1>0, <1>3, StartRow
    <2>4. passes' \in Nat /\ UNCHANGED <<sending, inbox, crashes>>
      BY <1>3 DEF StartPass, Bounded, peer
    <2> QED
      BY <2>2, <2>3, <2>4, <2>5 DEF Bounded
  <1>4. ASSUME NEW d \in Drainer, Send(d) PROVE Bounded'
    <2>1. PICK row \in todo[d] :
            /\ \/ /\ MarkFailed(row)
                  /\ todo' = [todo EXCEPT ![d] = IF @ = {row} THEN None ELSE @ \ {row}]
                  /\ UNCHANGED <<sending, net>>
               \/ /\ net' = net \cup {[env |-> row.env, by |-> d]}
                  /\ sending' = [sending EXCEPT ![d] = row]
                  /\ todo' = [todo EXCEPT ![d] = @ \ {row}]
                  /\ UNCHANGED outbox
      BY <1>4 DEF Send
    <2>2. /\ todo[d] # None /\ sending[d] = None /\ todo[d] \subseteq Listed
          /\ UNCHANGED <<inbox, passes, crashes>>
      BY <1>0, <1>4 DEF Send, PassesOK, peer
    <2>3. row \in Listed /\ row.attempts < MaxAttempts
      BY <2>1, <2>2 DEF Attempted
    <2>4. outbox' \in [Envelope -> Row \cup {None}]
      BY <1>0, <2>1, <2>3, MarkFailedBounded DEF Bounded
    <2>5. todo[d] \ {row} # None
      <3>1. \A r \in todo[d] : r \in [env : Envelope, attempts : 0 .. MaxAttempts - 1]
        BY <1>0, <2>2 DEF Listed, Attempted
      <3>2. todo[d] \ {row} \in SUBSET [env : Envelope, attempts : 0 .. MaxAttempts - 1]
        BY <3>1
      <3> QED
        BY <3>2, KindAssumption
    <2>6. \A c \in Drainer : sending'[c] # None =>
            sending'[c].attempts < MaxAttempts /\ todo'[c] # None
      BY <1>0, <2>1, <2>2, <2>3, <2>5 DEF Bounded, PassesOK
    <2> QED
      BY <2>2, <2>4, <2>6 DEF Bounded
  <1>5. ASSUME NEW d \in Drainer, Receive(d) PROVE Bounded'
    <2>1. sending[d] \in Listed /\ sending[d].attempts < MaxAttempts
      BY <1>0, <1>5 DEF Receive, PassesOK, Routing, Bounded
    <2>2. outbox' \in [Envelope -> Row \cup {None}]
      BY <1>0, <1>5, <2>1, MarkFailedBounded, MarkDeliveredBounded DEF Receive
    <2> QED
      BY <1>0, <1>5, <2>2 DEF Receive, Advance, Bounded, PassesOK, peer
  <1>6. ASSUME NEW d \in Drainer, Timeout(d) PROVE Bounded'
    <2>1. sending[d] \in Listed /\ sending[d].attempts < MaxAttempts
      BY <1>0, <1>6 DEF Timeout, PassesOK, Bounded
    <2>2. outbox' \in [Envelope -> Row \cup {None}]
      BY <1>0, <1>6, <2>1, MarkFailedBounded DEF Timeout
    <2> QED
      BY <1>0, <1>6, <2>2 DEF Timeout, Advance, Bounded, PassesOK
  <1>7. ASSUME NEW d \in Drainer, CrashDrainer(d) PROVE Bounded'
    BY <1>0, <1>7 DEF CrashDrainer, Bounded, PassesOK
  <1>8. ASSUME NEW r \in net, Take(r) PROVE Bounded'
    <2>1. inbox' = inbox \/ RecordInbox(r.env)
      BY <1>8 DEF Take
    <2>2. inbox' \in [Envelope -> (0 .. InboxTtl) \cup {None}]
      BY <1>0, <2>1 DEF RecordInbox, Bounded
    <2> QED
      BY <1>8, <2>2 DEF Take, Bounded
  <1>9. ASSUME Record PROVE Bounded'
    <2>1. inbox' \in [Envelope -> (0 .. InboxTtl) \cup {None}]
      <3>1. inbox' = [inbox EXCEPT ![handling.env] = IF @ = None THEN 0 ELSE @]
        BY <1>9 DEF Record, RecordInbox
      <3>2. 0 \in 0 .. InboxTtl
        BY <1>0
      <3> QED
        BY <3>1, <3>2 DEF Bounded
    <2> QED
      BY <1>9, <2>1 DEF Record, Bounded
  <1>10. ASSUME NEW r \in net, Lose(r) PROVE Bounded'
    BY <1>10 DEF Lose, Bounded, sender, peer
  <1>11. ASSUME CrashPeer PROVE Bounded'
    BY <1>11 DEF CrashPeer, Bounded, sender
  <1>12. ASSUME Tick PROVE Bounded'
    BY <1>0, <1>12, TickBounded
  <1>13. CASE UNCHANGED vars
    BY <1>13 DEF vars, sender, peer, Bounded
  <1> QED
    BY <1>1, <1>2, <1>3, <1>4, <1>5, <1>6, <1>7, <1>8, <1>9, <1>10, <1>11, <1>12, <1>13
    DEF Next, Step
-----------------------------------------------------------------------------
(* Theorems *)

Inv == TypeInv /\ Routing /\ Accounted /\ Evidence /\ Attempted /\ Bounded

LEMMA InvInit == Init => Inv
  <1> SUFFICES ASSUME Init PROVE Inv
    OBVIOUS
  <1>1. TypeInv /\ Routing
    BY TypeInit, RoutingInit
  <1>2. Accounted /\ Evidence /\ Attempted
    BY KindAssumption DEF Init, Accounted, Evidence, DeliveredWasHandled, Attempted,
       GivenUpAfterAllAttempts
  <1>3. Bounded
    BY KindAssumption, TimeAssumption DEF Init, Bounded
  <1> QED
    BY <1>1, <1>2, <1>3 DEF Inv

\* The strengthening is inductive, and it implies the properties.
LEMMA Invariance == Spec => []Inv
  <1>1. Inv /\ [Next]_vars => Inv'
    BY TypeStep, RoutingStep, AccountedStep, EvidenceStep, AttemptedStep, BoundedStep DEF Inv
  <1> QED
    BY <1>1, InvInit, PTL DEF Spec

\* The peer's handler runs again for a packet only if the record of its first
\* run was lost, whatever the network, the timeouts and the drainers do.
THEOREM OnceUnlessForgotten == Spec => []HandledAgainOnlyAfterLapse
  <1>1. Inv => HandledAgainOnlyAfterLapse
    BY DEF Inv, Accounted, HandledAgainOnlyAfterLapse
  <1> QED
    BY <1>1, Invariance, PTL

\* The sender marks a packet that has a handler delivered only if it was handled.
THEOREM DeliveredHandled == Spec => []DeliveredWasHandled
  <1>1. Inv => DeliveredWasHandled
    BY DEF Inv, Evidence
  <1> QED
    BY <1>1, Invariance, PTL

\* A row is given up only after MaxAttempts attempts, however many overlapping
\* passes overwrite each other's count of them.
THEOREM GivenUpHonestly == Spec => []GivenUpAfterAllAttempts
  <1>1. Inv => GivenUpAfterAllAttempts
    BY DEF Inv, Attempted
  <1> QED
    BY <1>1, Invariance, PTL

\* Every value keeps its type: the attempts written and the waits stay within
\* their maximum however the drainers overwrite each other, and no answer is
\* left over from a row a drainer has done with.
THEOREM Typing == Spec => []TypeOK
  <1>1. ASSUME Inv PROVE TypeOK
    <2>1. /\ TypeInv /\ Routing /\ Attempted /\ Bounded
          /\ RowsOK /\ PassesOK /\ CountsOK
      BY <1>1 DEF Inv, TypeInv
    <2>3. \A d \in Drainer : /\ todo[d] # None => \A row \in todo[d] : row.attempts < MaxAttempts
                             /\ answer[d] # None => sending[d] # None
                             /\ sending[d] # None => todo[d] # None
      BY <2>1 DEF Attempted, Routing, Bounded
    <2>4. \A h \in {handled, tries, lapses} : h \in [Envelope -> Nat]
      BY <2>1 DEF CountsOK
    <2> QED
      BY <2>1, <2>3, <2>4 DEF TypeOK, PassesOK, Bounded
  <1> QED
    BY <1>1, Invariance, PTL
=============================================================================
