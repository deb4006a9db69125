--------------------------- MODULE CalendarProofs ---------------------------
(***************************************************************************)
(* Proofs about Calendar, for any calls, obligations, wakes, number of     *)
(* crashes and length of the log: types, that the table is the projection  *)
(* of the log, and what may undo a human judgment.                         *)
(***************************************************************************)
EXTENDS Calendar, RecursionLemmas

-----------------------------------------------------------------------------
(* The store's operations, and the rows that a replay gives.               *)

Rows == [Obl -> Row \cup {None}]

LEMMA EventParts ==
  ASSUME NEW e \in Event
  PROVE  /\ e.obl \in Obl /\ e.at \in Nat /\ e.id \in EventId
         /\ e.kind \in {"wake", "evidence", "close", "escalate", "resolve"}
         /\ e.kind = "wake" => e.wake \in Wake
         /\ e.kind = "evidence" => e.run \in Run
         /\ e.kind = "resolve" => e.decision \in Decision
  BY DEF Event

LEMMA UpsertTyped ==
  ASSUME NEW r \in Row \cup {None}, NEW w \in Wake
  PROVE  Upsert(r, w) \in Row
  <1>1. w.due \in Nat /\ w.every \in Nat \cup {None} /\ w.deadline \in Nat \cup {None}
    BY WakeAssumption
  <1>2. r # None => r.runs \in Nat /\ r.ok \in BOOLEAN \cup {None}
    BY DEF Row
  <1> QED
    BY <1>1, <1>2 DEF Upsert, Row, Status

LEMMA RecordRunTyped ==
  ASSUME NEW r \in Row, NEW u \in Run, NEW now \in Nat
  PROVE  RecordRun(r, u, now) \in Row
  <1> DEFINE next == CASE u.closed -> None
                       [] ~u.closed /\ u.next # None -> u.next
                       [] OTHER -> NextRun(r.every, now)
  <1>1. next \in Nat \cup {None}
    BY DEF Run, Row, NextRun
  <1>2. (IF u.closed THEN now ELSE r.closedAt) \in Nat \cup {None}
    BY DEF Row
  <1>3. u.status \in Status /\ u.ok \in BOOLEAN /\ r.runs + 1 \in Nat
    BY DEF Run, Row
  <1> HIDE DEF next
  <1>4. [r EXCEPT !.status = u.status, !.ok = u.ok, !.runs = @ + 1,
                  !.next = next, !.closedAt = IF u.closed THEN now ELSE @] \in Row
    BY <1>1, <1>2, <1>3 DEF Row
  <1> QED
    BY <1>4 DEF RecordRun, next

LEMMA ShownTyped ==
  ASSUME NEW r \in Row PROVE Shown(r) \in Nat \cup {None}
  BY DEF Shown, Row

LEMMA ApplyStatusTyped ==
  ASSUME NEW r \in Row, NEW status \in Status, NEW now \in Nat
  PROVE  ApplyStatus(r, status, now) \in Row
  BY ShownTyped DEF ApplyStatus, Row, Status

LEMMA JudgmentTyped ==
  ASSUME NEW decision \in Decision, NEW status \in Status
  PROVE  Judgment(decision, status) \in Status
  BY DEF Judgment, Status

LEMMA ProjectOnTyped ==
  ASSUME NEW r \in Row \cup {None}, NEW e \in Event
  PROVE  ProjectOn(r, e) \in Row \cup {None}
  <1> USE EventParts
  <1>1. CASE e.kind = "wake"
    BY <1>1, UpsertTyped DEF ProjectOn
  <1>2. CASE e.kind # "wake" /\ r = None
    BY <1>2 DEF ProjectOn
  <1>3. CASE e.kind = "evidence" /\ r # None
    BY <1>3, RecordRunTyped DEF ProjectOn
  <1>4. CASE e.kind = "close" /\ r # None
    BY <1>4, ApplyStatusTyped DEF ProjectOn, Status
  <1>5. CASE e.kind = "escalate" /\ r # None
    BY <1>5, ApplyStatusTyped DEF ProjectOn, Status
  <1>6. CASE e.kind = "resolve" /\ r # None
    <2>1. Judgment(e.decision, r.status) \in Status
      BY <1>6, JudgmentTyped DEF Row
    <2> QED
      BY <1>6, <2>1, ApplyStatusTyped DEF ProjectOn
  <1> QED
    BY <1>1, <1>2, <1>3, <1>4, <1>5, <1>6

LEMMA ProjectTyped ==
  ASSUME NEW rows \in Rows, NEW e \in Event
  PROVE  /\ Project(rows, e) \in Rows
         /\ \A o \in Obl : Project(rows, e)[o] =
              IF o = e.obl THEN ProjectOn(rows[o], e) ELSE rows[o]
  BY ProjectOnTyped, EventParts DEF Project, Rows

\* What the recursion of Replayed computes, event by event.
LEMMA ReplayedSteps ==
  ASSUME NEW events \in Seq(Event), NEW gone
  PROVE  LET f == Replayed(events, gone) IN
         /\ f \in [0 .. Len(events) -> Rows]
         /\ f[0] = [o \in Obl |-> None]
         /\ \A n \in 1 .. Len(events) :
              f[n] = IF events[n].id \in gone THEN f[n - 1] ELSE Project(f[n - 1], events[n])
  <1> DEFINE N == Len(events)
             s0 == [o \in Obl |-> None]
             step == [n \in 1 .. N |-> [r \in Rows |->
                        IF events[n].id \in gone THEN r ELSE Project(r, events[n])]]
             Body(f) == [n \in 0 .. N |->
                           IF n = 0 THEN s0
                           ELSE IF events[n].id \in gone THEN f[n - 1]
                           ELSE Project(f[n - 1], events[n])]
  <1>1. s0 \in Rows /\ N \in Nat
    BY DEF Rows
  <1>2. step \in [1 .. N -> [Rows -> Rows]]
    BY ProjectTyped
  <1>3. PICK f \in [0 .. N -> Rows] : Solves(f, N, s0, step)
    <2> HIDE DEF N, s0, step
    <2> QED BY <1>1, <1>2, Recursion
  <1>4. f = Body(f)
    <2>1. ASSUME NEW n \in 1 .. N
          PROVE  f[n] = IF events[n].id \in gone THEN f[n - 1] ELSE Project(f[n - 1], events[n])
      <3>1. n \in Nat /\ n - 1 \in 0 .. N
        BY <1>1
      <3>2. f[n - 1] \in Rows /\ f[n] = step[n][f[n - 1]]
        BY <1>3, <3>1 DEF Solves
      <3> QED
        BY <3>2
    <2>2. f[0] = s0
      BY <1>3 DEF Solves
    <2> HIDE DEF s0, step
    <2> QED
      BY <1>1, <2>1, <2>2
  <1>5. Replayed(events, gone) = CHOOSE g : g = Body(g)
    BY DEF Replayed
  <1>6. Replayed(events, gone) = Body(Replayed(events, gone))
    BY <1>4, <1>5
  <1>7. \A n \in 0 .. N : Replayed(events, gone)[n] \in Rows
    <2> DEFINE g == Replayed(events, gone)
               T == {n \in Nat : n <= N => g[n] \in Rows}
    <2>1. 0 \in T
      BY <1>1, <1>6
    <2>2. ASSUME NEW n \in Nat, n \in T PROVE n + 1 \in T
      <3> SUFFICES ASSUME n + 1 <= N PROVE g[n + 1] \in Rows
        OBVIOUS
      <3>1. g[n] \in Rows /\ events[n + 1] \in Event /\ n + 1 \in 0 .. N
        BY <1>1, <2>2
      <3>2. g[n + 1] = IF events[n + 1].id \in gone THEN g[n] ELSE Project(g[n], events[n + 1])
        BY <1>1, <1>6, <3>1
      <3> QED
        BY <3>1, <3>2, ProjectTyped
    <2>3. Nat \subseteq T
      <3> HIDE DEF T
      <3> QED BY <2>1, <2>2, Induction
    <2> QED
      BY <1>1, <2>3
  <1> DEFINE g == Replayed(events, gone)
  <1>8. g = [n \in 0 .. N |-> g[n]] /\ g[0] = s0
    BY <1>1, <1>6
  <1>9. ASSUME NEW n \in 1 .. N
        PROVE  g[n] = IF events[n].id \in gone THEN g[n - 1] ELSE Project(g[n - 1], events[n])
    <2>1. n \in 0 .. N /\ n # 0
      OBVIOUS
    <2> QED
      BY <1>6, <2>1
  <1>10. g \in [0 .. N -> Rows]
    <2> HIDE DEF g
    <2> QED BY <1>7, <1>8 DEF g
  <1>11. \A n \in 1 .. N :
           g[n] = IF events[n].id \in gone THEN g[n - 1] ELSE Project(g[n - 1], events[n])
    BY <1>9
  <1> HIDE DEF g
  <1> QED
    BY <1>8, <1>10, <1>11 DEF g

LEMMA ReplayedOn ==
  ASSUME NEW events \in Seq(Event), NEW gone, NEW o \in Obl,
         NEW n \in Nat, n + 1 <= Len(events)
  PROVE  Replayed(events, gone)[n + 1][o] =
           IF events[n + 1].obl = o /\ events[n + 1].id \notin gone
           THEN ProjectOn(Replayed(events, gone)[n][o], events[n + 1])
           ELSE Replayed(events, gone)[n][o]
  <1>1. /\ n \in 0 .. Len(events) /\ n + 1 \in 1 .. Len(events) /\ (n + 1) - 1 = n
        /\ events[n + 1] \in Event
    OBVIOUS
  <1>2. Replayed(events, gone)[n] \in Rows
    BY <1>1, ReplayedSteps
  <1>3. Replayed(events, gone)[n + 1] =
          IF events[n + 1].id \in gone THEN Replayed(events, gone)[(n + 1) - 1]
          ELSE Project(Replayed(events, gone)[(n + 1) - 1], events[n + 1])
    BY <1>1, ReplayedSteps
  <1>4. Replayed(events, gone)[n + 1] =
          IF events[n + 1].id \in gone THEN Replayed(events, gone)[n]
          ELSE Project(Replayed(events, gone)[n], events[n + 1])
    BY <1>1, <1>3
  <1> HIDE DEF Rows
  <1> QED
    BY <1>1, <1>2, <1>4, ProjectTyped

\* The rows once every event is applied.
Final(events, gone) == Replayed(events, gone)[Len(events)]

LEMMA FinalTyped ==
  ASSUME NEW events \in Seq(Event), NEW gone
  PROVE  Final(events, gone) \in Rows
  <1>1. Len(events) \in 0 .. Len(events)
    OBVIOUS
  <1> QED
    BY <1>1, ReplayedSteps DEF Final

\* A replay of a log goes through what a replay of its prefix goes through.
LEMMA FinalAppend ==
  ASSUME NEW events \in Seq(Event), NEW e \in Event, NEW gone, NEW o \in Obl
  PROVE  Final(Append(events, e), gone)[o] =
           IF e.obl = o /\ e.id \notin gone THEN ProjectOn(Final(events, gone)[o], e)
           ELSE Final(events, gone)[o]
  <1> DEFINE N == Len(events)
             more == Append(events, e)
             T == {n \in Nat : n <= N => Replayed(more, gone)[n][o] = Replayed(events, gone)[n][o]}
  <1>1. /\ more \in Seq(Event) /\ Len(more) = N + 1 /\ N \in Nat
        /\ more[N + 1] = e /\ \A n \in 1 .. N : more[n] = events[n]
    OBVIOUS
  <1>2. 0 \in T
    BY <1>1, ReplayedSteps
  <1>3. ASSUME NEW n \in Nat, n \in T PROVE n + 1 \in T
    <2> SUFFICES ASSUME n + 1 <= N
                 PROVE  Replayed(more, gone)[n + 1][o] = Replayed(events, gone)[n + 1][o]
      OBVIOUS
    <2>1. n + 1 \in 1 .. N /\ n + 1 <= Len(more)
      BY <1>1
    <2>2. Replayed(more, gone)[n][o] = Replayed(events, gone)[n][o]
      BY <1>3, <2>1
    <2> HIDE DEF more, T
    <2> QED
      BY <1>1, <2>1, <2>2, ReplayedOn
  <1>4. N \in T
    <2> HIDE DEF T
    <2> QED BY <1>1, <1>2, <1>3, Induction
  <1>6. Replayed(more, gone)[N][o] = Replayed(events, gone)[N][o]
    BY <1>1, <1>4
  <1>7. Replayed(more, gone)[N + 1][o] =
          IF e.obl = o /\ e.id \notin gone THEN ProjectOn(Replayed(more, gone)[N][o], e)
          ELSE Replayed(more, gone)[N][o]
    <2> HIDE DEF more, N
    <2> QED
      BY <1>1, ReplayedOn
  <1> QED
    BY <1>1, <1>6, <1>7 DEF Final

\* The row of an obligation depends only on which of its own events count.
LEMMA FinalAgree ==
  ASSUME NEW events \in Seq(Event), NEW here, NEW there, NEW o \in Obl,
         \A n \in 1 .. Len(events) :
           events[n].obl = o => (events[n].id \in here <=> events[n].id \in there)
  PROVE  Final(events, here)[o] = Final(events, there)[o]
  <1> DEFINE N == Len(events)
             T == {n \in Nat : n <= N => Replayed(events, here)[n][o] = Replayed(events, there)[n][o]}
  <1>1. N \in Nat
    OBVIOUS
  <1>2. 0 \in T
    BY <1>1, ReplayedSteps
  <1>3. ASSUME NEW n \in Nat, n \in T PROVE n + 1 \in T
    <2> SUFFICES ASSUME n + 1 <= N
                 PROVE  Replayed(events, here)[n + 1][o] = Replayed(events, there)[n + 1][o]
      OBVIOUS
    <2>1. n + 1 \in 1 .. N
      BY <1>1
    <2>2. Replayed(events, here)[n][o] = Replayed(events, there)[n][o]
      BY <1>3, <2>1
    <2> HIDE DEF T
    <2> QED
      BY <2>1, <2>2, ReplayedOn
  <1>4. N \in T
    <2> HIDE DEF T
    <2> QED BY <1>1, <1>2, <1>3, Induction
  <1> QED
    BY <1>4 DEF Final

\* An obligation with one event that counts has the row which that event makes.
LEMMA FinalOfOne ==
  ASSUME NEW events \in Seq(Event), NEW gone, NEW o \in Obl, NEW i \in 1 .. Len(events),
         events[i].obl = o, events[i].id \notin gone,
         \A n \in 1 .. Len(events) : n # i /\ events[n].obl = o => events[n].id \in gone
  PROVE  Final(events, gone)[o] = ProjectOn(None, events[i])
  <1> DEFINE N == Len(events)
             made == ProjectOn(None, events[i])
             T == {n \in Nat : n <= N => Replayed(events, gone)[n][o] = IF n < i THEN None ELSE made}
  <1>1. N \in Nat /\ i \in Nat /\ i > 0
    OBVIOUS
  <1>2. 0 \in T
    BY <1>1, ReplayedSteps
  <1>3. ASSUME NEW n \in Nat, n \in T PROVE n + 1 \in T
    <2> SUFFICES ASSUME n + 1 <= N
                 PROVE  Replayed(events, gone)[n + 1][o] = IF n + 1 < i THEN None ELSE made
      OBVIOUS
    <2>1. n + 1 \in 1 .. N
      BY <1>1
    <2>2. Replayed(events, gone)[n][o] = IF n < i THEN None ELSE made
      BY <1>3, <2>1
    <2>3. Replayed(events, gone)[n + 1][o] =
            IF n + 1 = i THEN ProjectOn(Replayed(events, gone)[n][o], events[n + 1])
            ELSE Replayed(events, gone)[n][o]
      BY <2>1, ReplayedOn
    <2> QED
      BY <1>1, <2>2, <2>3
  <1>4. N \in T
    <2> HIDE DEF T
    <2> QED BY <1>1, <1>2, <1>3, Induction
  <1> QED
    BY <1>1, <1>4 DEF Final

-----------------------------------------------------------------------------
(* Types.                                                                  *)

Listed == [obl : Obl, row : Row]
Steps == {"idle", "await", "handled", "mark", "store", "upsert", "close", "settle"}

LEMMA TaskAt ==
  ASSUME TypeOK, NEW c \in Call
  PROVE  /\ pc[c] \in Steps /\ at[c] \in Nat /\ todo[c] \subseteq Listed
         /\ pc[c] \in {"await", "handled"} => task[c] \in Listed
         /\ pc[c] \in {"mark", "store"} => task[c] \in Run
         /\ pc[c] = "upsert" => task[c] \in Wake
         /\ pc[c] \in {"close", "settle"} => task[c] \in [obl : Obl, status : Status]
         /\ pc[c] \notin {"idle", "upsert"} =>
              task[c].obl \in Obl /\ row[task[c].obl] # None /\ row[task[c].obl] \in Row
  <1>1. /\ pc[c] \in Steps /\ at[c] \in Nat /\ todo[c] \subseteq Listed
        /\ task[c] \in TaskOf(pc[c])
    BY DEF TypeOK, Steps, Listed
  <1>2. /\ pc[c] \in {"await", "handled"} => task[c] \in Listed
        /\ pc[c] \in {"mark", "store"} => task[c] \in Run
        /\ pc[c] = "upsert" => task[c] \in Wake
        /\ pc[c] \in {"close", "settle"} => task[c] \in [obl : Obl, status : Status]
    BY <1>1 DEF TaskOf, Listed
  <1>3. pc[c] \notin {"idle", "upsert"} => task[c].obl \in Obl
    BY <1>1, <1>2 DEF Run, Steps, Listed
  <1>4. pc[c] \notin {"idle", "upsert"} =>
          row[task[c].obl] # None /\ row[task[c].obl] \in Row
    BY <1>3 DEF TypeOK
  <1> QED
    BY <1>1, <1>2, <1>3, <1>4

LEMMA AppendTyped ==
  ASSUME TypeOK, NEW e \in Event, AppendEvent(e)
  PROVE  log' \in Seq(Event) /\ open' \subseteq EventId
  BY EventParts DEF TypeOK, AppendEvent

LEMMA DueTyped ==
  ASSUME TypeOK, NEW now
  PROVE  /\ Due(now) \subseteq Listed
         /\ \A t \in Due(now) : row[t.obl] # None /\ t.row = row[t.obl] /\ IsDue(t.row, now)
  <1> SUFFICES ASSUME NEW o \in Obl, IsDue(row[o], now)
               PROVE  [obl |-> o, row |-> row[o]] \in Listed /\ row[o] # None
    BY DEF Due
  <1> QED
    BY DEF IsDue, TypeOK, Listed

LEMMA FirstListed ==
  ASSUME NEW due, NEW t \in First(due) PROVE t \in due
  BY DEF First

\* What a call may change of its own, whichever step it takes.
LocalsOf(c) ==
  /\ at' \in [Call -> Nat] /\ todo' \in [Call -> SUBSET Listed]
  /\ pc' = [pc EXCEPT ![c] = pc'[c]] /\ pc'[c] \in Steps
  /\ DOMAIN task' = Call /\ \A d \in Call \ {c} : task'[d] = task[d] /\ todo'[d] = todo[d]

LEMMA DispatchTyped ==
  ASSUME TypeOK, NEW c \in Call, NEW due \in SUBSET Listed, Dispatch(c, due),
         at' \in [Call -> Nat]
  PROVE  /\ LocalsOf(c)
         /\ task'[c] \in Listed /\ task'[c] \in due /\ todo'[c] = due \ {task'[c]}
         /\ pc'[c] \in {"await", "handled"}
         /\ (pc'[c] = "await") = (task'[c].obl \in Watch)
  <1>1. PICK t \in First(due) :
          /\ todo' = [todo EXCEPT ![c] = due \ {t}] /\ task' = [task EXCEPT ![c] = t]
          /\ Goto(c, IF t.obl \in Watch THEN "await" ELSE "handled")
    BY DEF Dispatch
  <1>2. t \in due /\ t \in Listed
    BY FirstListed
  <1> QED
    BY <1>1, <1>2 DEF LocalsOf, Goto, TypeOK, Steps, Listed

LEMMA IdleTyped ==
  ASSUME TypeOK, NEW c \in Call, Idle(c)
  PROVE  LocalsOf(c) /\ task'[c] = None /\ todo'[c] = {} /\ pc'[c] = "idle"
  BY DEF Idle, Goto, LocalsOf, TypeOK, Steps, Listed

LEMMA EndTyped ==
  ASSUME TypeOK, EndSegment
  PROVE  open' \subseteq EventId /\ lost' \subseteq EventId
  BY DEF TypeOK, EndSegment

\* The types are kept once each part of a step is seen to be.
LEMMA TypeFrom ==
  ASSUME TypeOK, NEW c \in Call, LocalsOf(c),
         row' \in Rows, \A o \in Obl : row[o] # None => row'[o] # None,
         log' \in Seq(Event), clock' \in Nat, crashes' \in Nat,
         open' \subseteq EventId, lost' \subseteq EventId,
         task'[c] \in TaskOf(pc'[c]),
         pc'[c] \notin {"idle", "upsert"} => task'[c].obl \in Obl /\ row'[task'[c].obl] # None,
         \A t \in todo'[c] : row'[t.obl] # None
  PROVE  TypeOK'
  <1>1. \A d \in Call \ {c} : pc'[d] = pc[d] /\ task'[d] = task[d] /\ todo'[d] = todo[d]
    BY DEF LocalsOf, TypeOK
  <1>2. \A d \in Call : task'[d] \in TaskOf(pc'[d])
    BY <1>1 DEF TypeOK
  <1>3. \A d \in Call : pc'[d] \notin {"idle", "upsert"} => row'[task'[d].obl] # None
    BY <1>1, TaskAt
  <1>4. \A d \in Call : \A t \in todo'[d] : row'[t.obl] # None
    <2> SUFFICES ASSUME NEW d \in Call \ {c}, NEW t \in todo'[d] PROVE row'[t.obl] # None
      OBVIOUS
    <2>1. t \in todo[d] /\ t \in Listed /\ row[t.obl] # None
      BY <1>1 DEF TypeOK, Listed
    <2> QED
      BY <2>1 DEF Listed
  <1> QED
    BY <1>2, <1>3, <1>4 DEF TypeOK, LocalsOf, Steps, Listed, Rows

\* An update computed from the listed row t.
RunOn(u, t) ==
  /\ u \in Run /\ u.obl = t.obl
  /\ u.closed => u.status = "closed" /\ u.next = None /\ t.obl \in Watch
  /\ ~u.closed => u.status = IF u.escalated THEN "escalated" ELSE t.row.status

LEMMA RunOfTyped ==
  ASSUME NEW t \in Listed, NEW res \in Result(t.obl), NEW now \in Nat
  PROVE  RunOn(RunOf(t, res, now), t)
  <1> DEFINE Update(ok, closed, escalated, status, next) ==
        [obl |-> t.obl, ok |-> ok, closed |-> closed, escalated |-> escalated,
         status |-> status, next |-> next]
  <1>1. t.obl \in Obl /\ t.row.status \in Status /\ NextRun(t.row.every, now) \in Nat \cup {None}
    BY DEF Listed, Row, NextRun
  <1>2. ASSUME NEW ok \in BOOLEAN, res = [ok |-> ok, met |-> FALSE]
        PROVE  RunOn(RunOf(t, res, now), t)
    <2>1. CASE Escalates(t.row, now)
      <3>1. RunOf(t, [ok |-> ok, met |-> FALSE], now) =
              Update(ok, FALSE, TRUE, "escalated", NextRun(t.row.every, now))
        BY <2>1 DEF RunOf
      <3>2. RunOn(Update(ok, FALSE, TRUE, "escalated", NextRun(t.row.every, now)), t)
        BY <1>1 DEF RunOn, Run, Status
      <3> HIDE DEF Update
      <3> QED
        BY <1>2, <3>1, <3>2
    <2>2. CASE ~Escalates(t.row, now)
      <3>1. RunOf(t, [ok |-> ok, met |-> FALSE], now) =
              Update(ok, FALSE, FALSE, t.row.status, NextRun(t.row.every, now))
        BY <2>2 DEF RunOf
      <3>2. RunOn(Update(ok, FALSE, FALSE, t.row.status, NextRun(t.row.every, now)), t)
        BY <1>1 DEF RunOn, Run
      <3> HIDE DEF Update
      <3> QED
        BY <1>2, <3>1, <3>2
    <2> QED
      BY <2>1, <2>2
  <1>3. ASSUME t.obl \in Watch, res = [ok |-> TRUE, met |-> TRUE]
        PROVE  RunOn(RunOf(t, res, now), t)
    <2>1. RunOf(t, [ok |-> TRUE, met |-> TRUE], now) = Update(TRUE, TRUE, FALSE, "closed", None)
      BY DEF RunOf
    <2>2. RunOn(Update(TRUE, TRUE, FALSE, "closed", None), t)
      BY <1>1, <1>3 DEF RunOn, Run, Status
    <2> HIDE DEF Update
    <2> QED
      BY <1>3, <2>1, <2>2
  <1>4. \/ res = [ok |-> TRUE, met |-> FALSE]
        \/ res = [ok |-> FALSE, met |-> FALSE]
        \/ t.obl \in Watch /\ res = [ok |-> TRUE, met |-> TRUE]
    <2>1. CASE t.obl \in Watch
      BY <2>1 DEF Result
    <2>2. CASE t.obl \notin Watch
      BY <2>2 DEF Result
    <2> QED
      BY <2>1, <2>2
  <1> QED
    BY <1>2, <1>3, <1>4

LEMMA TypeStep == TypeOK /\ [Next]_vars => TypeOK'
  <1> SUFFICES ASSUME TypeOK, [Next]_vars PROVE TypeOK'
    OBVIOUS
  <1>0. /\ row \in Rows /\ log \in Seq(Event) /\ clock \in Nat /\ crashes \in Nat
        /\ open \subseteq EventId /\ lost \subseteq EventId
        /\ \A d \in Call : \A t \in todo[d] : t.obl \in Obl /\ row[t.obl] # None
    BY TaskAt DEF TypeOK, Rows, Listed
  <1>1. ASSUME NEW c \in Call, StartTick(c) PROVE TypeOK'
    <2>1. at' \in [Call -> Nat] /\ clock' \in Nat
      BY <1>1, <1>0 DEF StartTick, ReadClock, TypeOK
    <2>2. Dispatch(c, Due(clock)) /\ Due(clock) \in SUBSET Listed
      BY <1>1, DueTyped DEF StartTick
    <2>3. LocalsOf(c) /\ task'[c] \in Listed /\ task'[c] \in Due(clock)
          /\ todo'[c] \subseteq Due(clock) /\ pc'[c] \in {"await", "handled"}
      BY <2>1, <2>2, DispatchTyped
    <2> QED
      BY <1>0, <1>1, <2>1, <2>3, DueTyped, TypeFrom DEF StartTick, TaskOf, Listed
  <1>2. ASSUME NEW c \in Call, LogEvidence(c) PROVE TypeOK'
    <2>1. task[c] \in Listed /\ at[c] \in Nat /\ row[task[c].obl] # None
      BY <1>2, TaskAt DEF LogEvidence
    <2>2. PICK res \in Result(task[c].obl) :
            LET u == RunOf(task[c], res, at[c]) IN
            /\ AppendEvent([id |-> <<"evidence", u.obl, at[c]>>, kind |-> "evidence",
                            obl |-> u.obl, at |-> at[c], run |-> u])
            /\ task' = [task EXCEPT ![c] = u]
            /\ Goto(c, IF u.closed \/ u.escalated THEN "mark" ELSE "store")
      BY <1>2 DEF LogEvidence
    <2>3. PICK u \in Run : u = RunOf(task[c], res, at[c]) /\ u.obl = task[c].obl
      BY <2>1, RunOfTyped DEF RunOn
    <2>4. [id |-> <<"evidence", u.obl, at[c]>>, kind |-> "evidence",
           obl |-> u.obl, at |-> at[c], run |-> u] \in Event
      BY <2>1, <2>3 DEF Event, EventId, Listed
    <2>5. log' \in Seq(Event) /\ open' \subseteq EventId
      BY <2>2, <2>3, <2>4, AppendTyped
    <2>6. LocalsOf(c) /\ task'[c] = u /\ pc'[c] \in {"mark", "store"} /\ todo'[c] = todo[c]
      BY <1>2, <2>2, <2>3 DEF LocalsOf, LogEvidence, Goto, TypeOK, Steps, Listed
    <2> QED
      BY <1>0, <1>2, <2>1, <2>3, <2>5, <2>6, TypeFrom DEF LogEvidence, TaskOf, Listed
  <1>3. ASSUME NEW c \in Call, LogMark(c) PROVE TypeOK'
    <2>1. task[c] \in Run /\ at[c] \in Nat /\ row[task[c].obl] # None /\ task[c].obl \in Obl
      BY <1>3, TaskAt DEF LogMark, At
    <2>2. PICK kind \in {"close", "escalate"} :
            AppendEvent([id |-> <<kind, task[c].obl, at[c]>>, kind |-> kind,
                         obl |-> task[c].obl, at |-> at[c]])
      BY <1>3 DEF LogMark
    <2>3. [id |-> <<kind, task[c].obl, at[c]>>, kind |-> kind,
           obl |-> task[c].obl, at |-> at[c]] \in Event
      BY <2>1 DEF Event, EventId
    <2>4. log' \in Seq(Event) /\ open' \subseteq EventId
      BY <2>2, <2>3, AppendTyped
    <2>5. LocalsOf(c) /\ task'[c] = task[c] /\ pc'[c] = "store" /\ todo'[c] = todo[c]
      BY <1>3 DEF LocalsOf, LogMark, Goto, TypeOK, Steps, Listed
    <2> QED
      BY <1>0, <1>3, <2>1, <2>4, <2>5, TypeFrom DEF LogMark, TaskOf
  <1>4. ASSUME NEW c \in Call, Store(c) PROVE TypeOK'
    <2>1. /\ task[c] \in Run /\ at[c] \in Nat /\ task[c].obl \in Obl
          /\ row[task[c].obl] \in Row /\ todo[c] \subseteq Listed
      BY <1>4, TaskAt DEF Store, At
    <2>2. row' = [row EXCEPT ![task[c].obl] = RecordRun(row[task[c].obl], task[c], at[c])]
      BY <1>4 DEF Store
    <2>3. RecordRun(row[task[c].obl], task[c], at[c]) \in Row
      BY <2>1, RecordRunTyped
    <2>4. row' \in Rows /\ \A o \in Obl : row[o] # None => row'[o] # None
      BY <1>0, <2>1, <2>2, <2>3, NoRowAssumption DEF Rows
    <2>5. open' \subseteq EventId /\ lost' \subseteq EventId
      BY <1>4, EndTyped DEF Store
    <2>6. CASE todo[c] = {}
      <3>1. LocalsOf(c) /\ task'[c] = None /\ todo'[c] = {} /\ pc'[c] = "idle"
        BY <1>4, <2>6, IdleTyped DEF Store
      <3> QED
        BY <1>0, <1>4, <2>4, <2>5, <3>1, TypeFrom DEF Store, TaskOf
    <2>7. CASE todo[c] # {}
      <3>1. Dispatch(c, todo[c]) /\ at' \in [Call -> Nat]
        BY <1>4, <2>7 DEF Store, TypeOK
      <3>2. LocalsOf(c) /\ task'[c] \in Listed /\ task'[c] \in todo[c]
            /\ todo'[c] \subseteq todo[c] /\ pc'[c] \in {"await", "handled"}
        BY <2>1, <3>1, DispatchTyped
      <3> QED
        BY <1>0, <1>4, <2>4, <2>5, <3>2, TypeFrom DEF Store, TaskOf, Listed
    <2> QED
      BY <2>6, <2>7
  <1>5. ASSUME NEW c \in Call, NEW w \in Wake, LogWake(c, w) PROVE TypeOK'
    <2>1. w.obl \in Obl
      BY WakeAssumption
    <2>2. [id |-> <<"wake", w.obl>>, kind |-> "wake", obl |-> w.obl,
           at |-> clock, wake |-> w] \in Event
      BY <1>0, <2>1 DEF Event, EventId
    <2>3. log' \in Seq(Event) /\ open' \subseteq EventId
      BY <1>5, <2>2, AppendTyped DEF LogWake
    <2>4. LocalsOf(c) /\ task'[c] = w /\ pc'[c] = "upsert" /\ todo'[c] = todo[c]
          /\ clock' \in Nat
      BY <1>5, <1>0 DEF LocalsOf, LogWake, ReadClock, Goto, TypeOK, Steps, Listed
    <2> QED
      BY <1>0, <1>5, <2>3, <2>4, TypeFrom DEF LogWake, TaskOf
  <1>6. ASSUME NEW c \in Call, UpsertRow(c) PROVE TypeOK'
    <2>1. task[c] \in Wake /\ task[c].obl \in Obl
      BY <1>6, TaskAt, WakeAssumption DEF UpsertRow, At
    <2>2. Upsert(row[task[c].obl], task[c]) \in Row
      BY <1>0, <2>1, UpsertTyped DEF Rows
    <2>3. row' = [row EXCEPT ![task[c].obl] = Upsert(row[task[c].obl], task[c])]
      BY <1>6 DEF UpsertRow
    <2>4. row' \in Rows /\ \A o \in Obl : row[o] # None => row'[o] # None
      BY <1>0, <2>1, <2>2, <2>3, NoRowAssumption DEF Rows
    <2>5. open' \subseteq EventId /\ lost' \subseteq EventId
      BY <1>6, EndTyped DEF UpsertRow
    <2>6. LocalsOf(c) /\ task'[c] = None /\ todo'[c] = {} /\ pc'[c] = "idle"
      BY <1>6, IdleTyped DEF UpsertRow
    <2> QED
      BY <1>0, <1>6, <2>4, <2>5, <2>6, TypeFrom DEF UpsertRow, TaskOf
  <1>7. ASSUME NEW c \in Call, NEW o \in Obl, NEW d \in Decision, Resolve(c, o, d) PROVE TypeOK'
    <2> DEFINE done == row[o].status = "closed"
               status == IF done THEN "closed" ELSE Judgment(d, row[o].status)
    <2>1. row[o] # None /\ row[o] \in Row /\ o \in Obl
      BY <1>0, <1>7 DEF Resolve, Rows
    <2>2. status \in Status
      BY <2>1, JudgmentTyped DEF Row, Status
    <2>3. [id |-> <<"resolve", o, clock>>, kind |-> "resolve", obl |-> o,
           at |-> clock, decision |-> d] \in Event
      BY <1>0, <2>1 DEF Event, EventId
    <2>4. log' \in Seq(Event) /\ open' \subseteq EventId
      BY <1>7, <2>3, AppendTyped DEF Resolve
    <2>5. LocalsOf(c) /\ task'[c] = [obl |-> o, status |-> status]
          /\ pc'[c] \in {"close", "settle"} /\ todo'[c] = todo[c] /\ clock' \in Nat
      BY <1>7, <1>0 DEF LocalsOf, Resolve, ReadClock, Goto, TypeOK, Steps, Listed
    <2>6. task'[c] \in [obl : Obl, status : Status] /\ task'[c].obl = o
      BY <2>1, <2>2, <2>5
    <2>7. row' = row /\ crashes' = crashes /\ lost' = lost
      BY <1>7 DEF Resolve
    <2> HIDE DEF status
    <2> QED
      BY <1>0, <2>1, <2>4, <2>5, <2>6, <2>7, TypeFrom DEF TaskOf
  <1>8. ASSUME NEW c \in Call, LogClose(c) PROVE TypeOK'
    <2>1. /\ task[c] \in [obl : Obl, status : Status] /\ at[c] \in Nat /\ task[c].obl \in Obl
          /\ row[task[c].obl] # None
      BY <1>8, TaskAt DEF LogClose, At
    <2>2. [id |-> <<"close", task[c].obl, at[c]>>, kind |-> "close",
           obl |-> task[c].obl, at |-> at[c]] \in Event
      BY <2>1 DEF Event, EventId
    <2>3. log' \in Seq(Event) /\ open' \subseteq EventId
      BY <1>8, <2>2, AppendTyped DEF LogClose
    <2>4. LocalsOf(c) /\ task'[c] = task[c] /\ pc'[c] = "settle" /\ todo'[c] = todo[c]
      BY <1>8 DEF LocalsOf, LogClose, Goto, TypeOK, Steps, Listed
    <2> QED
      BY <1>0, <1>8, <2>1, <2>3, <2>4, TypeFrom DEF LogClose, TaskOf
  <1>9. ASSUME NEW c \in Call, Settle(c) PROVE TypeOK'
    <2>1. /\ task[c] \in [obl : Obl, status : Status] /\ at[c] \in Nat /\ task[c].obl \in Obl
          /\ row[task[c].obl] \in Row
      BY <1>9, TaskAt DEF Settle, At
    <2>2. row' = [row EXCEPT ![task[c].obl] =
                    ApplyStatus(row[task[c].obl], task[c].status, at[c])]
      BY <1>9 DEF Settle
    <2>3. ApplyStatus(row[task[c].obl], task[c].status, at[c]) \in Row
      BY <2>1, ApplyStatusTyped
    <2>4. row' \in Rows /\ \A o \in Obl : row[o] # None => row'[o] # None
      BY <1>0, <2>1, <2>2, <2>3, NoRowAssumption DEF Rows
    <2>5. open' \subseteq EventId /\ lost' \subseteq EventId
      BY <1>9, EndTyped DEF Settle
    <2>6. LocalsOf(c) /\ task'[c] = None /\ todo'[c] = {} /\ pc'[c] = "idle"
      BY <1>9, IdleTyped DEF Settle
    <2> QED
      BY <1>0, <1>9, <2>4, <2>5, <2>6, TypeFrom DEF Settle, TaskOf
  <1>10. CASE Elapse
    BY <1>10 DEF Elapse, TypeOK, locals
  <1>11. CASE Crash
    BY <1>11 DEF Crash, TypeOK, TaskOf
  <1>12. CASE UNCHANGED vars
    BY <1>12 DEF TypeOK, vars, locals
  <1> QED
    BY <1>1, <1>2, <1>3, <1>4, <1>5, <1>6, <1>7, <1>8, <1>9, <1>10, <1>11, <1>12
    DEF Next, Step

LEMMA TypeInit == Init => TypeOK
  BY DEF Init, TypeOK, TaskOf

\* Every variable has its type, a call's local update has the shape its step
\* needs, and a call that runs or settles an obligation finds its row, for any
\* number of calls and crashes.
THEOREM Typing == Spec => []TypeOK
  <1> QED
    BY TypeInit, TypeStep, PTL DEF Spec

-----------------------------------------------------------------------------
(* The log: ids tell events apart, and a call's next ids are not taken.    *)

Writes(c) == pc[c] \in {"mark", "store", "upsert", "close", "settle"}
Ticking(c) == pc[c] \in {"await", "handled", "mark", "store"}
Awaiting(c) == pc[c] \in {"await", "handled"}

\* Only the segment in progress has events that its row does not reflect yet.
Segments ==
  /\ \A c, d \in Call : c # d => ~(Holds(c) /\ Holds(d))
  /\ (\A c \in Call : ~Writes(c)) => open = {}
  /\ \A c \in Call : Writes(c) =>
       \A i \in DOMAIN log : log[i].id \in open => log[i].obl = task[c].obl
  /\ \A c \in Call : pc[c] = "mark" => task[c].closed \/ task[c].escalated
  /\ \A c \in Call : pc[c] \in {"mark", "store"} =>
       /\ task[c].closed => task[c].status = "closed"
       /\ ~task[c].closed /\ task[c].escalated => task[c].status = "escalated"
  /\ \A c \in Call : pc[c] = "close" => task[c].status = "closed"

LogKept ==
  /\ \A i \in DOMAIN log :
       /\ log[i].id = IF log[i].kind = "wake" THEN <<"wake", log[i].obl>>
                      ELSE <<log[i].kind, log[i].obl, log[i].at>>
       /\ log[i].kind = "wake" => log[i].wake.obl = log[i].obl
       /\ log[i].at < clock
  /\ \A i, j \in DOMAIN log : log[i].id = log[j].id => i = j
  /\ \A id \in open \cup lost : Logged(id)

\* What c has logged at its `now`, and what it has still to log.
Fresh ==
  /\ \A c \in Call : pc[c] # "idle" => at[c] < clock
  /\ \A c, d \in Call : c # d /\ pc[c] # "idle" /\ pc[d] # "idle" => at[c] # at[d]
  /\ \A c \in Call : ~Ticking(c) => todo[c] = {}
  /\ \A c \in Call : \A t, u \in todo[c] : t.obl = u.obl => t = u
  /\ \A c \in Call : \A t \in todo[c] : t.obl # task[c].obl
  /\ \A c \in Call, i \in DOMAIN log :
       pc[c] # "idle" /\ log[i].kind # "wake" /\ log[i].at = at[c] =>
         /\ \A t \in todo[c] : log[i].obl # t.obl
         /\ Awaiting(c) => log[i].obl # task[c].obl
         /\ pc[c] = "mark" /\ log[i].obl = task[c].obl => log[i].kind = "evidence"
         /\ pc[c] = "close" => log[i].kind = "resolve"

-----------------------------------------------------------------------------
(* The projection. *)

\* Two rows that differ at most in how they hold the next run they show.
Alike(r, s) ==
  /\ (r = None) <=> (s = None)
  /\ r # None => s = [r EXCEPT !.next = s.next] /\ Shown(r) = Shown(s)

\* The row of c's task once its segment is over.
Pending(c) ==
  CASE pc[c] \in {"mark", "store"} -> RecordRun(row[task[c].obl], task[c], at[c])
    [] pc[c] = "upsert" -> Upsert(row[task[c].obl], task[c])
    [] pc[c] \in {"close", "settle"} ->
         ApplyStatus(row[task[c].obl], task[c].status, at[c])

\* An obligation without a row has at most a wake whose call has not updated it.
Woken ==
  /\ \A i \in DOMAIN log : row[log[i].obl] = None =>
       log[i].kind = "wake" /\ log[i].id \in lost \cup open
  /\ \A c \in Call : pc[c] = "upsert" => row[task[c].obl] = None

Projected ==
  /\ \A o \in Obl : Alike(row[o], Final(log, lost \cup open)[o])
  /\ \A c \in Call : Writes(c) => Alike(Pending(c), Final(log, lost \ open)[task[c].obl])

-----------------------------------------------------------------------------
(* What the steps do, in the terms of these invariants.                    *)

Ided(e) ==
  /\ e.id = IF e.kind = "wake" THEN <<"wake", e.obl>> ELSE <<e.kind, e.obl, e.at>>
  /\ e.kind = "wake" => e.wake.obl = e.obl

\* c appends e, in a segment that no other call interrupts.
Appending(c, e) ==
  /\ e \in Event /\ Ided(e) /\ AppendEvent(e)
  /\ row' = row /\ todo' = todo /\ lost' = lost
  /\ clock' \in {clock, clock + 1} /\ e.at < clock'
  /\ \A d \in Call \ {c} : pc'[d] = pc[d] /\ task'[d] = task[d] /\ at'[d] = at[d] /\ ~Holds(d)
  /\ pc'[c] \in {"mark", "store", "upsert", "close", "settle"} /\ task'[c].obl = e.obl

\* Where c is when it appends, and where it goes.
Evidences(c, e) ==
  /\ Awaiting(c) /\ e.kind = "evidence" /\ e.obl = task[c].obl /\ e.at = at[c] /\ at'[c] = at[c]
  /\ task'[c] = e.run /\ RunOn(e.run, task[c])
  /\ pc'[c] = IF e.run.closed \/ e.run.escalated THEN "mark" ELSE "store"
Marks(c, e) ==
  /\ pc[c] = "mark" /\ e.obl = task[c].obl /\ e.at = at[c] /\ at'[c] = at[c]
  /\ e.kind = IF task[c].closed THEN "close" ELSE "escalate"
  /\ task'[c] = task[c] /\ pc'[c] = "store"
Wakes(c, e) ==
  /\ pc[c] = "idle" /\ e.kind = "wake" /\ e.at = clock /\ at'[c] = clock /\ clock' = clock + 1
  /\ task'[c] = e.wake /\ pc'[c] = "upsert" /\ (Rewake \/ row[e.obl] = None)
Resolves(c, e) ==
  /\ pc[c] = "idle" /\ e.kind = "resolve" /\ e.at = clock /\ at'[c] = clock /\ clock' = clock + 1
  /\ row[e.obl] # None
  /\ task'[c].status = IF row[e.obl].status = "closed" THEN "closed"
                       ELSE Judgment(e.decision, row[e.obl].status)
  /\ pc'[c] = IF task'[c].status = "closed" /\ row[e.obl].status # "closed"
              THEN "close" ELSE "settle"
Closes(c, e) ==
  /\ pc[c] = "close" /\ e.kind = "close" /\ e.obl = task[c].obl /\ e.at = at[c]
  /\ at'[c] = at[c] /\ task'[c] = task[c] /\ pc'[c] = "settle"

Logs(c) == \E e \in Event : Appending(c, e) /\
  (Evidences(c, e) \/ Marks(c, e) \/ Wakes(c, e) \/ Resolves(c, e) \/ Closes(c, e))

LEMMA EvidenceLogs ==
  ASSUME TypeOK, Fresh, NEW c \in Call, LogEvidence(c) PROVE Logs(c)
  <1>1. /\ task[c] \in Listed /\ at[c] \in Nat /\ pc[c] \in {"await", "handled"} /\ clock \in Nat
        /\ at[c] < clock
    BY TaskAt DEF LogEvidence, TypeOK, Fresh
  <1>2. PICK u \in Run :
          /\ RunOn(u, task[c])
          /\ AppendEvent([id |-> <<"evidence", u.obl, at[c]>>, kind |-> "evidence",
                          obl |-> u.obl, at |-> at[c], run |-> u])
          /\ task' = [task EXCEPT ![c] = u]
          /\ Goto(c, IF u.closed \/ u.escalated THEN "mark" ELSE "store")
    BY <1>1, RunOfTyped DEF LogEvidence, RunOn
  <1> DEFINE e == [id |-> <<"evidence", u.obl, at[c]>>, kind |-> "evidence",
                   obl |-> u.obl, at |-> at[c], run |-> u]
  <1>3. e \in Event /\ Ided(e) /\ u.obl = task[c].obl /\ u.obl \in Obl
    BY <1>1, <1>2 DEF Event, EventId, Ided, RunOn, Run
  <1>4. /\ e.kind = "evidence" /\ e.obl = u.obl /\ e.at = at[c] /\ e.run = u
        /\ AppendEvent(e)
    BY <1>2
  <1>5. /\ pc'[c] = IF u.closed \/ u.escalated THEN "mark" ELSE "store"
        /\ task'[c] = u
        /\ \A d \in Call \ {c} : pc'[d] = pc[d] /\ task'[d] = task[d]
    BY <1>2 DEF Goto, TypeOK
  <1> HIDE DEF e
  <1>6. Appending(c, e)
    BY <1>1, <1>3, <1>4, <1>5 DEF Appending, LogEvidence, MayStep
  <1>7. Evidences(c, e)
    BY <1>1, <1>2, <1>3, <1>4, <1>5 DEF Evidences, LogEvidence, Awaiting
  <1> QED
    BY <1>3, <1>6, <1>7 DEF Logs

LEMMA MarkLogs ==
  ASSUME TypeOK, Fresh, Segments, NEW c \in Call, LogMark(c) PROVE Logs(c)
  <1>1. /\ task[c] \in Run /\ at[c] \in Nat /\ pc[c] = "mark" /\ clock \in Nat /\ at[c] < clock
        /\ task[c].obl \in Obl /\ \A d \in Call \ {c} : ~Holds(d)
    BY TaskAt DEF LogMark, At, TypeOK, Fresh, Segments, Holds
  <1> DEFINE kind == IF task[c].closed THEN "close" ELSE "escalate"
             e == [id |-> <<kind, task[c].obl, at[c]>>, kind |-> kind,
                   obl |-> task[c].obl, at |-> at[c]]
  <1>2. kind \in {"close", "escalate"} /\ AppendEvent(e)
    BY DEF LogMark
  <1> HIDE DEF kind
  <1>3. e \in Event /\ Ided(e) /\ e.kind = kind /\ e.obl = task[c].obl /\ e.at = at[c]
    BY <1>1, <1>2 DEF Event, EventId, Ided
  <1> HIDE DEF e
  <1>4. Appending(c, e)
    BY <1>1, <1>2, <1>3 DEF Appending, LogMark, Goto, TypeOK
  <1>5. Marks(c, e)
    BY <1>1, <1>3 DEF Marks, LogMark, Goto, TypeOK, kind
  <1> QED
    BY <1>3, <1>4, <1>5 DEF Logs

LEMMA WakeLogs ==
  ASSUME TypeOK, NEW c \in Call, NEW w \in Wake, LogWake(c, w) PROVE Logs(c)
  <1>1. w.obl \in Obl /\ clock \in Nat /\ pc[c] = "idle" /\ c \in DOMAIN task
    BY WakeAssumption DEF LogWake, At, TypeOK
  <1> DEFINE e == [id |-> <<"wake", w.obl>>, kind |-> "wake", obl |-> w.obl,
                   at |-> clock, wake |-> w]
  <1>2. /\ e \in Event /\ Ided(e) /\ e.kind = "wake" /\ e.obl = w.obl /\ e.at = clock
        /\ e.wake = w
    BY <1>1 DEF Event, EventId, Ided
  <1>3. AppendEvent(e)
    BY DEF LogWake
  <1> HIDE DEF e
  <1>4. Appending(c, e)
    BY <1>1, <1>2, <1>3 DEF Appending, LogWake, ReadClock, MayStep, Goto, TypeOK
  <1>5. Wakes(c, e)
    BY <1>1, <1>2 DEF Wakes, LogWake, ReadClock, Goto, TypeOK
  <1> QED
    BY <1>2, <1>4, <1>5 DEF Logs

LEMMA ResolveLogs ==
  ASSUME TypeOK, NEW c \in Call, NEW o \in Obl, NEW d \in Decision, Resolve(c, o, d)
  PROVE  Logs(c)
  <1> DEFINE done == row[o].status = "closed"
             status == IF done THEN "closed" ELSE Judgment(d, row[o].status)
             e == [id |-> <<"resolve", o, clock>>, kind |-> "resolve", obl |-> o,
                   at |-> clock, decision |-> d]
  <1>1. clock \in Nat /\ pc[c] = "idle" /\ c \in DOMAIN task /\ row[o] # None
    BY DEF Resolve, At, TypeOK
  <1>2. /\ e \in Event /\ Ided(e) /\ e.kind = "resolve" /\ e.obl = o /\ e.at = clock
        /\ e.decision = d
    BY <1>1 DEF Event, EventId, Ided
  <1>3. AppendEvent(e) /\ task'[c] = [obl |-> o, status |-> status]
        /\ pc'[c] = IF status = "closed" /\ ~done THEN "close" ELSE "settle"
    BY <1>1 DEF Resolve, Goto, TypeOK
  <1> HIDE DEF e, status
  <1>4. Appending(c, e)
    BY <1>1, <1>2, <1>3 DEF Appending, Resolve, ReadClock, MayStep, Goto, TypeOK
  <1>5. Resolves(c, e)
    BY <1>1, <1>2, <1>3 DEF Resolves, Resolve, ReadClock, TypeOK, status
  <1> QED
    BY <1>2, <1>4, <1>5 DEF Logs

LEMMA CloseLogs ==
  ASSUME TypeOK, Fresh, Segments, NEW c \in Call, LogClose(c) PROVE Logs(c)
  <1>1. /\ at[c] \in Nat /\ pc[c] = "close" /\ clock \in Nat /\ at[c] < clock
        /\ task[c].obl \in Obl /\ \A d \in Call \ {c} : ~Holds(d)
    BY TaskAt DEF LogClose, At, TypeOK, Fresh, Segments, Holds
  <1> DEFINE e == [id |-> <<"close", task[c].obl, at[c]>>, kind |-> "close",
                   obl |-> task[c].obl, at |-> at[c]]
  <1>2. e \in Event /\ Ided(e) /\ e.kind = "close" /\ e.obl = task[c].obl /\ e.at = at[c]
    BY <1>1 DEF Event, EventId, Ided
  <1>3. AppendEvent(e)
    BY DEF LogClose
  <1> HIDE DEF e
  <1>4. Appending(c, e)
    BY <1>1, <1>2, <1>3 DEF Appending, LogClose, Goto, TypeOK
  <1>5. Closes(c, e)
    BY <1>1, <1>2 DEF Closes, LogClose, Goto, TypeOK
  <1> QED
    BY <1>2, <1>4, <1>5 DEF Logs

\* c ends its segment: its row takes the update, and it goes on or is done.
Ends(c) ==
  /\ pc[c] \in {"store", "upsert", "settle"} /\ task[c].obl \in Obl
  /\ Pending(c) \in Row /\ row' = [row EXCEPT ![task[c].obl] = Pending(c)]
  /\ EndSegment /\ log' = log /\ clock' = clock
  /\ \A d \in Call \ {c} :
       pc'[d] = pc[d] /\ task'[d] = task[d] /\ at'[d] = at[d] /\ todo'[d] = todo[d]
  /\ \/ pc'[c] = "idle" /\ todo'[c] = {}
     \/ /\ pc[c] = "store" /\ pc'[c] \in {"await", "handled"} /\ at'[c] = at[c]
        /\ task'[c] \in todo[c] /\ todo'[c] = todo[c] \ {task'[c]}

LEMMA StoreEnds ==
  ASSUME TypeOK, NEW c \in Call, Store(c) PROVE Ends(c)
  <1>1. /\ pc[c] = "store" /\ task[c] \in Run /\ at[c] \in Nat /\ task[c].obl \in Obl
        /\ row[task[c].obl] \in Row /\ todo[c] \in SUBSET Listed
    BY TaskAt DEF Store, At
  <1>2. Pending(c) = RecordRun(row[task[c].obl], task[c], at[c])
    BY <1>1 DEF Pending
  <1>3. Pending(c) \in Row /\ row' = [row EXCEPT ![task[c].obl] = Pending(c)]
    BY <1>1, <1>2, RecordRunTyped DEF Store
  <1>4. CASE todo[c] = {}
    <2>1. Idle(c) /\ EndSegment /\ log' = log /\ clock' = clock
      BY <1>4 DEF Store
    <2> QED
      BY <1>1, <1>3, <2>1 DEF Ends, Idle, Goto, TypeOK
  <1>5. CASE todo[c] # {}
    <2>1. Dispatch(c, todo[c]) /\ at' = at /\ EndSegment /\ log' = log /\ clock' = clock
      BY <1>5 DEF Store
    <2>2. LocalsOf(c) /\ task'[c] \in todo[c] /\ todo'[c] = todo[c] \ {task'[c]}
          /\ pc'[c] \in {"await", "handled"}
      BY <1>1, <2>1, DispatchTyped DEF TypeOK
    <2>3. \A d \in Call \ {c} : pc'[d] = pc[d] /\ task'[d] = task[d] /\ todo'[d] = todo[d]
      BY <2>2 DEF LocalsOf, TypeOK
    <2> QED
      BY <1>1, <1>3, <2>1, <2>2, <2>3 DEF Ends
  <1> QED
    BY <1>4, <1>5

LEMMA UpsertEnds ==
  ASSUME TypeOK, NEW c \in Call, UpsertRow(c) PROVE Ends(c)
  <1>1. pc[c] = "upsert" /\ task[c] \in Wake /\ task[c].obl \in Obl /\ row \in Rows
    BY TaskAt, WakeAssumption DEF UpsertRow, At, TypeOK, Rows
  <1>2. Pending(c) = Upsert(row[task[c].obl], task[c])
    BY <1>1 DEF Pending
  <1>3. Pending(c) \in Row /\ row' = [row EXCEPT ![task[c].obl] = Pending(c)]
    BY <1>1, <1>2, UpsertTyped DEF UpsertRow, Rows
  <1> QED
    BY <1>1, <1>3 DEF Ends, UpsertRow, Idle, Goto, TypeOK

LEMMA SettleEnds ==
  ASSUME TypeOK, NEW c \in Call, Settle(c) PROVE Ends(c)
  <1>1. /\ pc[c] = "settle" /\ task[c].status \in Status /\ at[c] \in Nat
        /\ task[c].obl \in Obl /\ row[task[c].obl] \in Row
    BY TaskAt DEF Settle, At
  <1>2. Pending(c) = ApplyStatus(row[task[c].obl], task[c].status, at[c])
    BY <1>1 DEF Pending
  <1>3. Pending(c) \in Row /\ row' = [row EXCEPT ![task[c].obl] = Pending(c)]
    BY <1>1, <1>2, ApplyStatusTyped DEF Settle
  <1> QED
    BY <1>1, <1>3 DEF Ends, Settle, Idle, Goto, TypeOK

\* c starts a tick with what is due now.
Starts(c) ==
  /\ pc[c] = "idle" /\ row' = row /\ log' = log /\ open' = open /\ lost' = lost
  /\ clock' = clock + 1 /\ at'[c] = clock
  /\ \A d \in Call \ {c} :
       pc'[d] = pc[d] /\ task'[d] = task[d] /\ at'[d] = at[d] /\ todo'[d] = todo[d] /\ ~Holds(d)
  /\ pc'[c] \in {"await", "handled"}
  /\ task'[c] \in Due(clock) /\ todo'[c] = Due(clock) \ {task'[c]}

LEMMA TickStarts ==
  ASSUME TypeOK, NEW c \in Call, StartTick(c) PROVE Starts(c)
  <1>1. Due(clock) \in SUBSET Listed /\ at' = [at EXCEPT ![c] = clock] /\ clock \in Nat
        /\ Dispatch(c, Due(clock)) /\ clock' = clock + 1 /\ at' \in [Call -> Nat]
    BY DueTyped DEF StartTick, ReadClock, TypeOK
  <1>2. LocalsOf(c) /\ task'[c] \in Due(clock) /\ todo'[c] = Due(clock) \ {task'[c]}
        /\ pc'[c] \in {"await", "handled"}
    BY <1>1, DispatchTyped
  <1>3. \A d \in Call \ {c} :
          pc'[d] = pc[d] /\ task'[d] = task[d] /\ at'[d] = at[d] /\ todo'[d] = todo[d]
    BY <1>1, <1>2 DEF LocalsOf, TypeOK
  <1> QED
    BY <1>1, <1>2, <1>3 DEF Starts, StartTick, At, MayStep, TypeOK

\* The process dies, or time passes, or nothing happens.
Quiet ==
  /\ row' = row /\ log' = log /\ clock' \in {clock, clock + 1}
  /\ \/ pc' = pc /\ task' = task /\ at' = at /\ todo' = todo /\ open' = open /\ lost' = lost
     \/ /\ open' = {} /\ lost' = lost \cup open
        /\ \A c \in Call : pc'[c] = "idle" /\ todo'[c] = {}

LEMMA StepKinds ==
  ASSUME TypeOK, Fresh, Segments, [Next]_vars
  PROVE  Quiet \/ \E c \in Call : Starts(c) \/ Logs(c) \/ Ends(c)
  <1>1. CASE Elapse \/ Crash \/ UNCHANGED vars
    BY <1>1 DEF Quiet, Elapse, Crash, vars, locals
  <1>2. ASSUME NEW c \in Call, Step(c) PROVE Starts(c) \/ Logs(c) \/ Ends(c)
    BY <1>2, TickStarts, EvidenceLogs, MarkLogs, WakeLogs, ResolveLogs, CloseLogs,
       StoreEnds, UpsertEnds, SettleEnds DEF Step
  <1> QED
    BY <1>1, <1>2 DEF Next

-----------------------------------------------------------------------------
(* The log and the segments.                                               *)

\* Ids of unlike events are not alike.
LEMMA IdsTell ==
  ASSUME NEW e, NEW f, Ided(e), Ided(f), e.id = f.id
  PROVE  e.obl = f.obl /\ e.kind = f.kind /\ (e.kind # "wake" => e.at = f.at)
  BY DEF Ided

LEMMA LogIded ==
  ASSUME TypeOK, LogKept, NEW i \in DOMAIN log
  PROVE  log[i] \in Event /\ Ided(log[i])
  BY DEF LogKept, Ided, TypeOK

LEMMA Appended ==
  ASSUME TypeOK, LogKept, NEW c \in Call, NEW e \in Event, Appending(c, e)
  PROVE  /\ log' = IF Logged(e.id) THEN log ELSE Append(log, e)
         /\ DOMAIN log \subseteq DOMAIN log' /\ \A i \in DOMAIN log : log'[i] = log[i]
         /\ \A i \in DOMAIN log' :
              \/ i \in DOMAIN log
              \/ ~Logged(e.id) /\ log'[i] = e /\ i = Len(log) + 1
         /\ Logged(e.id)'
         /\ \A i \in DOMAIN log' : log'[i].id = e.id =>
              log'[i].obl = e.obl /\ log'[i].kind = e.kind
              /\ (e.kind # "wake" => log'[i].at = e.at)
  <1>1. log' = IF Logged(e.id) THEN log ELSE Append(log, e)
    BY DEF Appending, AppendEvent
  <1>2. log \in Seq(Event)
    BY DEF TypeOK
  <1>3. /\ DOMAIN log \subseteq DOMAIN log' /\ \A i \in DOMAIN log : log'[i] = log[i]
        /\ \A i \in DOMAIN log' :
              \/ i \in DOMAIN log
              \/ ~Logged(e.id) /\ log'[i] = e /\ i = Len(log) + 1
        /\ ~Logged(e.id) => Len(log) + 1 \in DOMAIN log' /\ log'[Len(log) + 1] = e
    BY <1>1, <1>2
  <1>4. Logged(e.id)'
    BY <1>3 DEF Logged
  <1>5. Ided(e)
    BY DEF Appending
  <1>6. ASSUME NEW i \in DOMAIN log', log'[i].id = e.id
        PROVE  log'[i].obl = e.obl /\ log'[i].kind = e.kind
               /\ (e.kind # "wake" => log'[i].at = e.at)
    <2>1. CASE i \in DOMAIN log
      BY <1>3, <1>5, <1>6, <2>1, LogIded, IdsTell
    <2>2. CASE log'[i] = e
      BY <2>2
    <2> QED
      BY <1>3, <2>1, <2>2
  <1> QED
    BY <1>1, <1>3, <1>4, <1>6

LEMMA LogKeptStep ==
  ASSUME TypeOK, Fresh, Segments, LogKept, [Next]_vars PROVE LogKept'
  <1>0. log \in Seq(Event) /\ clock \in Nat /\ \A i \in DOMAIN log : log[i].at \in Nat
    <2>1. \A i \in DOMAIN log : log[i] \in Event
      BY DEF TypeOK
    <2> QED
      BY <2>1, EventParts DEF TypeOK
  <1>1. ASSUME log' = log, clock' \in {clock, clock + 1}, open' \cup lost' \subseteq open \cup lost
        PROVE  LogKept'
    BY <1>0, <1>1 DEF LogKept, Logged
  <1>2. CASE Quiet
    BY <1>1, <1>2 DEF Quiet
  <1>3. ASSUME NEW c \in Call, Starts(c) PROVE LogKept'
    BY <1>1, <1>3 DEF Starts
  <1>4. ASSUME NEW c \in Call, Ends(c) PROVE LogKept'
    BY <1>1, <1>4 DEF Ends, EndSegment
  <1>5. ASSUME NEW c \in Call, NEW e \in Event, Appending(c, e) PROVE LogKept'
    <2>1. /\ lost' = lost /\ open' = open \cup {e.id} /\ clock' \in {clock, clock + 1}
          /\ e.at < clock' /\ Ided(e)
      BY <1>5 DEF Appending, AppendEvent
    <2>2. \A i \in DOMAIN log' :
       /\ log'[i].id = IF log'[i].kind = "wake" THEN <<"wake", log'[i].obl>>
                      ELSE <<log'[i].kind, log'[i].obl, log'[i].at>>
       /\ log'[i].kind = "wake" => log'[i].wake.obl = log'[i].obl
       /\ log'[i].at < clock'
      <3> SUFFICES ASSUME NEW i \in DOMAIN log'
                   PROVE  Ided(log'[i]) /\ log'[i].at < clock'
        BY DEF Ided
      <3>1. CASE i \in DOMAIN log
        <4>1. log'[i] = log[i] /\ Ided(log[i]) /\ log[i].at < clock /\ log[i].at \in Nat
          BY <1>0, <1>5, <3>1, Appended, LogIded DEF LogKept
        <4> QED
          BY <1>0, <2>1, <4>1
      <3>2. CASE log'[i] = e
        BY <2>1, <3>2
      <3> QED
        BY <1>5, <3>1, <3>2, Appended
    <2>3. ASSUME NEW i \in DOMAIN log', NEW j \in DOMAIN log', log'[i].id = log'[j].id
          PROVE  i = j
      <3>1. CASE i \in DOMAIN log /\ j \in DOMAIN log
        BY <1>5, <2>3, <3>1, Appended DEF LogKept
      <3>2. CASE i \notin DOMAIN log
        BY <1>5, <2>3, <3>2, Appended DEF Logged
      <3>3. CASE j \notin DOMAIN log
        BY <1>5, <2>3, <3>3, Appended DEF Logged
      <3> QED
        BY <3>1, <3>2, <3>3
    <2>4. \A id \in open' \cup lost' : Logged(id)'
      <3>1. \A id : Logged(id) => Logged(id)'
        BY <1>5, Appended DEF Logged
      <3> QED
        BY <1>5, <2>1, <3>1, Appended DEF LogKept
    <2> QED
      BY <2>2, <2>3, <2>4 DEF LogKept
  <1> QED
    BY <1>2, <1>3, <1>4, <1>5, StepKinds DEF Logs

LEMMA SegmentsStep ==
  ASSUME TypeOK, Fresh, Segments, LogKept, [Next]_vars PROVE Segments'
  <1>0. \A d \in Call : pc[d] \in Steps
    BY TaskAt
  <1>1. CASE Quiet
    BY <1>1 DEF Quiet, Segments, Holds, Writes
  <1>2. ASSUME NEW c \in Call, Starts(c) PROVE Segments'
    BY <1>0, <1>2 DEF Starts, Segments, Holds, Writes
  <1>3. ASSUME NEW c \in Call, Ends(c) PROVE Segments'
    <2>1. \A d \in Call \ {c} : ~Holds(d)
      BY <1>3 DEF Segments, Holds, Ends
    <2> QED
      BY <1>0, <1>3, <2>1 DEF Ends, EndSegment, Segments, Holds, Writes
  <1>4. ASSUME NEW c \in Call, NEW e \in Event, Appending(c, e),
               Evidences(c, e) \/ Marks(c, e) \/ Wakes(c, e) \/ Resolves(c, e) \/ Closes(c, e)
        PROVE  Segments'
    <2>1. \A d \in Call \ {c} : ~Holds(d) /\ ~(Holds(d)') /\ ~(Writes(d)')
      BY <1>0, <1>4 DEF Appending, Holds, Writes
    <2>2. Writes(c)' /\ task'[c].obl = e.obl /\ open' = open \cup {e.id}
      BY <1>4 DEF Appending, Writes, AppendEvent
    <2>3. ASSUME NEW i \in DOMAIN log', log'[i].id \in open' PROVE log'[i].obl = task'[c].obl
      <3>1. CASE log'[i].id = e.id
        BY <1>4, <2>2, <3>1, Appended
      <3>2. CASE log'[i].id # e.id
        <4>1. i \in DOMAIN log /\ log[i].id \in open
          BY <1>4, <2>2, <2>3, <3>2, Appended
        <4>2. Writes(c)
          BY <1>0, <2>1, <4>1 DEF Segments, Holds, Writes, Steps
        <4>3. task[c].obl = e.obl
          BY <1>4, <4>2 DEF Evidences, Marks, Wakes, Resolves, Closes, Writes, Awaiting
        <4> QED
          BY <1>4, <2>2, <4>1, <4>2, <4>3, Appended DEF Segments
      <3> QED
        BY <3>1, <3>2
    <2>4. /\ pc'[c] = "mark" => task'[c].closed \/ task'[c].escalated
          /\ pc'[c] \in {"mark", "store"} =>
               /\ task'[c].closed => task'[c].status = "closed"
               /\ ~task'[c].closed /\ task'[c].escalated => task'[c].status = "escalated"
          /\ pc'[c] = "close" => task'[c].status = "closed"
      <3>1. CASE Evidences(c, e)
        BY <3>1 DEF Evidences, RunOn
      <3>2. CASE Marks(c, e)
        BY <3>2 DEF Marks, Segments
      <3>3. CASE Wakes(c, e) \/ Closes(c, e)
        BY <3>3 DEF Wakes, Closes
      <3>4. CASE Resolves(c, e)
        BY <3>4 DEF Resolves
      <3> QED
        BY <1>4, <3>1, <3>2, <3>3, <3>4
    <2> QED
      BY <2>1, <2>2, <2>3, <2>4 DEF Segments, Holds, Writes
  <1> QED
    BY <1>1, <1>2, <1>3, <1>4, StepKinds DEF Logs

LEMMA FreshStep ==
  ASSUME TypeOK, Fresh, Segments, LogKept, [Next]_vars PROVE Fresh'
  <1>0. /\ log \in Seq(Event) /\ clock \in Nat
        /\ \A d \in Call : at[d] \in Nat /\ pc[d] \in Steps /\ todo[d] \subseteq Listed
        /\ \A i \in DOMAIN log : log[i].at \in Nat /\ log[i].at < clock
    <2>1. \A i \in DOMAIN log : log[i] \in Event
      BY DEF TypeOK
    <2> QED
      BY <2>1, TaskAt, EventParts DEF TypeOK, LogKept
  <1>1. CASE Quiet
    <2>1. CASE pc' = pc /\ task' = task /\ at' = at /\ todo' = todo
      BY <1>0, <1>1, <2>1 DEF Quiet, Fresh, Ticking, Awaiting
    <2>2. CASE \A d \in Call : pc'[d] = "idle" /\ todo'[d] = {}
      BY <2>2 DEF Fresh, Ticking, Awaiting
    <2> QED
      BY <1>1, <2>1, <2>2 DEF Quiet
  <1>2. ASSUME NEW c \in Call, Starts(c) PROVE Fresh'
    <2>1. \A t, u \in Due(clock) : t.obl = u.obl => t = u
      <3> SUFFICES ASSUME NEW t \in Due(clock) PROVE t = [obl |-> t.obl, row |-> row[t.obl]]
        OBVIOUS
      <3> QED
        BY DueTyped DEF Listed
    <2>2. \A d \in Call : pc'[d] # "idle" => at'[d] < clock'
      BY <1>0, <1>2 DEF Starts, Fresh
    <2>3. \A d, f \in Call : d # f /\ pc'[d] # "idle" /\ pc'[f] # "idle" => at'[d] # at'[f]
      BY <1>0, <1>2 DEF Starts, Fresh
    <2>4. \A d \in Call : /\ ~(Ticking(d)') => todo'[d] = {}
                          /\ \A t, u \in todo'[d] : t.obl = u.obl => t = u
                          /\ \A t \in todo'[d] : t.obl # task'[d].obl
      BY <1>2, <2>1 DEF Starts, Fresh, Ticking
    <2>5. ASSUME NEW d \in Call, NEW i \in DOMAIN log', pc'[d] # "idle", log'[i].kind # "wake",
                 log'[i].at = at'[d]
          PROVE  d # c /\ pc'[d] = pc[d] /\ todo'[d] = todo[d] /\ task'[d] = task[d]
                 /\ at'[d] = at[d] /\ log'[i] = log[i]
      BY <1>0, <1>2, <2>5 DEF Starts
    <2>6. \A d \in Call, i \in DOMAIN log' :
       pc'[d] # "idle" /\ log'[i].kind # "wake" /\ log'[i].at = at'[d] =>
         /\ \A t \in todo'[d] : log'[i].obl # t.obl
         /\ Awaiting(d)' => log'[i].obl # task'[d].obl
         /\ pc'[d] = "mark" /\ log'[i].obl = task'[d].obl => log'[i].kind = "evidence"
         /\ pc'[d] = "close" => log'[i].kind = "resolve"
      BY <1>2, <2>5 DEF Starts, Fresh, Awaiting
    <2> QED
      BY <2>2, <2>3, <2>4, <2>6 DEF Fresh
  <1>3. ASSUME NEW c \in Call, Ends(c) PROVE Fresh'
    <2>1. CASE pc'[c] = "idle" /\ todo'[c] = {}
      <3>1. /\ log' = log /\ clock' = clock /\ pc'[c] = "idle" /\ todo'[c] = {}
            /\ \A d \in Call \ {c} : pc'[d] = pc[d] /\ task'[d] = task[d]
                                    /\ at'[d] = at[d] /\ todo'[d] = todo[d]
        BY <1>3, <2>1 DEF Ends
      <3>2. \A d \in Call : pc'[d] # "idle" => at'[d] < clock'
        BY <3>1 DEF Fresh
      <3>3. \A d, f \in Call : d # f /\ pc'[d] # "idle" /\ pc'[f] # "idle" => at'[d] # at'[f]
        BY <3>1 DEF Fresh
      <3>4. \A d \in Call : /\ ~(Ticking(d)') => todo'[d] = {}
                            /\ \A t, u \in todo'[d] : t.obl = u.obl => t = u
                            /\ \A t \in todo'[d] : t.obl # task'[d].obl
        BY <3>1 DEF Fresh, Ticking
      <3>5. \A d \in Call, i \in DOMAIN log' :
              pc'[d] # "idle" /\ log'[i].kind # "wake" /\ log'[i].at = at'[d] =>
                /\ \A t \in todo'[d] : log'[i].obl # t.obl
                /\ Awaiting(d)' => log'[i].obl # task'[d].obl
                /\ pc'[d] = "mark" /\ log'[i].obl = task'[d].obl => log'[i].kind = "evidence"
                /\ pc'[d] = "close" => log'[i].kind = "resolve"
        BY <3>1 DEF Fresh, Awaiting
      <3> QED
        BY <3>2, <3>3, <3>4, <3>5 DEF Fresh
    <2>2. CASE /\ pc[c] = "store" /\ pc'[c] \in {"await", "handled"} /\ at'[c] = at[c]
               /\ task'[c] \in todo[c] /\ todo'[c] = todo[c] \ {task'[c]}
      <3>1. /\ log' = log /\ clock' = clock
            /\ \A d \in Call \ {c} : pc'[d] = pc[d] /\ task'[d] = task[d]
                                    /\ at'[d] = at[d] /\ todo'[d] = todo[d]
        BY <1>3 DEF Ends
      <3>2. \A d \in Call : pc'[d] # "idle" => pc[d] # "idle" /\ at'[d] = at[d]
        BY <2>2, <3>1
      <3>3. \A d \in Call : pc'[d] # "idle" => at'[d] < clock'
        BY <3>1, <3>2 DEF Fresh
      <3>4. \A d, f \in Call : d # f /\ pc'[d] # "idle" /\ pc'[f] # "idle" => at'[d] # at'[f]
        BY <3>2 DEF Fresh
      <3>5. /\ Ticking(c)' /\ \A t, u \in todo'[c] : t.obl = u.obl => t = u
            /\ \A t \in todo'[c] : t.obl # task'[c].obl
        BY <2>2 DEF Fresh, Ticking
      <3>6. \A d \in Call : /\ ~(Ticking(d)') => todo'[d] = {}
                            /\ \A t, u \in todo'[d] : t.obl = u.obl => t = u
                            /\ \A t \in todo'[d] : t.obl # task'[d].obl
        BY <3>1, <3>5 DEF Fresh, Ticking
      <3>7. ASSUME NEW d \in Call, NEW i \in DOMAIN log', pc'[d] # "idle",
                   log'[i].kind # "wake", log'[i].at = at'[d]
            PROVE  /\ \A t \in todo'[d] : log'[i].obl # t.obl
                   /\ Awaiting(d)' => log'[i].obl # task'[d].obl
                   /\ pc'[d] = "mark" /\ log'[i].obl = task'[d].obl => log'[i].kind = "evidence"
                   /\ pc'[d] = "close" => log'[i].kind = "resolve"
        <4>1. \A t \in todo[d] : log[i].obl # t.obl
          BY <3>1, <3>2, <3>7 DEF Fresh
        <4>2. CASE d = c
          BY <2>2, <3>1, <4>1, <4>2
        <4>3. CASE d # c
          BY <3>1, <3>7, <4>3 DEF Fresh, Awaiting
        <4> QED
          BY <4>2, <4>3
      <3> QED
        BY <3>3, <3>4, <3>6, <3>7 DEF Fresh
    <2> QED
      BY <1>3, <2>1, <2>2 DEF Ends
  <1>4. ASSUME NEW c \in Call, NEW e \in Event, Appending(c, e),
               Evidences(c, e) \/ Marks(c, e) \/ Wakes(c, e) \/ Resolves(c, e) \/ Closes(c, e)
        PROVE  Fresh'
    <2>1. /\ todo' = todo /\ clock' \in {clock, clock + 1} /\ e.at < clock' /\ at'[c] = e.at
          /\ \A d \in Call \ {c} : pc'[d] = pc[d] /\ task'[d] = task[d] /\ at'[d] = at[d]
          /\ task'[c].obl = e.obl
      BY <1>4 DEF Appending, Evidences, Marks, Wakes, Resolves, Closes
    <2>2. \A d \in Call \ {c} : pc[d] # "idle" => at[d] # at'[c]
      <3>1. CASE pc[c] # "idle"
        BY <1>4, <3>1 DEF Fresh, Evidences, Marks, Wakes, Resolves, Closes
      <3>2. CASE pc[c] = "idle"
        BY <1>0, <1>4, <3>2 DEF Fresh, Evidences, Marks, Wakes, Resolves, Closes, Awaiting
      <3> QED
        BY <3>1, <3>2
    <2>3. \A d \in Call : pc'[d] # "idle" => at'[d] < clock'
      BY <1>0, <2>1 DEF Fresh
    <2>4. \A d, f \in Call : d # f /\ pc'[d] # "idle" /\ pc'[f] # "idle" => at'[d] # at'[f]
      BY <2>1, <2>2 DEF Fresh
    <2>5. /\ ~(Ticking(c)') => todo[c] = {}
          /\ \A t \in todo[c] : t.obl # task'[c].obl
      BY <1>4, <2>1 DEF Fresh, Ticking, Evidences, Marks, Wakes, Resolves, Closes, Awaiting
    <2>6. \A d \in Call : /\ ~(Ticking(d)') => todo'[d] = {}
                          /\ \A t, u \in todo'[d] : t.obl = u.obl => t = u
                          /\ \A t \in todo'[d] : t.obl # task'[d].obl
      BY <2>1, <2>5 DEF Fresh, Ticking
    <2>7. ASSUME NEW d \in Call, NEW i \in DOMAIN log', pc'[d] # "idle",
                 log'[i].kind # "wake", log'[i].at = at'[d]
          PROVE  /\ \A t \in todo'[d] : log'[i].obl # t.obl
                 /\ Awaiting(d)' => log'[i].obl # task'[d].obl
                 /\ pc'[d] = "mark" /\ log'[i].obl = task'[d].obl => log'[i].kind = "evidence"
                 /\ pc'[d] = "close" => log'[i].kind = "resolve"
      <3>1. (i \in DOMAIN log /\ log'[i] = log[i]) \/ log'[i] = e
        BY <1>4, Appended
      <3>2. CASE d # c
        <4>1. i \in DOMAIN log /\ log'[i] = log[i]
          BY <2>1, <2>2, <2>7, <3>1, <3>2
        <4> QED
          BY <2>1, <2>7, <3>2, <4>1 DEF Fresh, Awaiting
      <3>3. CASE d = c /\ log'[i] = e
        BY <1>4, <2>1, <2>6, <3>3
        DEF Evidences, Marks, Wakes, Resolves, Closes, Awaiting
      <3>4. CASE d = c /\ i \in DOMAIN log /\ log'[i] = log[i]
        <4>1. CASE Wakes(c, e) \/ Resolves(c, e)
          BY <1>0, <2>1, <2>7, <3>4, <4>1 DEF Wakes, Resolves
        <4>2. CASE Evidences(c, e)
          BY <2>1, <2>7, <3>4, <4>2 DEF Evidences, Fresh, Awaiting
        <4>3. CASE Marks(c, e) \/ Closes(c, e)
          BY <2>1, <2>7, <3>4, <4>3 DEF Marks, Closes, Fresh, Awaiting
        <4> QED
          BY <1>4, <4>1, <4>2, <4>3
      <3> QED
        BY <3>1, <3>2, <3>3, <3>4
    <2> QED
      BY <2>3, <2>4, <2>6, <2>7 DEF Fresh
  <1> QED
    BY <1>1, <1>2, <1>3, <1>4, StepKinds DEF Logs

\* What is not logged yet: the event that a call appends, unless it is a wake.
LEMMA NotYetLogged ==
  ASSUME TypeOK, LogKept, Fresh, NEW c \in Call, NEW e \in Event, Appending(c, e),
         Evidences(c, e) \/ Marks(c, e) \/ Resolves(c, e) \/ Closes(c, e)
  PROVE  ~Logged(e.id)
  <1> SUFFICES ASSUME NEW i \in DOMAIN log, log[i].id = e.id PROVE FALSE
    BY DEF Logged
  <1>1. Ided(e) /\ e.kind # "wake"
    BY DEF Appending, Evidences, Marks, Resolves, Closes
  <1>2. log[i].obl = e.obl /\ log[i].kind = e.kind /\ log[i].at = e.at
    BY <1>1, LogIded, IdsTell
  <1>3. log[i].at < clock /\ log[i].at \in Nat
    BY LogIded, EventParts DEF LogKept
  <1>4. CASE Evidences(c, e)
    BY <1>1, <1>2, <1>4 DEF Evidences, Fresh, Awaiting
  <1>5. CASE Marks(c, e)
    BY <1>1, <1>2, <1>5 DEF Marks, Fresh
  <1>6. CASE Resolves(c, e)
    BY <1>2, <1>3, <1>6 DEF Resolves
  <1>7. CASE Closes(c, e)
    BY <1>1, <1>2, <1>7 DEF Closes, Fresh
  <1> QED
    BY <1>4, <1>5, <1>6, <1>7

LEMMA WokenStep ==
  ASSUME TypeOK, Fresh, Segments, LogKept, Woken, ~Rewake, [Next]_vars PROVE Woken'
  <1>1. CASE Quiet
    BY <1>1 DEF Quiet, Woken
  <1>2. ASSUME NEW c \in Call, Starts(c) PROVE Woken'
    BY <1>2 DEF Starts, Woken, Holds
  <1>3. ASSUME NEW c \in Call, Ends(c) PROVE Woken'
    <2>1. \A d \in Call \ {c} : ~Holds(d) /\ pc'[d] = pc[d]
      BY <1>3 DEF Segments, Holds, Ends
    <2>2. \A d \in Call : pc'[d] # "upsert"
      BY <1>3, <2>1 DEF Ends, Holds
    <2>3. ASSUME NEW i \in DOMAIN log', row'[log'[i].obl] = None
          PROVE  log'[i].kind = "wake" /\ log'[i].id \in lost' \cup open'
      <3>1. log' = log /\ lost' = lost \ open /\ open' = {} /\ log[i] \in Event
            /\ i \in DOMAIN log /\ log[i].obl \in Obl
        BY <1>3, <2>3, LogIded, EventParts DEF Ends, EndSegment
      <3>2. row[log[i].obl] = None /\ log[i].obl # task[c].obl
        BY <1>3, <2>3, <3>1, NoRowAssumption DEF Ends, TypeOK
      <3>3. log[i].id \notin open
        BY <1>3, <3>1, <3>2 DEF Segments, Ends, Writes
      <3> QED
        BY <3>1, <3>2, <3>3 DEF Woken
    <2> QED
      BY <2>2, <2>3 DEF Woken
  <1>4. ASSUME NEW c \in Call, NEW e \in Event, Appending(c, e),
               Evidences(c, e) \/ Marks(c, e) \/ Wakes(c, e) \/ Resolves(c, e) \/ Closes(c, e)
        PROVE  Woken'
    <2>1. row' = row /\ lost' = lost /\ open' = open \cup {e.id} /\ task'[c].obl = e.obl
          /\ \A d \in Call \ {c} : pc'[d] = pc[d] /\ task'[d] = task[d]
      BY <1>4 DEF Appending, AppendEvent
    <2>2. e.kind # "wake" => row[e.obl] # None
      BY <1>4, TaskAt DEF Evidences, Marks, Wakes, Resolves, Closes, Awaiting
    <2>3. ASSUME NEW i \in DOMAIN log', row'[log'[i].obl] = None
          PROVE  log'[i].kind = "wake" /\ log'[i].id \in lost' \cup open'
      <3>1. CASE log'[i] = e
        BY <2>1, <2>2, <2>3, <3>1
      <3>2. CASE i \in DOMAIN log /\ log'[i] = log[i]
        BY <2>1, <2>3, <3>2 DEF Woken
      <3> QED
        BY <1>4, <3>1, <3>2, Appended
    <2>4. pc'[c] = "upsert" => row'[task'[c].obl] = None
      BY <1>4, <2>1 DEF Evidences, Marks, Wakes, Resolves, Closes
    <2> QED
      BY <2>1, <2>3, <2>4 DEF Woken
  <1> QED
    BY <1>1, <1>2, <1>3, <1>4, StepKinds DEF Logs

-----------------------------------------------------------------------------
(* The projection.                                                         *)

LEMMA AlikeRecorded ==
  ASSUME NEW r \in Row, NEW s \in Row, Alike(r, s), NEW u \in Run, NEW now \in Nat
  PROVE  RecordRun(s, u, now) = RecordRun(r, u, now)
  <1>1. s.every = r.every /\ s.runs = r.runs /\ s.closedAt = r.closedAt
        /\ s.earliest = r.earliest /\ s.deadline = r.deadline
    BY NoRowAssumption DEF Alike, Row
  <1> QED
    BY <1>1 DEF RecordRun, Row

LEMMA AlikeApplied ==
  ASSUME NEW r \in Row, NEW s \in Row, Alike(r, s), NEW status \in Status, NEW now \in Nat
  PROVE  Alike(ApplyStatus(r, status, now), ApplyStatus(s, status, now))
  <1>1. s.every = r.every /\ s.runs = r.runs /\ s.closedAt = r.closedAt /\ s.ok = r.ok
        /\ s.earliest = r.earliest /\ s.deadline = r.deadline /\ s.status = r.status
        /\ Shown(s) = Shown(r)
    BY NoRowAssumption DEF Alike, Row
  <1>2. CASE r.status = "closed"
    BY <1>1, <1>2 DEF ApplyStatus
  <1>3. CASE r.status # "closed"
    <2>1. ApplyStatus(r, status, now) = ApplyStatus(s, status, now)
      BY <1>1, <1>3 DEF ApplyStatus, Row
    <2> QED
      BY <2>1, ApplyStatusTyped DEF Alike, Row
  <1> QED
    BY <1>2, <1>3

LEMMA StatusAfter ==
  ASSUME NEW r \in Row, NEW now \in Nat
  PROVE  /\ \A u \in Run : RecordRun(r, u, now).status = u.status
         /\ ApplyStatus(r, "closed", now).status = "closed"
  <1>1. ASSUME NEW u \in Run PROVE RecordRun(r, u, now).status = u.status
    <2>1. RecordRun(r, u, now).status = [r EXCEPT !.status = u.status].status
      BY DEF RecordRun, Row
    <2> QED
      BY <2>1 DEF Row
  <1>2. ApplyStatus(r, "closed", now).status = "closed"
    BY DEF ApplyStatus, Row
  <1> QED
    BY <1>1, <1>2

\* A close or an escalation says again what the update before it has said.
LEMMA AlikeMarked ==
  ASSUME NEW r \in Row, NEW s \in Row, Alike(r, s), NEW now \in Nat,
         r.status \in {"closed", "escalated"}
  PROVE  Alike(r, ApplyStatus(s, r.status, now))
  <1>1. s.every = r.every /\ s.runs = r.runs /\ s.closedAt = r.closedAt /\ s.ok = r.ok
        /\ s.earliest = r.earliest /\ s.deadline = r.deadline /\ s.status = r.status
        /\ Shown(s) = Shown(r)
    BY NoRowAssumption DEF Alike, Row
  <1>2. CASE r.status = "closed"
    BY <1>1, <1>2 DEF ApplyStatus
  <1>3. CASE r.status = "escalated"
    <2>1. ApplyStatus(s, r.status, now) = [s EXCEPT !.next = Shown(s)]
      BY <1>1, <1>3 DEF ApplyStatus, Row
    <2>2. Shown([s EXCEPT !.next = Shown(s)]) = Shown(s)
      BY <1>1, <1>3 DEF Shown, Row
    <2> DEFINE t == [s EXCEPT !.next = Shown(s)]
    <2>3. s = [r EXCEPT !.next = s.next]
      BY NoRowAssumption DEF Alike
    <2>4. t.next = Shown(s) /\ t = [r EXCEPT !.next = t.next]
      BY <2>3 DEF Row
    <2>5. t \in Row
      BY ShownTyped DEF Row
    <2> HIDE DEF t
    <2>6. Alike(r, t)
      BY <1>1, <2>2, <2>4, <2>5, NoRowAssumption DEF Alike, t
    <2> QED
      BY <2>1, <2>6 DEF t
  <1> QED
    BY <1>2, <1>3

LEMMA AlikeSelf ==
  ASSUME NEW r \in Row \cup {None} PROVE Alike(r, r)
  BY DEF Alike, Row

\* A wake is the same packet whenever it arrives.
OneWake == \A v, w \in Wake : v.obl = w.obl => v = w

\* Appending e, which is not logged yet: what a replay of the longer log gives.
LEMMA AppendedFinal ==
  ASSUME TypeOK, LogKept, NEW c \in Call, NEW e \in Event, Appending(c, e), ~Logged(e.id),
         NEW o \in Obl
  PROVE  /\ Final(log', lost' \cup open')[o] = Final(log, lost \cup open)[o]
         /\ Final(log', lost' \ open')[o] =
              IF e.obl = o THEN ProjectOn(Final(log, lost \ open)[o], e)
              ELSE Final(log, lost \ open)[o]
  <1>1. /\ log \in Seq(Event) /\ log' = Append(log, e)
        /\ lost' = lost /\ open' = open \cup {e.id}
    BY DEF TypeOK, Appending, AppendEvent
  <1>2. e.id \notin lost \cup open /\ \A n \in 1 .. Len(log) : log[n].id # e.id
    BY <1>1 DEF LogKept, Logged
  <1>3. Final(log', lost' \cup open')[o] = Final(log, lost' \cup open')[o]
    BY <1>1, FinalAppend
  <1>4. Final(log, lost' \cup open')[o] = Final(log, lost \cup open)[o]
    <2> DEFINE here == lost' \cup open'
               there == lost \cup open
    <2>1. \A n \in 1 .. Len(log) :
            log[n].obl = o => (log[n].id \in here <=> log[n].id \in there)
      BY <1>1, <1>2
    <2> HIDE DEF here, there
    <2>2. Final(log, here)[o] = Final(log, there)[o]
      BY <1>1, <2>1, FinalAgree
    <2> QED
      BY <2>2 DEF here, there
  <1>5. lost' \ open' = lost \ open /\ e.id \notin lost \ open
    BY <1>1, <1>2
  <1>6. Final(log', lost \ open)[o] =
          IF e.obl = o THEN ProjectOn(Final(log, lost \ open)[o], e)
          ELSE Final(log, lost \ open)[o]
    BY <1>1, <1>5, FinalAppend
  <1> QED
    BY <1>3, <1>4, <1>5, <1>6

\* A wake that is logged already was cut off by a crash, and is all there is of
\* its obligation.
LEMMA WokenAgain ==
  ASSUME TypeOK, LogKept, Fresh, Segments, Woken, ~Rewake, OneWake,
         NEW c \in Call, NEW e \in Event, Appending(c, e), Wakes(c, e), Logged(e.id)
  PROVE  /\ log' = log /\ open = {} /\ e.id \in lost
         /\ Final(log, lost \ {e.id})[e.obl] = ProjectOn(None, e)
  <1>1. open = {}
    <2>1. \A d \in Call : ~Writes(d)
      BY DEF Appending, Wakes, Holds, Writes
    <2> QED
      BY <2>1 DEF Segments
  <1>2. /\ log' = log /\ e.kind = "wake" /\ row[e.obl] = None /\ Ided(e) /\ e.obl \in Obl
        /\ e.wake \in Wake /\ e.wake.obl = e.obl /\ log \in Seq(Event)
    BY EventParts DEF Appending, AppendEvent, Wakes, TypeOK, Ided
  <1>3. PICK i \in DOMAIN log : log[i].id = e.id
    BY DEF Logged
  <1>4. log[i].obl = e.obl /\ log[i].kind = "wake" /\ log[i] \in Event /\ Ided(log[i])
        /\ i \in 1 .. Len(log)
    BY <1>2, <1>3, LogIded, IdsTell
  <1>5. log[i].wake = e.wake
    BY <1>2, <1>4, EventParts DEF OneWake, Ided
  <1>6. e.id \in lost
    BY <1>1, <1>2, <1>3, <1>4 DEF Woken
  <1>7. ASSUME NEW n \in 1 .. Len(log), n # i, log[n].obl = e.obl PROVE log[n].id \in lost \ {e.id}
    <2>1. n \in DOMAIN log /\ log[n].id # e.id
      BY <1>2, <1>3, <1>7 DEF LogKept
    <2> QED
      BY <1>1, <1>2, <1>7, <2>1 DEF Woken
  <1>8. Final(log, lost \ {e.id})[e.obl] = ProjectOn(None, log[i])
    BY <1>2, <1>3, <1>4, <1>7, FinalOfOne
  <1>9. ProjectOn(None, log[i]) = ProjectOn(None, e)
    BY <1>2, <1>4, <1>5 DEF ProjectOn
  <1> QED
    BY <1>1, <1>2, <1>6, <1>8, <1>9

LEMMA ProjectedLogs ==
  ASSUME TypeOK, LogKept, Fresh, Segments, Woken, ~Rewake, OneWake, Projected,
         NEW c \in Call, NEW e \in Event, Appending(c, e),
         Evidences(c, e) \/ Marks(c, e) \/ Wakes(c, e) \/ Resolves(c, e) \/ Closes(c, e)
  PROVE  Projected'
  <1> DEFINE x == e.obl
             s == Final(log, lost \ open)[x]
  <1>0. /\ row \in Rows /\ log \in Seq(Event) /\ row' = row /\ lost' = lost
        /\ open' = open \cup {e.id} /\ task'[c].obl = x /\ x \in Obl
        /\ s \in Row \cup {None} /\ row[x] \in Row \cup {None}
    <2>1. log \in Seq(Event) /\ x \in Obl
      BY EventParts DEF TypeOK
    <2>2. s \in Row \cup {None}
      BY <2>1, FinalTyped DEF Rows
    <2> QED
      BY <2>1, <2>2 DEF Appending, AppendEvent, TypeOK, Rows
  <1>1. \A d \in Call \ {c} : ~(Writes(d)')
    BY DEF Appending, Holds, Writes
  <1>2. CASE Wakes(c, e) /\ Logged(e.id)
    <2>1. log' = log /\ open = {} /\ e.id \in lost /\ Final(log, lost \ {e.id})[x] = ProjectOn(None, e)
      BY <1>2, WokenAgain
    <2>2. lost' \cup open' = lost \cup open /\ lost' \ open' = lost \ {e.id}
      BY <1>0, <2>1
    <2>3. Pending(c)' = Upsert(None, e.wake) /\ e.wake \in Wake
      BY <1>0, <1>2, EventParts DEF Pending, Wakes
    <2>4. Final(log', lost' \ open')[task'[c].obl] = Pending(c)'
      BY <1>0, <1>2, <2>1, <2>2, <2>3 DEF ProjectOn, Wakes
    <2>5. Alike(Pending(c)', Final(log', lost' \ open')[task'[c].obl])
      BY <2>3, <2>4, UpsertTyped, AlikeSelf
    <2>6. \A o \in Obl : Alike(row'[o], Final(log', lost' \cup open')[o])
      BY <1>0, <2>1, <2>2 DEF Projected
    <2> QED
      BY <1>1, <2>5, <2>6 DEF Projected
  <1>3. CASE ~Logged(e.id)
    <2>1. \A o \in Obl : Alike(row'[o], Final(log', lost' \cup open')[o])
      BY <1>0, <1>3, AppendedFinal DEF Projected
    <2>2. Final(log', lost' \ open')[x] = ProjectOn(s, e)
      BY <1>0, <1>3, AppendedFinal
    <2>3. ASSUME \A d \in Call : ~Writes(d) PROVE Alike(row[x], s)
      <3>1. open = {}
        BY <2>3 DEF Segments
      <3>2. lost \cup open = lost \ open
        BY <3>1
      <3> QED
        BY <1>0, <3>2 DEF Projected
    <2>4. \A d \in Call \ {c} : ~Writes(d)
      BY DEF Appending, Holds, Writes
    <2>5. Alike(Pending(c)', ProjectOn(s, e))
      <3>1. CASE Evidences(c, e)
        <4>1. Alike(row[x], s) /\ row[x] # None /\ row[x] \in Row /\ s \in Row
          BY <1>0, <2>3, <2>4, <3>1, TaskAt DEF Evidences, Awaiting, Writes, Alike
        <4>2. e.run \in Run /\ e.at \in Nat
          BY <3>1, EventParts DEF Evidences
        <4>3. Pending(c)' = RecordRun(row[x], e.run, e.at)
          BY <1>0, <3>1 DEF Pending, Evidences
        <4>4. ProjectOn(s, e) = RecordRun(s, e.run, e.at)
          BY <3>1, <4>1, NoRowAssumption DEF ProjectOn, Evidences
        <4> QED
          BY <4>1, <4>2, <4>3, <4>4, AlikeRecorded, RecordRunTyped, AlikeSelf
      <3>2. CASE Marks(c, e)
        <4>1. /\ Pending(c) = RecordRun(row[x], task[c], at[c]) /\ task[c] \in Run
              /\ row[x] \in Row /\ at[c] \in Nat
          BY <3>2, TaskAt DEF Marks, Pending
        <4>2. Pending(c) \in Row /\ Pending(c).status = task[c].status
          BY <4>1, RecordRunTyped, StatusAfter
        <4>3. Pending(c)' = Pending(c) /\ Alike(Pending(c), s)
          BY <1>0, <3>2, <4>1 DEF Marks, Pending, Projected, Writes
        <4>4. s \in Row /\ s # None
          BY <1>0, <4>2, <4>3, NoRowAssumption DEF Alike
        <4>5. task[c].status = IF task[c].closed THEN "closed" ELSE "escalated"
          BY <3>2 DEF Marks, Segments
        <4>6. ProjectOn(s, e) = ApplyStatus(s, task[c].status, e.at)
          BY <3>2, <4>4, <4>5 DEF ProjectOn, Marks
        <4> QED
          BY <3>2, <4>1, <4>2, <4>3, <4>4, <4>5, <4>6, AlikeMarked DEF Marks
      <3>3. CASE Wakes(c, e)
        <4>1. row[x] = None /\ Alike(row[x], s)
          BY <2>3, <2>4, <3>3 DEF Wakes, Writes
        <4>2. s = None /\ e.wake \in Wake
          BY <3>3, <4>1, EventParts DEF Alike, Wakes
        <4>3. Pending(c)' = Upsert(None, e.wake) /\ ProjectOn(s, e) = Upsert(None, e.wake)
          BY <1>0, <3>3, <4>1, <4>2 DEF Pending, Wakes, ProjectOn
        <4> QED
          BY <4>2, <4>3, UpsertTyped, AlikeSelf
      <3>4. CASE Resolves(c, e)
        <4>1. Alike(row[x], s) /\ row[x] # None /\ row[x] \in Row /\ s \in Row
          BY <1>0, <2>3, <2>4, <3>4 DEF Resolves, Writes, Alike
        <4>2. s.status = row[x].status /\ row[x].status \in Status
          BY <4>1 DEF Alike, Row
        <4>3. Pending(c)' = ApplyStatus(row[x], task'[c].status, e.at)
          BY <1>0, <3>4 DEF Pending, Resolves
        <4>4. ProjectOn(s, e) = ApplyStatus(s, Judgment(e.decision, s.status), e.at)
          BY <3>4, <4>1, NoRowAssumption DEF ProjectOn, Resolves
        <4>5. CASE row[x].status = "closed"
          BY <4>1, <4>2, <4>3, <4>4, <4>5 DEF ApplyStatus
        <4>6. CASE row[x].status # "closed"
          <5>1. task'[c].status = Judgment(e.decision, s.status)
            BY <3>4, <4>2, <4>6 DEF Resolves
          <5>2. Judgment(e.decision, s.status) \in Status /\ e.at \in Nat
            BY <3>4, <4>2, JudgmentTyped, EventParts DEF Resolves
          <5> QED
            BY <4>1, <4>3, <4>4, <5>1, <5>2, AlikeApplied
        <4> QED
          BY <4>5, <4>6
      <3>5. CASE Closes(c, e)
        <4>1. /\ Pending(c) = ApplyStatus(row[x], "closed", at[c])
              /\ row[x] \in Row /\ at[c] \in Nat
          BY <3>5, TaskAt DEF Closes, Pending, Segments
        <4>2. Pending(c) \in Row /\ Pending(c).status = "closed"
          <5>1. "closed" \in Status
            BY DEF Status
          <5>2. ApplyStatus(row[x], "closed", at[c]) \in Row
            BY <4>1, <5>1, ApplyStatusTyped
          <5> QED
            BY <4>1, <5>2, StatusAfter
        <4>3. Pending(c)' = Pending(c) /\ Alike(Pending(c), s)
          BY <1>0, <3>5, <4>1 DEF Closes, Pending, Projected, Writes
        <4>4. s \in Row /\ s # None
          BY <1>0, <4>2, <4>3, NoRowAssumption DEF Alike
        <4>5. ProjectOn(s, e) = ApplyStatus(s, "closed", e.at)
          BY <3>5, <4>4 DEF ProjectOn, Closes
        <4> QED
          BY <3>5, <4>1, <4>2, <4>3, <4>4, <4>5, AlikeMarked DEF Closes
      <3> QED
        BY <3>1, <3>2, <3>3, <3>4, <3>5
    <2> HIDE DEF s
    <2> QED
      BY <1>0, <1>1, <2>1, <2>2, <2>5 DEF Projected
  <1>4. Logged(e.id) => Wakes(c, e)
    BY NotYetLogged
  <1> QED
    BY <1>2, <1>3, <1>4

LEMMA ProjectedEnds ==
  ASSUME TypeOK, LogKept, Fresh, Segments, Projected, NEW c \in Call, Ends(c)
  PROVE  Projected'
  <1> DEFINE x == task[c].obl
  <1>1. /\ row \in Rows /\ log \in Seq(Event) /\ x \in Obl /\ Pending(c) \in Row
        /\ row' = [row EXCEPT ![x] = Pending(c)] /\ log' = log
        /\ open' = {} /\ lost' = lost \ open
    BY DEF Ends, EndSegment, TypeOK, Rows
  <1>2. \A d \in Call : ~(Writes(d)')
    <2>1. \A d \in Call \ {c} : ~Holds(d) /\ pc'[d] = pc[d]
      BY DEF Segments, Holds, Ends
    <2> QED
      BY <2>1 DEF Ends, Holds, Writes
  <1>3. lost' \cup open' = lost \ open
    BY <1>1
  <1>4. ASSUME NEW o \in Obl PROVE Alike(row'[o], Final(log, lost \ open)[o])
    <2>1. CASE o = x
      BY <1>1, <2>1 DEF Projected, Ends, Writes, Rows
    <2>2. CASE o # x
      <3> DEFINE here == lost \ open
                 there == lost \cup open
      <3>1. ASSUME NEW n \in 1 .. Len(log), log[n].obl = o
            PROVE  log[n].id \in here <=> log[n].id \in there
        <4>1. n \in DOMAIN log
          BY <1>1
        <4>2. log[n].id \notin open
          BY <2>2, <3>1, <4>1 DEF Segments, Ends, Writes
        <4> QED
          BY <4>2
      <3>4. \A n \in 1 .. Len(log) :
              log[n].obl = o => (log[n].id \in here <=> log[n].id \in there)
        BY <3>1
      <3>5. log \in Seq(Event)
        BY <1>1
      <3> HIDE DEF here, there
      <3>2. Final(log, here)[o] = Final(log, there)[o]
        BY <3>4, <3>5, FinalAgree
      <3>3. row'[o] = row[o]
        BY <1>1, <2>2 DEF Rows
      <3> QED
        BY <3>2, <3>3 DEF Projected, here, there
    <2> QED
      BY <2>1, <2>2
  <1> QED
    BY <1>1, <1>2, <1>3, <1>4 DEF Projected

LEMMA ProjectedStep ==
  ASSUME TypeOK, LogKept, Fresh, Segments, Woken, ~Rewake, OneWake, Projected, [Next]_vars
  PROVE  Projected'
  <1>1. CASE Quiet
    <2>1. CASE pc' = pc /\ task' = task /\ at' = at /\ open' = open /\ lost' = lost
      BY <1>1, <2>1 DEF Quiet, Projected, Pending, Writes
    <2>2. CASE open' = {} /\ lost' = lost \cup open /\ \A d \in Call : pc'[d] = "idle"
      <3>1. lost' \cup open' = lost \cup open
        BY <2>2
      <3> QED
        BY <1>1, <2>2, <3>1 DEF Quiet, Projected, Writes
    <2> QED
      BY <1>1, <2>1, <2>2 DEF Quiet
  <1>2. ASSUME NEW c \in Call, Starts(c) PROVE Projected'
    <2>1. \A d \in Call : ~(Writes(d)')
      BY <1>2 DEF Starts, Holds, Writes
    <2> QED
      BY <1>2, <2>1 DEF Starts, Projected
  <1> QED
    BY <1>1, <1>2, ProjectedLogs, ProjectedEnds, StepKinds DEF Logs

LogInv == TypeOK /\ Fresh /\ Segments /\ LogKept

LEMMA LogInit == Init => LogInv
  <1> SUFFICES ASSUME Init PROVE LogInv
    OBVIOUS
  <1>1. TypeOK
    BY TypeInit
  <1>2. DOMAIN log = {}
    BY DEF Init
  <1> QED
    BY <1>1, <1>2 DEF LogInv, Init, Fresh, Segments, LogKept, Holds, Writes, Ticking, Awaiting

LEMMA LogStep == LogInv /\ [Next]_vars => LogInv'
  BY TypeStep, FreshStep, SegmentsStep, LogKeptStep DEF LogInv

\* No tick, wake, resolution or crash leaves the table other than what the log
\* says: between segments every row is, as readers are shown it, what replaying
\* the events gives, those aside whose update a crash cut off. It holds of any
\* number of overlapping ticks and crashes, if a wake is sent for an obligation
\* only as long as it has no row, and is then the same packet.
THEOREM TableIsProjection ==
  ASSUME ~Rewake, OneWake
  PROVE  Spec => []RowIsProjection
  <1>1. Init => LogInv /\ Woken /\ Projected
    <2> SUFFICES ASSUME Init PROVE Woken /\ Projected
      BY LogInit
    <2>1. log \in Seq(Event) /\ Len(log) = 0 /\ DOMAIN log = {}
      BY DEF Init
    <2>2. \A o \in Obl : Final(log, lost \cup open)[o] = None
      <3>1. Replayed(log, lost \cup open)[0] = [o \in Obl |-> None]
        BY <2>1, ReplayedSteps
      <3> QED
        BY <2>1, <3>1 DEF Final
    <2> QED
      BY <2>1, <2>2 DEF Init, Woken, Projected, Alike, Writes
  <1>2. LogInv /\ Woken /\ Projected /\ [Next]_vars => LogInv' /\ Woken' /\ Projected'
    BY LogStep, WokenStep, ProjectedStep DEF LogInv
  <1>3. LogInv /\ Woken /\ Projected => RowIsProjection
    <2> SUFFICES ASSUME LogInv, Projected, open = {}, Len(log) <= ReplayLimit, NEW o \in Obl
                 PROVE  View(row[o]) = View(Replay(log, lost)[o])
      BY DEF RowIsProjection
    <2>1. Len(log) \in Nat
      BY DEF LogInv, TypeOK
    <2>2. Replay(log, lost) = Final(log, lost)
      BY <2>1, CalendarAssumption DEF Replay, Final
    <2>3. lost \cup open = lost
      OBVIOUS
    <2>4. Alike(row[o], Final(log, lost)[o]) /\ row[o] \in Row \cup {None}
      BY <2>3 DEF Projected, LogInv, TypeOK
    <2> HIDE DEF Final
    <2> QED
      BY <2>2, <2>4 DEF Alike, View, Row
  <1> QED
    BY <1>1, <1>2, <1>3, PTL DEF Spec

-----------------------------------------------------------------------------
(* Judgments.                                                              *)

Running == {"active", "escalated"}

\* c has still to run o, or is running it.
Lists(c, o) == (\E t \in todo[c] : t.obl = o) \/ (Ticking(c) /\ task[c].obl = o)

Decided(o, c) == \E i \in DOMAIN log :
  log[i].kind = "resolve" /\ log[i].obl = o /\ at[c] < log[i].at

\* A tick that still has a continuation to run has found it running; if it is
\* settled by now, that was decided after the tick began.
Judged ==
  /\ \A c \in Call : \A t \in todo[c] : t.row.status \in Running
  /\ \A c \in Call : Awaiting(c) => task[c].row.status \in Running
  /\ \A c \in Call : pc[c] \in {"mark", "store"} /\ task[c].obl \in Continuation =>
       task[c].status \in Running
  /\ \A c \in Call, o \in Continuation : Lists(c, o) /\ Settled(o) => Decided(o, c)
  /\ \A c \in Call : pc[c] \in {"close", "settle"} =>
       /\ \E i \in DOMAIN log :
            log[i].kind = "resolve" /\ log[i].obl = task[c].obl /\ log[i].at = at[c]
       /\ \A d \in Call \ {c} : pc[d] # "idle" => at[d] < at[c]
       /\ task[c].status \in {"paused", "closed", row[task[c].obl].status}

LEMMA JudgedInit == Init => Judged
  BY DEF Init, Judged, Lists, Ticking, Awaiting

LEMMA JudgedLogs ==
  ASSUME LogInv, Judged, NEW c \in Call, NEW e \in Event, Appending(c, e),
         Evidences(c, e) \/ Marks(c, e) \/ Wakes(c, e) \/ Resolves(c, e) \/ Closes(c, e)
  PROVE  Judged'
  <1>0. /\ row' = row /\ todo' = todo /\ task'[c].obl = e.obl /\ e.obl \in Obl
        /\ \A d \in Call \ {c} :
             pc'[d] = pc[d] /\ task'[d] = task[d] /\ at'[d] = at[d] /\ ~Holds(d)
    BY EventParts DEF Appending
  <1>1. DOMAIN log \subseteq DOMAIN log' /\ \A i \in DOMAIN log : log'[i] = log[i]
    BY Appended DEF LogInv
  <1>2. \A d \in Call : \A t \in todo'[d] : t.row.status \in Running
    BY <1>0 DEF Judged
  <1>3. ~(Awaiting(c)')
    BY DEF Appending, Awaiting
  <1>4. pc'[c] \in {"mark", "store"} /\ task'[c].obl \in Continuation =>
          task'[c].status \in Running
    <2>1. CASE Evidences(c, e)
      <3> SUFFICES ASSUME e.obl \in Continuation PROVE e.run.status \in Running
        BY <1>0, <2>1 DEF Evidences
      <3>1. e.obl \notin Watch
        BY CalendarAssumption
      <3>2. e.run \in Run /\ RunOn(e.run, task[c]) /\ task[c].obl \notin Watch
        BY <2>1, <3>1 DEF Evidences, RunOn
      <3>3. task[c].row.status \in Running
        BY <2>1 DEF Evidences, Judged
      <3> QED
        BY <3>2, <3>3 DEF RunOn, Running
    <2>2. CASE Marks(c, e)
      BY <2>2 DEF Marks, Judged
    <2> QED
      BY <2>1, <2>2 DEF Wakes, Resolves, Closes
  <1>5. ASSUME NEW d \in Call, NEW o \in Continuation, Lists(d, o)', Settled(o)'
        PROVE  Decided(o, d)'
    <2>1. Settled(o)
      BY <1>0, <1>5 DEF Settled
    <2>2. CASE d # c
      <3>1. Lists(d, o)
        BY <1>0, <1>5, <2>2 DEF Lists, Ticking
      <3> QED
        BY <1>0, <1>1, <2>1, <2>2, <3>1 DEF Judged, Decided
    <2>3. CASE d = c
      <3>1. CASE Evidences(c, e) \/ Marks(c, e)
        <4>1. Lists(c, o) /\ at'[c] = at[c]
          BY <1>0, <1>5, <2>3, <3>1 DEF Evidences, Marks, Lists, Ticking, Awaiting
        <4> QED
          BY <1>1, <2>1, <2>3, <4>1 DEF Judged, Decided
      <3>2. CASE Wakes(c, e) \/ Resolves(c, e) \/ Closes(c, e)
        <4>1. todo[c] = {}
          BY <3>2 DEF LogInv, Fresh, Ticking, Wakes, Resolves, Closes
        <4> QED
          BY <1>0, <1>5, <2>3, <3>2, <4>1 DEF Lists, Ticking, Wakes, Resolves, Closes
      <3> QED
        BY <3>1, <3>2
    <2> QED
      BY <2>2, <2>3
  <1>6. ASSUME NEW d \in Call, pc'[d] \in {"close", "settle"}
        PROVE  /\ \E i \in DOMAIN log' :
                    log'[i].kind = "resolve" /\ log'[i].obl = task'[d].obl /\ log'[i].at = at'[d]
               /\ \A f \in Call \ {d} : pc'[f] # "idle" => at'[f] < at'[d]
               /\ task'[d].status \in {"paused", "closed", row'[task'[d].obl].status}
    <2>1. d = c
      BY <1>0, <1>6 DEF Holds
    <2>2. CASE Resolves(c, e)
      <3>1. PICK i \in DOMAIN log' : log'[i].id = e.id
        BY Appended DEF Logged, LogInv
      <3>2. log'[i].kind = "resolve" /\ log'[i].obl = e.obl /\ log'[i].at = e.at
        BY <2>2, <3>1, Appended DEF Resolves, LogInv
      <3>3. at'[c] = e.at /\ at'[c] = clock
        BY <2>2 DEF Resolves
      <3>4. \A f \in Call \ {c} : pc'[f] # "idle" => at'[f] < clock
        BY <1>0 DEF LogInv, Fresh
      <3>5. task'[c].status \in {"paused", "closed", row[e.obl].status}
        BY <2>2 DEF Resolves, Judgment
      <3> QED
        BY <1>0, <2>1, <3>2, <3>3, <3>4, <3>5
    <2>3. CASE Closes(c, e)
      BY <1>0, <1>1, <2>1, <2>3 DEF Closes, Judged
    <2> QED
      BY <1>6, <2>1, <2>2, <2>3 DEF Evidences, Marks, Wakes
  <1>7. \A d \in Call : Awaiting(d)' => task'[d].row.status \in Running
    BY <1>0, <1>3 DEF Judged, Awaiting
  <1>8. \A d \in Call : pc'[d] \in {"mark", "store"} /\ task'[d].obl \in Continuation =>
          task'[d].status \in Running
    BY <1>0, <1>4 DEF Judged
  <1> QED
    BY <1>2, <1>5, <1>6, <1>7, <1>8 DEF Judged

\* Which update of a row may settle it or undo that.
LEMMA PendingStatus ==
  ASSUME LogInv, Judged, NEW c \in Call, Ends(c)
  PROVE  /\ row[task[c].obl] \in Row \cup {None}
         /\ pc[c] = "upsert" => Pending(c).status = "active"
         /\ pc[c] = "store" => Pending(c).status = task[c].status
         /\ pc[c] = "settle" => LET r == row[task[c].obl] IN
              r \in Row /\ (r.status \in {"paused", "closed"}
                              => Pending(c).status \in {"paused", "closed"})
  <1>0. TypeOK /\ task[c].obl \in Obl /\ row[task[c].obl] \in Row \cup {None}
    BY DEF LogInv, Ends, TypeOK
  <1>1. CASE pc[c] = "upsert"
    BY <1>0, <1>1 DEF Pending, Upsert
  <1>2. CASE pc[c] = "store"
    <2>1. row[task[c].obl] \in Row /\ task[c] \in Run /\ at[c] \in Nat
      BY <1>0, <1>2, TaskAt
    <2> QED
      BY <1>0, <1>2, <2>1, StatusAfter DEF Pending
  <1>3. CASE pc[c] = "settle"
    <2> DEFINE r == row[task[c].obl]
    <2>1. r \in Row /\ at[c] \in Nat /\ task[c].status \in {"paused", "closed", r.status}
      BY <1>0, <1>3, TaskAt DEF Judged
    <2>2. Pending(c) = ApplyStatus(r, task[c].status, at[c])
      BY <1>3 DEF Pending
    <2>3. ApplyStatus(r, task[c].status, at[c]).status \in {r.status, task[c].status}
      BY <2>1 DEF ApplyStatus, Row
    <2> QED
      BY <1>0, <1>3, <2>1, <2>2, <2>3
  <1> QED
    BY <1>0, <1>1, <1>2, <1>3 DEF Ends

LEMMA JudgedEnds ==
  ASSUME LogInv, Judged, NEW c \in Call, Ends(c) PROVE Judged'
  <1>0. /\ row \in Rows /\ task[c].obl \in Obl /\ Pending(c) \in Row /\ log' = log
        /\ row' = [row EXCEPT ![task[c].obl] = Pending(c)]
        /\ \A d \in Call \ {c} :
             pc'[d] = pc[d] /\ task'[d] = task[d] /\ at'[d] = at[d] /\ todo'[d] = todo[d]
             /\ ~Holds(d)
    BY DEF LogInv, Ends, TypeOK, Rows, Segments, Holds
  <1>1. \A d \in Call, o \in Obl : Lists(d, o)' => Lists(d, o) /\ at'[d] = at[d]
    BY <1>0 DEF Ends, Lists, Ticking
  <1>2. \A d \in Call : \A t \in todo'[d] : t.row.status \in Running
    BY <1>0 DEF Judged, Ends
  <1>3. \A d \in Call : Awaiting(d)' => task'[d].row.status \in Running
    BY <1>0 DEF Judged, Ends, Awaiting
  <1>4. \A d \in Call : pc'[d] \notin {"mark", "store", "close", "settle"}
    BY <1>0 DEF Ends, Holds
  <1>5. ASSUME NEW d \in Call, NEW o \in Continuation, Lists(d, o)', Settled(o)'
        PROVE  Decided(o, d)'
    <2>0. o \in Obl /\ Lists(d, o) /\ at'[d] = at[d]
      BY <1>1, <1>5 DEF Obl
    <2>1. CASE Settled(o)
      BY <1>0, <2>0, <2>1 DEF Judged, Decided
    <2>2. CASE ~Settled(o)
      <3>1. task[c].obl = o /\ row'[o] = Pending(c)
        BY <1>0, <1>5, <2>0, <2>2 DEF Settled, Rows
      <3>2. Pending(c).status \in {"paused", "closed"}
        BY <1>5, <3>1 DEF Settled
      <3>3. pc[c] = "settle"
        BY <3>1, <3>2, PendingStatus DEF Ends, Judged, Running
      <3>4. d # c
        BY <1>0, <1>5, <3>3 DEF Ends, Lists, Ticking
      <3>5. pc[d] # "idle"
        BY <2>0 DEF Lists, Ticking, LogInv, Fresh
      <3> QED
        BY <1>0, <2>0, <3>1, <3>3, <3>4, <3>5 DEF Judged, Decided
    <2> QED
      BY <2>1, <2>2
  <1> QED
    BY <1>2, <1>3, <1>4, <1>5 DEF Judged

LEMMA JudgedStep ==
  ASSUME LogInv, Judged, [Next]_vars PROVE Judged'
  <1>1. CASE Quiet
    BY <1>1 DEF Quiet, Judged, Lists, Ticking, Awaiting, Settled, Decided
  <1>2. ASSUME NEW c \in Call, Starts(c) PROVE Judged'
    <2>1. TypeOK /\ \A t \in Due(clock) : t.row = row[t.obl] /\ t.row.status \in Running
      BY DueTyped DEF LogInv, IsDue, Running
    <2>2. \A d \in Call : \A t \in todo'[d] : t.row.status \in Running
      BY <1>2, <2>1 DEF Starts, Judged
    <2>3. \A d \in Call : Awaiting(d)' => task'[d].row.status \in Running
      BY <1>2, <2>1 DEF Starts, Judged, Awaiting
    <2>4. \A d \in Call : pc'[d] \notin {"mark", "store", "close", "settle"}
      BY <1>2 DEF Starts, Holds
    <2>5. ASSUME NEW d \in Call, NEW o \in Continuation, Lists(d, o)', Settled(o)'
          PROVE  Decided(o, d)'
      <3>1. CASE d = c
        BY <1>2, <2>1, <2>5, <3>1 DEF Starts, Lists, Settled, Running
      <3>2. CASE d # c
        BY <1>2, <2>5, <3>2 DEF Starts, Lists, Ticking, Settled, Judged, Decided
      <3> QED
        BY <3>1, <3>2
    <2> QED
      BY <2>2, <2>3, <2>4, <2>5 DEF Judged
  <1> QED
    BY <1>1, <1>2, JudgedLogs, JudgedEnds, StepKinds DEF Logs, LogInv

\* Of any number of overlapping calls, only a tick that began before a human
\* decided to hold or to close a continuation takes that decision back, by
\* storing what it had listed; as long as no wake is sent again.
THEOREM JudgmentsStand ==
  ASSUME ~Rewake PROVE Spec => JudgmentUndoneOnlyByOverlap
  <1> DEFINE Kept == \A o \in Continuation : Settled(o) /\ ~Settled(o)' =>
       \E c \in Call, i \in DOMAIN log :
         /\ At(c, "store") /\ task[c].obl = o
         /\ log[i].kind = "resolve" /\ log[i].obl = o /\ at[c] < log[i].at
  <1>1. Init => LogInv /\ Woken /\ Judged
    BY LogInit, JudgedInit DEF Init, Woken
  <1>2. LogInv /\ Woken /\ Judged /\ [Next]_vars => LogInv' /\ Woken' /\ Judged'
    BY LogStep, WokenStep, JudgedStep DEF LogInv
  <1>3. LogInv /\ Woken /\ Judged /\ [Next]_vars => Kept
    <2> SUFFICES ASSUME LogInv, Woken, Judged, [Next]_vars, NEW o \in Continuation,
                        Settled(o), ~(Settled(o)')
                 PROVE  \E c \in Call : /\ pc[c] = "store" /\ task[c].obl = o
                                        /\ Decided(o, c)
      BY DEF Decided, At
    <2>0. o \in Obl /\ row \in Rows
      BY DEF Obl, LogInv, TypeOK, Rows
    <2>1. row' # row
      BY DEF Settled
    <2>2. PICK c \in Call : Ends(c)
      BY <2>1, StepKinds DEF LogInv, Quiet, Starts, Logs, Appending
    <2>3. task[c].obl = o /\ row'[o] = Pending(c) /\ Pending(c) \in Row
      BY <2>0, <2>2 DEF Ends, Settled, Rows
    <2>4. Pending(c).status \notin {"paused", "closed"}
      BY <2>3, NoRowAssumption DEF Settled
    <2>5. pc[c] = "store"
      BY <2>2, <2>3, <2>4, PendingStatus DEF Ends, Settled, Woken
    <2>6. Lists(c, o)
      BY <2>3, <2>5 DEF Lists, Ticking
    <2> QED
      BY <2>3, <2>5, <2>6 DEF Judged
  <1> QED
    BY <1>1, <1>2, <1>3, PTL DEF Spec, JudgmentUndoneOnlyByOverlap
=============================================================================
