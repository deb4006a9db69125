------------------------------ MODULE Calendar ------------------------------
(***************************************************************************)
(* FractaCalendar on one node: wake packets, ticks and human resolutions   *)
(* over the table calendar_obligations and its event log cop_events        *)
(* (calendar-store.js, calendar-runner.js, cop-resolve.js, cop-events.js,  *)
(* calendar-replay.js of lib/node-agent).                                  *)
(*                                                                         *)
(* Calls (the scheduler's tick, POST /node/calendar/tick, wake and resolve *)
(* packets) run in one Node process: a call gives way to another only      *)
(* while it awaits the handler of a watch.  Each SQL statement commits by  *)
(* itself, so a crash may fall between any two of them.                    *)
(***************************************************************************)
EXTENDS Integers, Sequences

CONSTANTS
  Call,          \* calls that may be in progress at once
  Watch,         \* obligations whose handler awaits (DNS, cogentia)
  Continuation,  \* obligations whose handler only records "pending"
  Wake,          \* wake packets
  None,
  Rewake,        \* is a wake accepted again for an obligation with a row?
  MaxTime, MaxCrashes,   \* bounds of the clock and of the crashes
  ReplayLimit    \* events a replay reads (2000 in the code)

Obl == Watch \cup Continuation
Time == 0 .. MaxTime
Decision == {"resolved", "hibernating", "needs_acceptance"}
Status == {"active", "paused", "escalated", "closed"}

\* `every` is the interval of a recurring cadence, None for "once".
ASSUME WakeAssumption ==
  Wake \subseteq [obl : Obl, due : Nat, every : Nat \cup {None}, deadline : Nat \cup {None}]

ASSUME CalendarAssumption ==
  /\ Watch \cap Continuation = {} /\ None \notin Call \cup Obl \cup Wake \cup Nat
  /\ Rewake \in BOOLEAN /\ MaxTime \in Nat /\ MaxCrashes \in Nat /\ ReplayLimit \in Nat

VARIABLES
  row,      \* calendar_obligations
  log,      \* the calendar events of cop_events, by seq
  clock,
  pc, at, todo, task,  \* of each call: step, `now`, rest of its due list, update
  open,     \* history: ids appended by the segment in progress
  lost,     \* history: ids whose segment crashed before it updated the row
  crashes

locals == <<pc, at, todo, task>>
vars == <<row, log, clock, locals, open, lost, crashes>>

Init ==
  /\ row = [o \in Obl |-> None] /\ log = <<>> /\ clock = 0
  /\ pc = [c \in Call |-> "idle"] /\ at = [c \in Call |-> 0]
  /\ todo = [c \in Call |-> {}] /\ task = [c \in Call |-> None]
  /\ open = {} /\ lost = {} /\ crashes = 0

-----------------------------------------------------------------------------
(* The store, shared by the live paths and by replay *)

\* computeNextRun once the obligation has run
NextRun(every, now) == IF every = None THEN None ELSE now + every

\* upsertCalendarObligation: a wake resets the schedule and keeps the counters.
Upsert(r, w) ==
  [status |-> "active", next |-> w.due, earliest |-> w.due, every |-> w.every,
   deadline |-> w.deadline, closedAt |-> None,
   runs |-> IF r = None THEN 0 ELSE r.runs, ok |-> IF r = None THEN None ELSE r.ok]

\* recordObligationRun: whatever the row's status is by now.
RecordRun(r, u, now) ==
  [r EXCEPT !.status = u.status, !.ok = u.ok, !.runs = @ + 1,
            !.next = CASE u.closed -> None
                       [] ~u.closed /\ u.next # None -> u.next
                       [] OTHER -> NextRun(r.every, now),
            !.closedAt = IF u.closed THEN now ELSE @]

\* The next run a reader is shown: formatRow falls back on the due date.
Shown(r) == IF r.next = None /\ r.status # "closed" THEN r.earliest ELSE r.next

\* Mutant of ApplyStatus: a closed row is not left alone.
ApplyToClosed(r, status, now) ==
  [r EXCEPT !.status = status, !.next = IF status = "closed" THEN None ELSE Shown(r),
            !.closedAt = IF status = "closed" THEN now ELSE @]

\* applyObligationStatus; it writes back the next run as it is shown.
ApplyStatus(r, status, now) ==
  IF r.status = "closed" THEN r
  ELSE [r EXCEPT !.status = status,
                 !.next = IF status = "closed" THEN None ELSE Shown(r),
                 !.closedAt = IF status = "closed" THEN now ELSE @]

Logged(id) == \E i \in DOMAIN log : log[i].id = id

\* appendCopEvent: INSERT OR IGNORE.  The appended id belongs to the segment.
AppendEvent(e) ==
  /\ log' = IF Logged(e.id) THEN log ELSE Append(log, e)
  /\ open' = open \cup {e.id}

-----------------------------------------------------------------------------
(* Replay *)

Judgment(decision, status) ==
  CASE decision = "resolved" -> "closed"
    [] decision = "hibernating" -> "paused"
    [] OTHER -> status

\* projectCopEvent, on the row of the event's obligation
ProjectOn(r, e) ==
  CASE e.kind = "wake" -> Upsert(r, e.wake)
    [] e.kind # "wake" /\ r = None -> r
    [] e.kind = "evidence" /\ r # None -> RecordRun(r, e.run, e.at)
    [] e.kind = "close" /\ r # None -> ApplyStatus(r, "closed", e.at)
    [] e.kind = "escalate" /\ r # None -> ApplyStatus(r, "escalated", e.at)
    [] e.kind = "resolve" /\ r # None ->
         ApplyStatus(r, Judgment(e.decision, r.status), e.at)

Project(rows, e) == [rows EXCEPT ![e.obl] = ProjectOn(@, e)]

\* The rows after each number of events, those with an id in `gone` left out.
Replayed(events, gone) ==
  LET rows[n \in 0 .. Len(events)] ==
        IF n = 0 THEN [o \in Obl |-> None]
        ELSE IF events[n].id \in gone THEN rows[n - 1]
        ELSE Project(rows[n - 1], events[n])
  IN rows

\* replayCalendarObligations reads only the first ReplayLimit events.
Replay(events, gone) ==
  Replayed(events, gone)[IF Len(events) < ReplayLimit THEN Len(events) ELSE ReplayLimit]

-----------------------------------------------------------------------------
(* Calls *)

At(c, step) == pc[c] = step
Goto(c, step) == pc' = [pc EXCEPT ![c] = step]

\* Mutant of IsDue: the query forgets the status.
IsDueAnyStatus(r, now) == r # None /\ (r.next = None \/ r.next <= now)

\* SELECT ... WHERE status IN ('active','escalated') AND next_run_at is due
IsDue(r, now) ==
  /\ r # None /\ r.status \in {"active", "escalated"}
  /\ r.next = None \/ r.next <= now
Due(now) == {[obl |-> o, row |-> row[o]] : o \in {p \in Obl : IsDue(row[p], now)}}

\* ORDER BY next_run_at: NULL first
Before(t, u) ==
  t.row.next = None \/ (u.row.next # None /\ t.row.next <= u.row.next)
First(due) == {t \in due : \A u \in due : Before(t, u)}

\* A call gives way to the others only while it awaits the handler of a watch.
Holds(c) == pc[c] \notin {"idle", "await"}
MayStep(c) == \A d \in Call \ {c} : ~Holds(d)

\* The statements of c's segment are over: its row reflects its events.
EndSegment == open' = {} /\ lost' = lost \ open

\* Mutant of Idle: the call ends with its task still set.
IdleKeepsTask(c) == Goto(c, "idle") /\ UNCHANGED <<at, todo, task>>

Idle(c) ==
  /\ Goto(c, "idle") /\ task' = [task EXCEPT ![c] = None]
  /\ at' = [at EXCEPT ![c] = 0] /\ todo' = [todo EXCEPT ![c] = {}]

\* `new Date()`: no two calls read the same millisecond.
ReadClock(c) ==
  /\ clock < MaxTime /\ clock' = clock + 1 /\ at' = [at EXCEPT ![c] = clock]

\* Hand the first obligation of the due list to its handler.
Dispatch(c, due) ==
  \E t \in First(due) :
    /\ todo' = [todo EXCEPT ![c] = due \ {t}] /\ task' = [task EXCEPT ![c] = t]
    /\ Goto(c, IF t.obl \in Watch THEN "await" ELSE "handled")

-----------------------------------------------------------------------------
(* runDueCalendarObligations *)

\* The due list is read once, at the start of the tick.
StartTick(c) ==
  /\ At(c, "idle") /\ MayStep(c) /\ ReadClock(c)
  /\ Due(clock) # {} /\ Dispatch(c, Due(clock))
  /\ UNCHANGED <<row, log, open, lost, crashes>>

\* What a handler returns: a watch may fail, and may meet its stop condition;
\* a continuation only says that it awaits judgment.
Result(o) == IF o \in Watch
             THEN {[ok |-> TRUE, met |-> FALSE], [ok |-> FALSE, met |-> FALSE],
                   [ok |-> TRUE, met |-> TRUE]}
             ELSE {[ok |-> TRUE, met |-> FALSE]}

Escalates(r, now) == r.deadline # None /\ now >= r.deadline

\* The update computed from the listed row, not from the row as it is now.
RunOf(t, res, now) ==
  [obl |-> t.obl, ok |-> res.ok, closed |-> res.met,
   escalated |-> ~res.met /\ Escalates(t.row, now),
   status |-> CASE res.met -> "closed"
                [] ~res.met /\ Escalates(t.row, now) -> "escalated"
                [] OTHER -> t.row.status,
   next |-> IF res.met THEN None ELSE NextRun(t.row.every, now)]

\* The handler answers and its EVIDENCE is appended.
LogEvidence(c) ==
  /\ pc[c] \in {"await", "handled"} /\ MayStep(c)
  /\ \E res \in Result(task[c].obl) :
       LET u == RunOf(task[c], res, at[c]) IN
       /\ AppendEvent([id |-> <<"evidence", u.obl, at[c]>>, kind |-> "evidence",
                       obl |-> u.obl, at |-> at[c], run |-> u])
       /\ task' = [task EXCEPT ![c] = u]
       /\ Goto(c, IF u.closed \/ u.escalated THEN "mark" ELSE "store")
  /\ UNCHANGED <<row, clock, at, todo, lost, crashes>>

\* CLOSE or ESCALATE
LogMark(c) ==
  LET kind == IF task[c].closed THEN "close" ELSE "escalate" IN
  /\ At(c, "mark")
  /\ AppendEvent([id |-> <<kind, task[c].obl, at[c]>>, kind |-> kind,
                  obl |-> task[c].obl, at |-> at[c]])
  /\ Goto(c, "store")
  /\ UNCHANGED <<row, clock, at, todo, task, lost, crashes>>

\* recordObligationRun, then the next obligation of the list.
Store(c) ==
  LET u == task[c] IN
  /\ At(c, "store")
  /\ row' = [row EXCEPT ![u.obl] = RecordRun(@, u, at[c])]
  /\ IF todo[c] = {} THEN Idle(c) ELSE Dispatch(c, todo[c]) /\ UNCHANGED at
  /\ EndSegment /\ UNCHANGED <<log, clock, crashes>>

-----------------------------------------------------------------------------
(* upsertWakePacket *)

\* The event id derives from the obligation: a second wake is not logged.
LogWake(c, w) ==
  /\ At(c, "idle") /\ MayStep(c) /\ ReadClock(c)
  /\ Rewake \/ row[w.obl] = None
  /\ AppendEvent([id |-> <<"wake", w.obl>>, kind |-> "wake", obl |-> w.obl,
                  at |-> clock, wake |-> w])
  /\ task' = [task EXCEPT ![c] = w] /\ Goto(c, "upsert")
  /\ UNCHANGED <<row, todo, lost, crashes>>

UpsertRow(c) ==
  LET w == task[c] IN
  /\ At(c, "upsert")
  /\ row' = [row EXCEPT ![w.obl] = Upsert(@, w)]
  /\ Idle(c) /\ EndSegment /\ UNCHANGED <<log, clock, crashes>>

-----------------------------------------------------------------------------
(* applyContinuationResolve *)

\* A resolution of an obligation that is already closed is logged all the same.
Resolve(c, o, decision) ==
  LET done == row[o].status = "closed"
      status == IF done THEN "closed" ELSE Judgment(decision, row[o].status) IN
  /\ At(c, "idle") /\ MayStep(c) /\ o \in Continuation /\ row[o] # None /\ ReadClock(c)
  /\ AppendEvent([id |-> <<"resolve", o, clock>>, kind |-> "resolve", obl |-> o,
                  at |-> clock, decision |-> decision])
  /\ task' = [task EXCEPT ![c] = [obl |-> o, status |-> status]]
  /\ Goto(c, IF status = "closed" /\ ~done THEN "close" ELSE "settle")
  /\ UNCHANGED <<row, todo, lost, crashes>>

LogClose(c) ==
  /\ At(c, "close")
  /\ AppendEvent([id |-> <<"close", task[c].obl, at[c]>>, kind |-> "close",
                  obl |-> task[c].obl, at |-> at[c]])
  /\ Goto(c, "settle")
  /\ UNCHANGED <<row, clock, at, todo, task, lost, crashes>>

Settle(c) ==
  LET u == task[c] IN
  /\ At(c, "settle")
  /\ row' = [row EXCEPT ![u.obl] = ApplyStatus(@, u.status, at[c])]
  /\ Idle(c) /\ EndSegment /\ UNCHANGED <<log, clock, crashes>>

-----------------------------------------------------------------------------
(* The environment *)

Elapse == clock < MaxTime /\ clock' = clock + 1
          /\ UNCHANGED <<row, log, locals, open, lost, crashes>>

\* The node process dies with every call in it; the database stays.
Crash ==
  /\ crashes < MaxCrashes /\ crashes' = crashes + 1
  /\ \E c \in Call : pc[c] # "idle"
  /\ pc' = [c \in Call |-> "idle"] /\ at' = [c \in Call |-> 0]
  /\ todo' = [c \in Call |-> {}] /\ task' = [c \in Call |-> None]
  /\ lost' = lost \cup open /\ open' = {}
  /\ UNCHANGED <<row, log, clock>>

Step(c) ==
  \/ StartTick(c) \/ LogEvidence(c) \/ LogMark(c) \/ Store(c)
  \/ (\E w \in Wake : LogWake(c, w)) \/ UpsertRow(c)
  \/ (\E o \in Obl, d \in Decision : Resolve(c, o, d)) \/ LogClose(c) \/ Settle(c)

Next == (\E c \in Call : Step(c)) \/ Elapse \/ Crash

Spec == Init /\ [][Next]_vars
-----------------------------------------------------------------------------
(* Properties *)

Row == [status : Status, next : Nat \cup {None}, earliest : Nat,
        every : Nat \cup {None}, deadline : Nat \cup {None},
        closedAt : Nat \cup {None}, runs : Nat, ok : BOOLEAN \cup {None}]
\* An obligation without a row is not one with some row.
ASSUME NoRowAssumption == None \notin Row

Run == [obl : Obl, ok : BOOLEAN, closed : BOOLEAN, escalated : BOOLEAN,
        status : Status, next : Nat \cup {None}]
EventId == {<<"wake", o>> : o \in Obl} \cup
           ({"evidence", "close", "escalate", "resolve"} \X Obl \X Nat)

\* The local `task` of a call at each step.
TaskOf(step) ==
  CASE step = "idle" -> {None}
    [] step \in {"await", "handled"} -> [obl : Obl, row : Row]
    [] step \in {"mark", "store"} -> Run
    [] step = "upsert" -> Wake
    [] step \in {"close", "settle"} -> [obl : Obl, status : Status]

Event ==
  [id : EventId, kind : {"wake"}, obl : Obl, at : Nat, wake : Wake] \cup
  [id : EventId, kind : {"evidence"}, obl : Obl, at : Nat, run : Run] \cup
  [id : EventId, kind : {"close", "escalate"}, obl : Obl, at : Nat] \cup
  [id : EventId, kind : {"resolve"}, obl : Obl, at : Nat, decision : Decision]

\* Every variable has its type, each call's local update the shape its step
\* needs, and a call that runs an obligation or settles one finds its row.
TypeOK ==
  /\ row \in [Obl -> Row \cup {None}] /\ log \in Seq(Event) /\ clock \in Nat
  /\ pc \in [Call -> {"idle", "await", "handled", "mark", "store", "upsert",
                      "close", "settle"}]
  /\ \A c \in Call : task[c] \in TaskOf(pc[c])
  /\ DOMAIN task = Call /\ at \in [Call -> Nat]
  /\ todo \in [Call -> SUBSET [obl : Obl, row : Row]]
  /\ open \subseteq EventId /\ lost \subseteq EventId /\ crashes \in Nat
  /\ \A c \in Call : pc[c] \notin {"idle", "upsert"} => row[task[c].obl] # None
  /\ \A c \in Call : \A t \in todo[c] : row[t.obl] # None

\* What comparableWakeItems compares.
View(r) == IF r = None THEN None
           ELSE [status |-> r.status, runs |-> r.runs, ok |-> r.ok,
                 next |-> Shown(r), closedAt |-> r.closedAt]

\* The table is the projection of the log: between segments, replaying the
\* events (short of those a crash cut off from their update) gives every row,
\* whatever ticks and resolutions overlapped ("a projection rebuildable from
\* this table", migrations/005_cop_events.sql:2).
RowIsProjection ==
  open = {} /\ Len(log) <= ReplayLimit
    => \A o \in Obl : View(row[o]) = View(Replay(log, lost)[o])

\* A hold or a closure decided by a human is undone only by a tick that began
\* before the decision: no later tick picks the continuation up.
Settled(o) == row[o] # None /\ row[o].status \in {"paused", "closed"}
JudgmentUndoneOnlyByOverlap ==
  [][\A o \in Continuation : Settled(o) /\ ~Settled(o)' =>
       \E c \in Call, i \in DOMAIN log :
         /\ At(c, "store") /\ task[c].obl = o
         /\ log[i].kind = "resolve" /\ log[i].obl = o /\ at[c] < log[i].at]_vars

\* A tick that starts after a continuation was resolved does not run it: "assert
\* afterReplayTick.results.some(item => item.id === ...) is false"
\* (scripts/test-operium-calendar-events.js:229-233).
Resolved(o) == \E i \in DOMAIN log :
  log[i].kind = "resolve" /\ log[i].obl = o /\ log[i].decision = "resolved"
ResolvedNotRunAgain ==
  [][\A c \in Call : pc[c] = "idle" /\ pc'[c] \in {"await", "handled"} =>
       \A t \in todo'[c] \cup {task'[c]} : ~Resolved(t.obl)]_vars
=============================================================================
