---------------------------- MODULE WakeSchedule ----------------------------
(***************************************************************************)
(* How wake packets become obligations (lib/cop-wake.js, calendar.js,      *)
(* node-agent/cop-packets.js, calendar-store.js): a file given to `calendar *)
(* schedule`, the packets that `calendar watch dns` and a continuation     *)
(* build, by copy or by reference to a packet that is already stored.      *)
(*                                                                         *)
(* The callers are processes with the same database: the agent serving     *)
(* HTTP and COP, and the command line with --local. Within a process a     *)
(* packet is handled in one go; between the SQL statements of two          *)
(* processes anything may happen.                                          *)
(***************************************************************************)
EXTENDS Naturals, Sequences

CONSTANTS
    Scheduler,   \* the processes
    Obligation,  \* ids of obligations, "dns-delegation:acorsica.org"
    Packet,      \* inner packets, [id, work] with id \in Obligation \cup {NoRef}
    WakeFile,    \* wake packets: [id, packet, ref, of, due, cadence]
    Legacy,      \* those that rows from before the log were made from
    NoRef, NoPacket, NoTime,   \* an absent id, packet, date
    MaxCall, MaxDeath     \* bounds on the packets handled and on the deaths

\* The prefix of a wake's id: "cop:wake:" before the id of the obligation.
CopWake(o) == <<"cop:wake", o>>
WakeId == {CopWake(o) : o \in Obligation} \cup Obligation
Cadence == [kind : {"once", "after_first", "interval"}, delay : Nat, every : Nat]

\* `of` is the id that the inner packet's own fields give an obligation: its
\* id, or its kind and domain.
ASSUME WakeFileAssumption ==
    /\ MaxCall \in Nat /\ MaxDeath \in Nat
    /\ Packet \subseteq [id : Obligation \cup {NoRef}, work : STRING]
    /\ WakeFile \subseteq [id : WakeId \cup {NoRef}, packet : Packet \cup {NoPacket},
                           ref : Obligation \cup {NoRef}, of : Obligation,
                           due : Nat \cup {NoTime}, cadence : Cadence]
    /\ Legacy \subseteq WakeFile /\ \A w \in Legacy : w.packet # NoPacket
    /\ NoPacket \notin Packet \cup WakeFile
    /\ \A o \in Obligation : CopWake(o) \notin Obligation

VARIABLES
    events,       \* cop_events: stored packets and wakes, by seq
    obligations,  \* calendar_obligations
    caller,       \* each process: its step and the packet it handles
    calls, deaths,
    ignored,      \* history: whose row is of a wake with the id of another event
    behind        \* history: whose row was written after a later wake was logged,
                  \* or not at all, its process having died

wakeVars == <<events, obligations, caller, calls, deaths, ignored, behind>>

NoObligation == NoPacket
NoWake == NoPacket
ScheduleSteps == {"idle", "put", "log", "upsert"}

\* Types of the variables above.
WakeTypeOK ==
    /\ events \in Seq([id : WakeId, packet : Packet \cup {NoPacket},
                       wake : WakeFile \cup {NoWake}, of : Obligation \cup {NoRef}])
    /\ obligations \in [Obligation -> {NoObligation} \cup
          [work : STRING, next : Nat, wake : WakeFile, status : {"active"}]]
    /\ \A c \in Scheduler : caller[c].step \in ScheduleSteps
    /\ calls \in 0 .. MaxCall /\ deaths \in 0 .. MaxDeath
    /\ ignored \subseteq Obligation /\ behind \subseteq Obligation

---------------------------------------------------------------------------
(* Packets.                                                                *)

\* dnsObservationWakePacket: the inner packet has no id of its own.
DnsWake(o, packet, due, delay, every) ==
    [id |-> CopWake(o), packet |-> packet, ref |-> NoRef, of |-> o, due |-> due,
     cadence |-> [kind |-> "after_first", delay |-> delay, every |-> every]]

\* continuationWakePacket: the obligation's id is also the inner packet's.
ContinuationWake(o, packet, due) ==
    [id |-> CopWake(o), packet |-> packet, ref |-> NoRef, of |-> o, due |-> due,
     cadence |-> [kind |-> "once", delay |-> 0, every |-> 0]]

\* parseWakePacket wants a packet or a reference to one.
Readable(w) == w.packet # NoPacket \/ w.ref # NoRef

\* The id of the wake without its prefix, else what the inner packet gives.
ObligationId(w) ==
    IF w.id = NoRef THEN w.of
    ELSE IF w.id \in Obligation THEN w.id ELSE w.id[2]

EventId(w) == IF w.id = NoRef THEN CopWake(ObligationId(w)) ELSE w.id

Taken(id) == \E i \in DOMAIN events : events[i].id = id
Found(log, id) == {e \in {log[i] : i \in DOMAIN log} : e.id = id}

\* resolveInnerPacket: the copy, or what is stored under the reference.
Inner(log, packet, ref) ==
    IF packet # NoPacket THEN {packet} ELSE {e.packet : e \in Found(log, ref)} \ {NoPacket}

\* computeNextRun for an obligation that has not run.
FirstRun(w, now) ==
    IF w.due # NoTime THEN w.due
    ELSE CASE w.cadence.kind = "once" -> now
           [] w.cadence.kind = "after_first" -> now + w.cadence.delay
           [] w.cadence.kind = "interval" -> now + w.cadence.delay

\* obligationFromWakePacket and upsertCalendarObligation.
ObligationFromWake(w, packet, now) ==
    [work |-> packet.work, next |-> FirstRun(w, now), wake |-> w, status |-> "active"]

---------------------------------------------------------------------------

\* The rows of before the log are those of some wakes.
WakeInit ==
    /\ events = <<>> /\ calls = 0 /\ deaths = 0 /\ ignored = {} /\ behind = {}
    /\ \E old \in SUBSET Legacy :
          obligations = [o \in Obligation |->
              IF \E w \in old : ObligationId(w) = o
              THEN LET w == CHOOSE v \in old : ObligationId(v) = o
                   IN ObligationFromWake(w, w.packet, 0)
              ELSE NoObligation]
    /\ caller = [c \in Scheduler |-> [step |-> "idle"]]

(* upsertWakePacket.                                                       *)

Goes(c, next) == caller' = [caller EXCEPT ![c] = next]
Writes(c, o) == caller[c].step = "upsert" /\ ObligationId(caller[c].wake) = o

WakesOf(log, o) == {i \in DOMAIN log : log[i].wake # NoWake /\ log[i].of = o}
LastWake(log, o) ==
    IF WakesOf(log, o) = {} THEN NoWake
    ELSE log[CHOOSE i \in WakesOf(log, o) : \A j \in WakesOf(log, o) : j <= i].wake

\* What a process that opens the database does before anything else.
Unlogged(o) ==
    obligations[o] # NoObligation /\ WakesOf(events, o) = {}
    /\ ~Taken(EventId(obligations[o].wake))

ScheduleCalendar(c) ==
    /\ caller[c].step = "idle" /\ calls < MaxCall /\ calls' = calls + 1
    /\ \A o \in Obligation : ~Unlogged(o)
    /\ \E w \in WakeFile : Readable(w) /\ Goes(c, [step |-> "put", wake |-> w])
    /\ UNCHANGED <<events, obligations, deaths, ignored, behind>>

AppendIgnoring(e) == events' = IF Taken(e.id) THEN events ELSE Append(events, e)

\* A copy with an id is stored under that id, the first time.
PutCopPacket(c) ==
    LET w == caller[c].wake IN
    /\ caller[c].step = "put" /\ Goes(c, [step |-> "log", wake |-> w])
    /\ IF w.packet # NoPacket /\ w.packet.id # NoRef
       THEN AppendIgnoring([id |-> w.packet.id, packet |-> w.packet, wake |-> NoWake,
                            of |-> NoRef])
       ELSE UNCHANGED events
    /\ UNCHANGED <<obligations, calls, deaths, ignored, behind>>

\* packet_ref_unreadable
RefuseWake(c) ==
    LET w == caller[c].wake IN
    /\ caller[c].step = "log" /\ Inner(events, w.packet, w.ref) = {}
    /\ Goes(c, [step |-> "idle"])
    /\ UNCHANGED <<events, obligations, calls, deaths, ignored, behind>>

\* Mutant of LoggedAs: the event is not tied to its obligation.
LoggedApart(w) == [id |-> EventId(w), packet |-> w.packet, wake |-> w, of |-> NoRef]

LoggedAs(w) == [id |-> EventId(w), packet |-> w.packet, wake |-> w, of |-> ObligationId(w)]

\* INSERT OR IGNORE: the id of the wake is that of another event.
Dropped(w) == \E i \in DOMAIN events : events[i].id = EventId(w) /\ events[i] # LoggedAs(w)

\* What a call goes on with is a row for a wake that the log may not hold,
\* or may hold before later ones: those are logged meanwhile.
AppendWake(c) ==
    LET w == caller[c].wake
        o == ObligationId(w)
        new == ~Taken(EventId(w)) IN
    /\ caller[c].step = "log" /\ AppendIgnoring(LoggedAs(w))
    /\ \E inner \in Inner(events, w.packet, w.ref) :
          caller' = [d \in Scheduler |->
              IF d = c
              THEN [step |-> "upsert", wake |-> w, inner |-> inner, dropped |-> Dropped(w),
                    overtaken |-> ~new /\ LastWake(events, o) # w]
              ELSE IF new /\ Writes(d, o) THEN [caller[d] EXCEPT !.overtaken = TRUE]
              ELSE caller[d]]
    /\ UNCHANGED <<obligations, calls, deaths, ignored, behind>>

\* The row is written again from the wake, whatever it was.
UpsertObligation(c) ==
    LET o == ObligationId(caller[c].wake) IN
    /\ caller[c].step = "upsert" /\ Goes(c, [step |-> "idle"])
    /\ obligations' = [obligations EXCEPT ![o] =
          ObligationFromWake(caller[c].wake, caller[c].inner, calls)]
    /\ ignored' = IF caller[c].dropped THEN ignored \cup {o} ELSE ignored \ {o}
    /\ behind' = IF caller[c].overtaken THEN behind \cup {o} ELSE behind \ {o}
    /\ UNCHANGED <<events, calls, deaths>>

\* The process dies.
SchedulerDies(c) ==
    /\ caller[c].step # "idle" /\ deaths < MaxDeath /\ deaths' = deaths + 1
    /\ Goes(c, [step |-> "idle"])
    /\ behind' = behind \cup {o \in Obligation :
          Writes(c, o) /\ ~caller[c].overtaken /\ ~caller[c].dropped}
    /\ UNCHANGED <<events, obligations, calls, ignored>>

\* backfillWakeEventsFromObligations, whenever a process opens the database:
\* a row without a wake event gets the one it was made from.
BackfillWake(o) ==
    /\ Unlogged(o) /\ AppendIgnoring(LoggedAs(obligations[o].wake))
    /\ UNCHANGED <<obligations, caller, calls, deaths, ignored, behind>>

WakeNext ==
    \/ \E o \in Obligation : BackfillWake(o)
    \/ \E c \in Scheduler :
        \/ ScheduleCalendar(c) \/ PutCopPacket(c) \/ RefuseWake(c) \/ AppendWake(c)
        \/ UpsertObligation(c) \/ SchedulerDies(c)

WakeSpec == WakeInit /\ [][WakeNext]_wakeVars

---------------------------------------------------------------------------

\* "calendar_obligations is a projection rebuildable from this table"
\* (migrations/005_cop_events.sql:2), of wakes: once a process has opened the
\* database, each row is of a wake that the log holds for it, with the work
\* the log holds for that wake, whatever calls crossed or died, unless the
\* id of the wake was another event's; and it is the last wake logged, unless
\* a call wrote it after a later one was logged or died before it wrote.
RowFromLog ==
    \A o \in Obligation :
        obligations[o] # NoObligation /\ o \notin ignored /\ ~Unlogged(o) =>
            LET w == obligations[o].wake IN
            /\ \E i \in WakesOf(events, o) : events[i].wake = w
            /\ \E inner \in Inner(events, w.packet, w.ref) : inner.work = obligations[o].work
            /\ o \notin behind /\ (\A c \in Scheduler : ~Writes(c, o)) => LastWake(events, o) = w

=============================================================================
