---------------------------- MODULE OnaRecovery ----------------------------
(***************************************************************************)
(* Recovery observers: jobs of other nodes that probe this node's agent    *)
(* and restart its service over ssh, at most once per cooldown. Each       *)
(* observing node keeps the cooldown in its own database; its scheduled    *)
(* job and the command line run the same call, so calls may overlap.       *)
(*                                                                         *)
(* Time is relative: `left` is the time until cooldown_until (negative     *)
(* once it is past), `age` the time since a call's `now` was read. Of the   *)
(* watched node only its service is kept: NodeAgent says how it goes up    *)
(* and down.                                                               *)
(***************************************************************************)
EXTENDS Integers

CONSTANTS
    Call,        \* calls of recoverOna, each of one observing node
    Observer,
    DbOf,        \* the observing node of a call
    Cooldown,    \* cooldown_ms
    MaxAge       \* bound on a call's duration; its awaits all have timeouts

ASSUME RecoveryAssumption ==
    /\ DbOf \in [Call -> Observer]
    /\ Cooldown \in Nat /\ MaxAge \in Nat /\ MaxAge < Cooldown

VARIABLES
    service, \* of the watched node: "serving", "starting", "dead" until the
             \* supervisor starts it again, or "stopped" for good
    call,   \* call[c]: pc, age, and whether no other call met it
    left,   \* ona_recovery_state.cooldown_until of each observer
    clean   \* time since the start of the last call of an observer whose
            \* attempt was stored with no other call meeting it

recoveryVars == <<service, call, left, clean>>

Idle == [pc |-> "idle", age |-> 0, alone |-> TRUE]
PCs == {"idle", "probe", "reach", "restart", "verify"}

\* Types of the variables above.
RecoveryTypeOK ==
    /\ service \in {"serving", "starting", "dead", "stopped"}
    /\ call \in [Call -> [pc : PCs, age : 0 .. MaxAge, alone : BOOLEAN]]
    /\ left \in [Observer -> (0 - MaxAge) .. Cooldown]
    /\ clean \in [Observer -> 0 .. Cooldown + MaxAge]

RecoveryInit ==
    /\ service = "starting"
    /\ call = [c \in Call |-> Idle]
    /\ left = [o \in Observer |-> 0 - MaxAge]
    /\ clean = [o \in Observer |-> Cooldown + MaxAge]

Busy(c) == call[c].pc # "idle"
Mates(c) == {d \in Call \ {c} : DbOf[d] = DbOf[c] /\ Busy(d)}

---------------------------------------------------------------------------
(* One call of recoverOna.                                                 *)

\* `now` is read; the database is opened; /health is asked.
Begin(c) ==
    /\ ~Busy(c)
    /\ call' = [d \in Call |->
           IF d = c THEN [pc |-> "probe", age |-> 0, alone |-> Mates(c) = {}]
           ELSE IF d \in Mates(c) THEN [call[d] EXCEPT !.alone = FALSE] ELSE call[d]]
    /\ UNCHANGED <<service, left, clean>>

\* persistRecoveryResult: only an attempt writes the state, and its cooldown
\* counts from the start of the call.
Persist(c, attempted) ==
    /\ call' = [call EXCEPT ![c] = Idle]
    /\ left' = IF attempted THEN [left EXCEPT ![DbOf[c]] = Cooldown - call[c].age] ELSE left
    /\ clean' = IF attempted /\ call[c].alone
                THEN [clean EXCEPT ![DbOf[c]] = call[c].age] ELSE clean

At(c, pc) == call[c].pc = pc
GoTo(c, pc) == call' = [call EXCEPT ![c].pc = pc]

AlreadyHealthy(c) ==
    /\ At(c, "probe") /\ service = "serving"
    /\ Persist(c, FALSE)
    /\ UNCHANGED service

\* Mutant of Cooling: compared with the time the state is read.
CoolingWhenRead(c) == left[DbOf[c]] > 0

\* cooldown_until > now: compared with the time the call began.
Cooling(c) == left[DbOf[c]] + call[c].age > 0

\* No answer, in time or at all, or one that is not 2xx; the state is read
\* right then.
FoundDown(c) ==
    /\ At(c, "probe")
    /\ IF Cooling(c) THEN Persist(c, FALSE)
       ELSE GoTo(c, "reach") /\ UNCHANGED <<left, clean>>
    /\ UNCHANGED service

\* `ssh host true`.
Reached(c) ==
    /\ At(c, "reach") /\ GoTo(c, "restart")
    /\ UNCHANGED <<service, left, clean>>

Unreachable(c) ==
    /\ At(c, "reach") /\ Persist(c, FALSE)
    /\ UNCHANGED service

\* Mutant of RestartService: try-restart, which leaves a stopped unit alone.
RestartRunning == service' = IF service = "stopped" THEN service ELSE "starting"

\* What ssh_command does to the node: the service is started anew.
RestartService == service' = "starting"

\* The restart command runs on the node; whether its answer arrives in time
\* only decides if the call goes on to verify.
SshRestart(c) ==
    /\ At(c, "restart") /\ GoTo(c, "verify")
    /\ UNCHANGED <<left, clean>>
    /\ RestartService

\* It fails before it does anything.
SshFails(c) ==
    /\ At(c, "restart") /\ GoTo(c, "verify")
    /\ UNCHANGED <<left, clean>>
    /\ UNCHANGED service

\* restart_failed, recovered or restart_unverified: all three were attempts.
Verified(c) ==
    /\ At(c, "verify") /\ Persist(c, TRUE)
    /\ UNCHANGED service

\* The process of the observer dies.
ObserverDies(c) ==
    /\ Busy(c)
    /\ call' = [call EXCEPT ![c] = Idle]
    /\ UNCHANGED <<service, left, clean>>

TimePasses ==
    /\ \A c \in Call : Busy(c) => call[c].age < MaxAge
    /\ call' = [c \in Call |-> IF Busy(c) THEN [call[c] EXCEPT !.age = @ + 1] ELSE call[c]]
    /\ left' = [o \in Observer |-> IF left[o] > 0 - MaxAge THEN left[o] - 1 ELSE left[o]]
    /\ clean' = [o \in Observer |-> IF clean[o] < Cooldown + MaxAge THEN clean[o] + 1 ELSE clean[o]]
    /\ UNCHANGED service

RecoveryCall(c) ==
    \/ Begin(c) \/ AlreadyHealthy(c) \/ FoundDown(c) \/ Reached(c)
    \/ Unreachable(c) \/ SshRestart(c) \/ SshFails(c) \/ Verified(c)

\* The watched service: it boots, dies, is started again by its supervisor,
\* and ends when it exits cleanly.
Service(from, to) ==
    /\ service \in from /\ service' = to
    /\ UNCHANGED <<call, left, clean>>

ServiceStep ==
    \/ Service({"starting"}, "serving") \/ Service({"dead"}, "starting")
    \/ Service({"serving", "starting"}, "dead") \/ Service({"serving", "starting"}, "stopped")

RecoveryNext ==
    \/ TimePasses \/ ServiceStep
    \/ \E c \in Call : RecoveryCall(c) \/ ObserverDies(c)

RecoverySpec == RecoveryInit /\ [][RecoveryNext]_recoveryVars

---------------------------------------------------------------------------
(* Properties.                                                             *)

\* One observer attempts two restarts within a cooldown only if the earlier
\* attempt was never stored as the code means it: its call died before
\* persisting, or another call of the same observer overlapped it and read
\* the state before, or overwrote it after.
CooldownBrokenOnlyByOverlap ==
    [][\A c \in Call : At(c, "restart") /\ At(c, "verify")' =>
          clean[DbOf[c]] - call[c].age >= Cooldown]_recoveryVars

=============================================================================
