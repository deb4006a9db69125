--------------------------- MODULE SecretRollout ---------------------------
(***************************************************************************)
(* Rolling keys out from the workstation's source of truth to the copies   *)
(* the services of a host read: apply-fracta-runtime-secrets --apply. For  *)
(* each key of the catalogue the copies are compared over ssh, written if  *)
(* one differs, and after the last key the services of what was written    *)
(* are restarted. Several people and agents may run it, and any ssh call   *)
(* may be cut before, during or after what it does.                        *)
(*                                                                         *)
(* Values are numbered in the order the key was rotated; 0 is no value.    *)
(***************************************************************************)
EXTENDS Naturals, Sequences

CONSTANTS
    Catalog,      \* the keys, in order
    Target,       \* env files on the host
    Service,
    TargetsOf,    \* the files of a key, in order
    ServicesOf,   \* the services its catalogue entry restarts
    Operator,     \* processes running the procedure
    MaxRotation   \* bound on rotations of a key

Key == {Catalog[i] : i \in 1 .. Len(Catalog)}

ASSUME RolloutAssumption ==
    /\ Len(Catalog) \in Nat \ {0}
    /\ TargetsOf \in [Key -> Seq(Target)] /\ ServicesOf \in [Key -> SUBSET Service]
    /\ MaxRotation \in Nat

VARIABLES
    sot,       \* the source of truth
    copy,      \* the value of a key in each file
    unread,    \* <<k, s>>: a copy of k has changed since s was started
    dropped,   \* history: such pairs whose restart was given up, see below
    rollout    \* the procedure of each process

rolloutVars == <<sot, copy, unread, dropped, rollout>>

RolloutSteps == {"idle", "verify", "write", "restart"}

\* Types of the variables above.
RolloutTypeOK ==
    /\ sot \in [Key -> Nat] /\ copy \in [Target -> [Key -> Nat]]
    /\ unread \subseteq Key \X Service /\ dropped \subseteq Key \X Service
    /\ rollout \in [Operator -> [step : RolloutSteps, next : Nat, wanted : [Key -> Nat],
                                 restart : BOOLEAN, restarts : SUBSET Service]]

NoRollout == [step |-> "idle", next |-> 0, wanted |-> [k \in Key |-> 0],
              restart |-> TRUE, restarts |-> {}]

RolloutInit ==
    /\ sot = [k \in Key |-> 0] /\ copy = [t \in Target |-> sot]
    /\ unread = {} /\ dropped = {}
    /\ rollout = [o \in Operator |-> NoRollout]

Doing(o, step) == rollout[o].step = step
Task(o) == Catalog[rollout[o].next]
Value(o) == rollout[o].wanted[Task(o)]

\* What a change of some copies of k, or the failure to restart for it,
\* means for the services that read it.
Readers(k) == {k} \X ServicesOf[k]

\* On to the next key; after the last one the services are restarted.
NextKey(o, restarts) ==
    LET last == rollout[o].next = Len(Catalog)
    IN rollout' = [rollout EXCEPT
          ![o].restarts = restarts,
          ![o].step = IF last THEN "restart" ELSE "verify",
          ![o].next = IF last THEN @ ELSE @ + 1]

RolloutEnds(o) == rollout' = [rollout EXCEPT ![o] = NoRollout]

---------------------------------------------------------------------------
(* runFractaRuntimeSecretsProcedure with apply.                            *)

\* All keys are read from the source of truth at the start.
ReadSot(o) ==
    /\ Doing(o, "idle")
    /\ \E restart \in BOOLEAN :
          rollout' = [rollout EXCEPT ![o] =
              [NoRollout EXCEPT !.step = "verify", !.next = 1, !.wanted = sot, !.restart = restart]]
    /\ UNCHANGED <<sot, copy, unread, dropped>>

Aligned(o) == \A i \in 1 .. Len(TargetsOf[Task(o)]) : copy[TargetsOf[Task(o)][i]][Task(o)] = Value(o)

\* The fingerprints of the copies; one that cannot be read counts as
\* different. A key that the source does not have is skipped.
VerifyKey(o) ==
    /\ Doing(o, "verify")
    /\ \/ (Value(o) = 0 \/ Aligned(o)) /\ NextKey(o, rollout[o].restarts)
       \/ Value(o) # 0 /\ rollout' = [rollout EXCEPT ![o].step = "write"]
    /\ UNCHANGED <<sot, copy, unread, dropped>>

\* The script has written the first n files.
Written(o, n) ==
    LET files == {TargetsOf[Task(o)][i] : i \in 1 .. n}
    IN /\ copy' = [t \in Target |-> IF t \in files THEN [copy[t] EXCEPT ![Task(o)] = Value(o)]
                                    ELSE copy[t]]
       /\ unread' = unread \cup
              (IF \E t \in files : copy[t][Task(o)] # Value(o) THEN Readers(Task(o)) ELSE {})

\* Mutant of ToRestart: only a file that has just been made calls for it.
RestartsForNew(o) ==
    IF \A t \in Target : copy[t][Task(o)] = 0 THEN ServicesOf[Task(o)] ELSE {}

\* The services of a key that was written are to be restarted.
ToRestart(o) == ServicesOf[Task(o)]

\* The write is answered with OK.
WriteKey(o) ==
    /\ Doing(o, "write")
    /\ Written(o, Len(TargetsOf[Task(o)]))
    /\ NextKey(o, rollout[o].restarts \cup ToRestart(o))
    /\ UNCHANGED <<sot, dropped>>

\* write_failed: the script stopped in between, or only its answer is lost.
\* Nobody restarts for what it did write, now or, if the copies are aligned
\* by then, ever.
WriteFails(o) ==
    /\ Doing(o, "write")
    /\ \E n \in 0 .. Len(TargetsOf[Task(o)]) : Written(o, n)
    /\ dropped' = dropped \cup (unread' \cap Readers(Task(o)))
    /\ NextKey(o, rollout[o].restarts)
    /\ UNCHANGED sot

\* The services are running anew, with what the files say.
Started(services) ==
    /\ unread' = {pair \in unread : pair[2] \notin services}
    /\ dropped' = {pair \in dropped : pair[2] \notin services}

Restart(o) ==
    /\ Doing(o, "restart") /\ rollout[o].restart
    /\ Started(rollout[o].restarts) /\ RolloutEnds(o)
    /\ UNCHANGED <<sot, copy>>

\* What o was going to restart for is left to chance.
Dropped(o) == dropped' = dropped \cup {pair \in unread : pair[2] \in rollout[o].restarts}

\* --no-restart, or restart_failed before it did anything.
NotRestarted(o) ==
    /\ Doing(o, "restart") /\ Dropped(o) /\ RolloutEnds(o)
    /\ UNCHANGED <<sot, copy, unread>>

---------------------------------------------------------------------------
RolloutDies(o) ==
    /\ rollout[o].step # "idle" /\ Dropped(o) /\ RolloutEnds(o)
    /\ UNCHANGED <<sot, copy, unread>>

\* The operator rotates a key in the source of truth.
Rotate(k) ==
    /\ sot[k] < MaxRotation /\ sot' = [sot EXCEPT ![k] = @ + 1]
    /\ UNCHANGED <<copy, unread, dropped, rollout>>

\* A service is restarted for any other reason.
ServiceRestarts(s) == Started({s}) /\ UNCHANGED <<sot, copy, rollout>>

RolloutNext ==
    \/ \E k \in Key : Rotate(k)
    \/ \E s \in Service : ServiceRestarts(s)
    \/ \E o \in Operator :
        \/ ReadSot(o) \/ VerifyKey(o) \/ WriteKey(o) \/ WriteFails(o)
        \/ Restart(o) \/ NotRestarted(o) \/ RolloutDies(o)

RolloutSpec == RolloutInit /\ [][RolloutNext]_rolloutVars

---------------------------------------------------------------------------
(* Properties.                                                             *)

\* A service works with an older key than its files have only while a
\* procedure under way is going to restart it, or because an earlier one
\* gave that up: its write or its restart failed or went unanswered, it was
\* told not to restart, or it died. A later run does not make up for those:
\* it finds the copies aligned and reports ok.
StaleOnlyIfDropped ==
    \A pair \in unread :
        \/ \E o \in Operator : pair[2] \in rollout[o].restarts
        \/ pair \in dropped

=============================================================================
