-------------------------- MODULE AuthorizedEffect --------------------------
(***************************************************************************)
(* What the packet consumer promises, without processes, locks or crashes: *)
(* an effect happens at most once, after one unit of a grant id's budget   *)
(* has been spent on it; its outcome is recorded at most once and returned *)
(* only after that.  An effect that starts may never be recorded.          *)
(***************************************************************************)
EXTENDS Integers, FiniteSets

CONSTANTS Packet, GrantId, Limit   \* Limit: the budgets grants of an id may state

VARIABLES phase,    \* how far each packet is
          effects,  \* how often each packet's effect happened
          payer     \* the packets each grant id has paid for

vars == <<phase, effects, payer>>

Init ==
  /\ phase = [p \in Packet |-> "open"] /\ effects = [p \in Packet |-> 0]
  /\ payer = [id \in GrantId |-> {}]

Move(p, from, to) == phase[p] \in from /\ phase' = [phase EXCEPT ![p] = to]

Authorize(p, id) ==
  /\ Move(p, {"open"}, "claimed")
  /\ \E n \in Limit[id] : Cardinality(payer[id]) < n
  /\ payer' = [payer EXCEPT ![id] = @ \cup {p}] /\ UNCHANGED effects

Effect(p) ==
  /\ Move(p, {"claimed"}, "effected")
  /\ effects' = [effects EXCEPT ![p] = @ + 1] /\ UNCHANGED payer

Record(p) == Move(p, {"claimed", "effected"}, "recorded") /\ UNCHANGED <<effects, payer>>
Deliver(p) == Move(p, {"recorded"}, "delivered") /\ UNCHANGED <<effects, payer>>

Next == \E p \in Packet :
  (\E id \in GrantId : Authorize(p, id)) \/ Effect(p) \/ Record(p) \/ Deliver(p)

Spec == Init /\ [][Next]_vars
=============================================================================
