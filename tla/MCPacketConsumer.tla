-------------------------- MODULE MCPacketConsumer --------------------------
(***************************************************************************)
(* Instances of PacketConsumer for TLC.                                    *)
(***************************************************************************)
EXTENDS PacketConsumer, TLC

CONSTANTS s1, s2, p1, p2, c1, c2, a, b

OneShot(id, p, c, until) ==
  [id |-> id, standing |-> FALSE, publish |-> TRUE, scope |-> {<<p, c>>},
   max |-> 1, gap |-> 0, until |-> until]
StandingGrant(id, ps, max, gap) ==
  [id |-> id, standing |-> TRUE, publish |-> TRUE, scope |-> ps \X Content,
   max |-> max, gap |-> gap, until |-> 9]

\* One packet, edited under its identity.  A standing grant covers what it said
\* first; the grant of the edited content is signed separately, expires, and may
\* not publish.
EditedGrants ==
  {[StandingGrant(a, {p1}, 2, 0) EXCEPT !.scope = {<<p1, c1>>}],
   [OneShot(b, p1, c2, 1) EXCEPT !.publish = FALSE]}

\* Two packets under one standing grant id, re-signed with a larger budget.
StandingGrants == {StandingGrant(a, {p1, p2}, 1, 1), StandingGrant(a, {p1, p2}, 2, 2)}

ProcSymmetry == Permutations(Proc)
=============================================================================
