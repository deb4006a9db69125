------------------------------ MODULE MCReturns ------------------------------
(***************************************************************************)
(* What others wait for is returned: the receipt of an executed packet, as *)
(* a comment on its issue, and the answer to a packet that waits in the    *)
(* outbox. The two share no state, so each behaviour of this module is one *)
(* of the part that `part` names, while the other stands still.            *)
(***************************************************************************)
EXTENDS PacketConsumer

CONSTANTS
    agent, cli,
    Envelope, Kind, Agent, Cli, MaxAttempts, MaxWait,
    DeliveredTtl, FailedTtl, InboxTtl, MaxPasses, MaxLosses,
    p1, c1, a

\* One packet with one grant that lasts, and one message with a snapshot.
PlainGrant == {[id |-> a, standing |-> FALSE, publish |-> TRUE, scope |-> {<<p1, c1>>},
                max |-> 1, gap |-> 0, until |-> 9]}
OneSnapshot == <<"snapshot">>

VARIABLES
    part,
    outbox, todo, sending, answer, net, inbox, handling, handled, tries, lapses, passes,
    losses

Outbox == INSTANCE CopDelivery WITH MaxCrashes <- MaxLosses, crashes <- losses

outboxVars == <<outbox, todo, sending, answer, net, inbox, handling, handled, tries,
                lapses, passes, losses>>
returnVars == <<part, vars, outboxVars>>

ReturnInit == part \in {"receipt", "outbox"} /\ Init /\ Outbox!Init

ReturnNext ==
    /\ UNCHANGED part
    /\ \/ part = "receipt" /\ Next /\ UNCHANGED outboxVars
       \/ part = "outbox" /\ Outbox!Next /\ UNCHANGED vars

\* The fairness of PacketConsumer and that of CopDelivery, each of its part.
ReceiptFairness ==
    /\ \A s \in Proc : WF_vars(part = "receipt" /\ Continue(s))
    /\ \A p \in Packet :
        /\ SF_vars(part = "receipt" /\ \E s \in Proc, j \in Job : j.packet = p /\ Begin(s, j))
        /\ \A step \in {"publish", "list", "post", "confirm"} :
              SF_vars(part = "receipt" /\
                 \E s \in Proc : Serving(s, p, At(s, step) /\ DeliverySucceeds(s)))

OutboxFairness ==
    /\ WF_outboxVars(part = "outbox" /\ Outbox!StartPass(Agent))
    /\ WF_outboxVars(part = "outbox" /\ Outbox!Step(Agent))
    /\ WF_outboxVars(part = "outbox" /\ Outbox!Tick)

ReturnsSpec == ReturnInit /\ [][ReturnNext]_returnVars /\ ReceiptFairness /\ OutboxFairness

\* See CopDelivery: every queued packet is settled for good.
EventuallySettled == Outbox!EventuallySettled

=============================================================================
