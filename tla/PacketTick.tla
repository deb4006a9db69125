----------------------------- MODULE PacketTick -----------------------------
(***************************************************************************)
(* The consumer tick: which request of the policy it attempts, in which    *)
(* order, and how long a request that failed is left alone. What makes an  *)
(* attempt succeed (consumePacket) is PacketConsumer's subject; here it is *)
(* the steps in which a packet advances, another tick may come, and the    *)
(* process may die.                                                        *)
(*                                                                         *)
(* Two kinds of policy item: one names a packet; one follows an issue,     *)
(* whose text names one packet after another. Ticks overlap when an        *)
(* operator runs the command beside the scheduled job. Time is in units of *)
(* the first wait, 30 s.                                                   *)
(***************************************************************************)
EXTENDS Naturals, Sequences

CONSTANTS
    Item,        \* the requests of the policy, a sequence
    Follows,     \* the ones with follow_issue
    Request,     \* packets
    TextsOf,     \* the packets the text of an item's issue names, in time
    Runner,      \* processes that may run a tick
    MaxAttempt,  \* the code's cap on the attempt, 6
    MaxWait      \* the code's cap on the wait, 900 s

Items == {Item[k] : k \in 1 .. Len(Item)}

ASSUME TickAssumption ==
    /\ Len(Item) \in Nat \ {0}
    /\ Follows \subseteq Items
    /\ TextsOf \in [Items -> Seq(Request)]
    /\ \A i \in Items : Len(TextsOf[i]) > 0 /\ (i \notin Follows => Len(TextsOf[i]) = 1)
    /\ MaxAttempt \in Nat \ {0} /\ MaxWait \in Nat \ {0}

VARIABLES
    text,       \* text[i]: which of its packets the issue of i names now
    stage,      \* stage[p]: "open", "claimed", "result" or "delivered"
    completed,  \* the packets whose returned receipt says completed
    repair,     \* the latest repair event of an item, retry_at as a time to go
    at,         \* at[r]: the index of the item a tick works on, 0 when idle
    mode,       \* "pick", "fetch" while GitHub is read, "consume" in
                \* consumePacket, "execute" between claim and result
    work,       \* work[r]: which packet of its item a tick consumes, 0 if none
    seen,       \* the repair event it read for its item
    crossed     \* ticks that work, or worked, on their item along with another

tickStateVars == <<text, stage, completed, repair, at, mode, work, seen, crossed>>

NoRepair == [attempt |-> 0, wait |-> 0]
Repairs == [attempt : 0 .. MaxAttempt, wait : 0 .. MaxWait]

Stages == {"open", "claimed", "result", "delivered"}
Modes == {"pick", "fetch", "consume", "execute"}

\* Types of the variables above.
PacketTickTypeOK ==
    /\ text \in [Items -> Nat] /\ \A i \in Items : text[i] \in 1 .. Len(TextsOf[i])
    /\ stage \in [Request -> Stages] /\ completed \subseteq Request
    /\ repair \in [Items -> Repairs]
    /\ at \in [Runner -> 0 .. Len(Item)] /\ mode \in [Runner -> Modes]
    /\ work \in [Runner -> Nat]
    /\ seen \in [Runner -> Repairs] /\ crossed \subseteq Runner

PacketTickInit ==
    /\ text = [i \in Items |-> 1]
    /\ stage = [p \in Request |-> "open"] /\ completed = {}
    /\ repair = [i \in Items |-> NoRepair]
    /\ at = [r \in Runner |-> 0] /\ mode = [r \in Runner |-> "pick"]
    /\ work = [r \in Runner |-> 0]
    /\ seen = [r \in Runner |-> NoRepair] /\ crossed = {}

Here(r) == Item[at[r]]

\* The packet a tick consumes.
Packet(r) == TextsOf[Here(r)][work[r]]

\* A tick has read the repair event of an item and is not done with it.
WorksOn(r, i) == at[r] > 0 /\ mode[r] # "pick" /\ Here(r) = i

\* The tick leaves its item and knows nothing more of it.
Leave(r, n) ==
    /\ at' = [at EXCEPT ![r] = n]
    /\ mode' = [mode EXCEPT ![r] = "pick"] /\ work' = [work EXCEPT ![r] = 0]
    /\ seen' = [seen EXCEPT ![r] = NoRepair] /\ crossed' = crossed \ {r}

\* On to the next item; after the last one the tick is over.
Advance(r) == Leave(r, IF at[r] = Len(Item) THEN 0 ELSE at[r] + 1)

TickBegins(r) ==
    /\ at[r] = 0 /\ at' = [at EXCEPT ![r] = 1]
    /\ UNCHANGED <<text, stage, completed, repair, mode, work, seen, crossed>>

Smaller(m, n) == IF m < n THEN m ELSE n

\* Mutant of Deferred: every failure counts as the first.
DeferredAfresh(was) == [attempt |-> 1, wait |-> 1]

\* 2 ** n.
Doubled[n \in 0 .. MaxAttempt] == IF n = 0 THEN 1 ELSE 2 * Doubled[n - 1]

\* Mutant of Deferred: without the caps.
DeferredUncapped(was) == [attempt |-> was.attempt + 1, wait |-> 2 ^ was.attempt]

\* A failure: the next attempt after the one the tick had read, and a wait
\* that doubles up to its cap.
Deferred(was) ==
    LET n == Smaller(was.attempt + 1, MaxAttempt)
    IN [attempt |-> n, wait |-> Smaller(Doubled[n - 1], MaxWait)]

Defer(i, was) == repair' = [repair EXCEPT ![i] = Deferred(was)]

\* The receipts of an issue that were never returned: executed, and no
\* delivery. The code takes the one queued first; there are several only
\* when ticks crossed, and then in any order.
Pending(i) ==
    {k \in 1 .. Len(TextsOf[i]) : stage[TextsOf[i][k]] = "result"}

\* The packets of an item that need no read of GitHub: a pending receipt of
\* a followed issue; the one packet of another item once it was executed.
Known(i) ==
    IF i \in Follows THEN Pending(i)
    ELSE {k \in 1 .. 1 : stage[TextsOf[i][k]] \in {"result", "delivered"}}

\* The part of the loop before GitHub is read. An item in its wait is left
\* alone; what was executed already is consumed without a read.
PickItem(r) ==
    /\ at[r] > 0 /\ mode[r] = "pick"
    /\ UNCHANGED <<text, stage, completed, repair>>
    /\ \/ repair[Here(r)].wait > 0 /\ Advance(r)
       \/ /\ repair[Here(r)].wait = 0
          /\ \/ \E k \in Known(Here(r)) :
                   mode' = [mode EXCEPT ![r] = "consume"] /\ work' = [work EXCEPT ![r] = k]
             \/ /\ Known(Here(r)) = {}
                /\ mode' = [mode EXCEPT ![r] = "fetch"] /\ UNCHANGED work
          /\ seen' = [seen EXCEPT ![r] = repair[Here(r)]]
          /\ LET others == {q \in Runner \ {r} : WorksOn(q, Here(r))}
             IN crossed' = IF others = {} THEN crossed ELSE crossed \cup others \cup {r}
          /\ UNCHANGED at

\* The issue arrives, and names the packet to consume.
FetchItem(r) ==
    /\ at[r] > 0 /\ mode[r] = "fetch"
    /\ mode' = [mode EXCEPT ![r] = "consume"]
    /\ work' = [work EXCEPT ![r] = text[Here(r)]]
    /\ UNCHANGED <<text, stage, completed, repair, at, seen, crossed>>

\* The claim transaction, while nobody has claimed the packet.
ClaimPacket(r) ==
    /\ at[r] > 0 /\ mode[r] = "consume" /\ stage[Packet(r)] = "open"
    /\ stage' = [stage EXCEPT ![Packet(r)] = "claimed"]
    /\ mode' = [mode EXCEPT ![r] = "execute"]
    /\ UNCHANGED <<text, completed, repair, at, work, seen, crossed>>

\* The provider ran, and its receipt is recorded.
RecordResult(r) ==
    /\ at[r] > 0 /\ mode[r] = "execute"
    /\ stage' = [stage EXCEPT ![Packet(r)] = "result"]
    /\ mode' = [mode EXCEPT ![r] = "consume"]
    /\ UNCHANGED <<text, completed, repair, at, work, seen, crossed>>

\* The receipt is returned, and that is recorded: a receipt of a completed
\* execution, or of one that failed or timed out.
Deliver(r) ==
    /\ at[r] > 0 /\ mode[r] = "consume" /\ stage[Packet(r)] = "result"
    /\ stage' = [stage EXCEPT ![Packet(r)] = "delivered"]
    /\ completed' \in {completed, completed \cup {Packet(r)}}
    /\ UNCHANGED <<text, repair, at, mode, work, seen, crossed>>

\* A completed packet whose receipt was returned leaves no repair event.
Settled(r) ==
    /\ at[r] > 0 /\ mode[r] = "consume"
    /\ stage[Packet(r)] = "delivered" /\ Packet(r) \in completed
    /\ Advance(r) /\ UNCHANGED <<text, stage, completed, repair>>

\* Everything else defers the item, and only it: GitHub does not answer, or
\* with another packet; the authority is refused; another claimed the packet,
\* or its outcome is unknown; a record or the delivery fails; or it was
\* executed and returned, but not completed.
ItemFails(r) ==
    /\ at[r] > 0 /\ mode[r] # "pick"
    /\ Defer(Here(r), seen[r]) /\ Advance(r)
    /\ UNCHANGED <<text, stage, completed>>

\* The process dies. What it had appended stays.
RunnerDies(r) ==
    /\ at[r] > 0 /\ Leave(r, 0)
    /\ UNCHANGED <<text, stage, completed, repair>>

\* The author of a followed issue replaces its text.
NextText(i) ==
    /\ text[i] < Len(TextsOf[i]) /\ text' = [text EXCEPT ![i] = @ + 1]
    /\ UNCHANGED <<stage, completed, repair, at, mode, work, seen, crossed>>

\* Time passes by one unit.
WaitPasses ==
    /\ \E i \in Items : repair[i].wait > 0
    /\ repair' = [i \in Items |->
           [repair[i] EXCEPT !.wait = IF @ > 0 THEN @ - 1 ELSE 0]]
    /\ UNCHANGED <<text, stage, completed, at, mode, work, seen, crossed>>

\* The steps of a tick at work on an item.
ItemStep(r) ==
    \/ FetchItem(r) \/ ClaimPacket(r) \/ RecordResult(r) \/ Deliver(r)
    \/ Settled(r) \/ ItemFails(r)

PacketTickNext ==
    \/ WaitPasses
    \/ \E i \in Items : NextText(i)
    \/ \E r \in Runner : TickBegins(r) \/ PickItem(r) \/ ItemStep(r) \/ RunnerDies(r)

PacketTickSpec == PacketTickInit /\ [][PacketTickNext]_tickStateVars

---------------------------------------------------------------------------
(* Properties.                                                             *)

\* Two ticks at work on one item.
Crossing(i) == \E r \in crossed : Here(r) = i

\* The wait of an item grows while it keeps failing: a new repair event has
\* a larger attempt than the one before, or the cap, whatever ticks die and
\* whatever succeeds in between; only a tick that shares its item with
\* another takes it back, and no later tick.
BackoffGrowsUnlessCrossed ==
    [][\A i \in Items : repair'[i].wait > repair[i].wait /\ ~Crossing(i) =>
          \/ repair'[i].attempt > repair[i].attempt
          \/ repair'[i].attempt = MaxAttempt]_tickStateVars

\* A text of a followed issue is claimed only when the receipts of all its
\* texts have been returned, unless two ticks work on the item at once: a
\* changed issue does not abandon a pending receipt.
ReceiptsBeforeNextText ==
    [][\A i \in Follows : Pending(i) # {} /\ ~Crossing(i) =>
          \A k \in 1 .. Len(TextsOf[i]) :
              stage[TextsOf[i][k]] = "open" => stage'[TextsOf[i][k]] = "open"]_tickStateVars

\* What the ticks keep: the growing wait and the order of the receipts.
TickKept == BackoffGrowsUnlessCrossed /\ ReceiptsBeforeNextText

=============================================================================
