----------------------------- MODULE MCMachine -----------------------------
(***************************************************************************)
(* What else runs on a machine of the mesh: the ticks of its two packet    *)
(* handlers, its table of peers and its control room, and the tools its    *)
(* operator and agents work with. These parts share no state, so each      *)
(* behaviour of this module is one of the part that `part` names, while    *)
(* the others stand still.                                                 *)
(***************************************************************************)
EXTENDS PacketTick, MobileDiagnostic, PeerMesh, PortalCache,
        GitWip, Session, SecretRollout, LocalFiles, TLC

CONSTANTS i1, i2, p1, p2, p3, peer, main, topic, repo, issue1, k1,
          openai, bearer, magistral, guide, magistralService, mcpService

MCItem == <<i1, i2>>
MCTextsOf == i1 :> <<p1, p2>> @@ i2 :> <<p3>>
MCSkew == peer :> 1
MCUpstream == {<<repo, main>>}
MCIssueOf == main :> NoIssue @@ topic :> issue1
MCCatalog == <<openai, bearer>>
MCTargetsOf == openai :> <<magistral, guide>> @@ bearer :> <<magistral>>
MCServicesOf == openai :> {magistralService, mcpService} @@ bearer :> {magistralService}

\* Started without an argument, after a continuation, and as a dry run.
MCOption ==
    {[issue |-> NoIssue, cont |-> NoCont, push |-> TRUE, dry |-> FALSE, ask |-> FALSE],
     [issue |-> issue1, cont |-> k1, push |-> TRUE, dry |-> FALSE, ask |-> FALSE],
     [issue |-> issue1, cont |-> NoCont, push |-> FALSE, dry |-> TRUE, ask |-> FALSE]}

\* The two processes of each part are alike, and only one part moves: to
\* exchange them everywhere at once is a symmetry.
Exchange(S) == CHOOSE f \in Permutations(S) : \A x \in S : f[x] # x
Exchanges ==
    LET exchange == Exchange(Runner) @@ Exchange(Tick) @@ Exchange(Beater)
                    @@ Exchange(Cycle) @@ Exchange(Visit) @@ Exchange(Machine)
                    @@ Exchange(Caller) @@ Exchange(Operator) @@ Exchange(Process)
    IN {exchange, [x \in DOMAIN exchange |-> x]}
MCSymmetry == Exchanges

VARIABLE part

handlerVars == <<tickStateVars, mobileVars>>
nodeViewVars == <<peerVars, portalVars>>
toolVars == <<wipVars, sessionVars, rolloutVars, localVars>>
machineVars == <<part, handlerVars, nodeViewVars, toolVars>>

MachineInit ==
    /\ part \in {"tick", "mobile", "peers", "portal", "wip", "session", "secrets", "files"}
    /\ PacketTickInit /\ MobileInit /\ PeerInit /\ PortalInit
    /\ WipInit /\ RolloutInit /\ LocalInit
    /\ SessionInit /\ (part # "session" => branch = [r \in Repo |-> main])
    /\ part # "mobile" => issue = (CHOOSE b \in Body : TRUE) /\ policy = issue

MachineNext ==
    /\ UNCHANGED part
    /\ \/ /\ part = "tick" /\ PacketTickNext
          /\ UNCHANGED <<mobileVars, nodeViewVars, toolVars>>
       \/ /\ part = "mobile" /\ MobileNext
          /\ UNCHANGED <<tickStateVars, nodeViewVars, toolVars>>
       \/ /\ part = "peers" /\ PeerNext
          /\ UNCHANGED <<handlerVars, portalVars, toolVars>>
       \/ /\ part = "portal" /\ PortalNext
          /\ UNCHANGED <<handlerVars, peerVars, toolVars>>
       \/ /\ part = "wip" /\ WipNext
          /\ UNCHANGED <<handlerVars, nodeViewVars, sessionVars, rolloutVars, localVars>>
       \/ /\ part = "session" /\ SessionNext
          /\ UNCHANGED <<handlerVars, nodeViewVars, wipVars, rolloutVars, localVars>>
       \/ /\ part = "secrets" /\ RolloutNext
          /\ UNCHANGED <<handlerVars, nodeViewVars, wipVars, sessionVars, localVars>>
       \/ /\ part = "files" /\ LocalNext
          /\ UNCHANGED <<handlerVars, nodeViewVars, wipVars, sessionVars, rolloutVars>>

Spec == MachineInit /\ [][MachineNext]_machineVars

\* The state of every part has the types it is declared with: what the
\* stored events, tables, files and branches, and the local variables of the
\* processes that work on them, can hold.
MachineTypeOK ==
    /\ PacketTickTypeOK /\ MobileTypeOK /\ PeerTypeOK /\ PortalTypeOK
    /\ WipTypeOK /\ SessionTypeOK /\ RolloutTypeOK /\ LocalTypeOK

=============================================================================
