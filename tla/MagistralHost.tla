---------------------------- MODULE MagistralHost ----------------------------
(***************************************************************************)
(* Changing the Magistral service of the host: applying the map of coding  *)
(* agents, which also gives the service its key if it has none, and        *)
(* promoting it to the local Codex ACP provider with one drop-in for the   *)
(* service and one for the guide that calls it, rolled back if the         *)
(* promoted service does not answer. Both run under set -e, by hand, and   *)
(* possibly at once.                                                       *)
(*                                                                         *)
(* A key is numbered in the order the authority issued it; 0 is no key.    *)
(***************************************************************************)
EXTENDS Naturals

CONSTANTS
    Admin,       \* processes that run the scripts
    MaxIssue,    \* bound on the keys the authority issues
    MaxChange    \* bound on the scripts started

ASSUME MagistralAssumption == MaxIssue \in Nat \ {0} /\ MaxChange \in Nat

VARIABLES
    authority,    \* the key in the authority's file
    keyInForce,   \* the last key line of magistral.env
    append,       \* the key in /tmp/magistral.env.append
    leftover,     \* the script that set it aside ended before appending it
    mapped,       \* the map of the repository is installed
    dropins,      \* the drop-ins on disk
    units,        \* those the service manager has read
    running,      \* those the two services were started with
    change,       \* the scripts under way
    changes,      \* how many were started
    strayed       \* a promotion ended midway, or two crossed

keyVars == <<authority, keyInForce, append, leftover>>
dropinVars == <<dropins, units, running>>
hostChangeVars == <<keyVars, mapped, dropinVars, change, changes, strayed>>

Served == {"magistral", "guide"}
ChangeStep == {"idle", "token", "append", "remap", "verify", "drop", "both", "load", "promote",
               "answer", "guide", "undrop", "unload", "demote", "unguide"}

\* Types of the variables above.
MagistralTypeOK ==
    /\ {authority, keyInForce, append} \subseteq 0..MaxIssue /\ mapped \in BOOLEAN
    /\ dropins \subseteq Served /\ units \subseteq Served /\ running \subseteq Served
    /\ change \in [Admin -> [step : ChangeStep, had : SUBSET Served, wrote : BOOLEAN, late : BOOLEAN]]
    /\ changes \in 0..MaxChange /\ {strayed, leftover} \subseteq BOOLEAN

NoChange == [step |-> "idle", had |-> {}, wrote |-> FALSE, late |-> FALSE]

MagistralInit ==
    /\ authority \in 0..1 /\ keyInForce = 0 /\ append = 0 /\ leftover = FALSE /\ mapped = FALSE
    /\ dropins = {} /\ units = {} /\ running = {}
    /\ change = [o \in Admin |-> NoChange] /\ changes = 0 /\ strayed = FALSE

Steps(o, step) == change[o].step = step
Proceed(o, step) == change' = [change EXCEPT ![o].step = step]
ChangeEnds(o) == change' = [change EXCEPT ![o] = NoChange]
BeginChange(o) == Steps(o, "idle") /\ changes < MaxChange /\ changes' = changes + 1

---------------------------------------------------------------------------
(* apply-magistral-coding-map.                                             *)

\* The map is replaced, after a backup that nothing reads; a dry run only
\* prints.
InstallMap(o) ==
    /\ BeginChange(o) /\ Proceed(o, "token") /\ mapped' = TRUE
    /\ UNCHANGED <<keyVars, dropinVars, strayed>>

\* The authority's key is set aside if the service has none. Without any the
\* script ends, with the map replaced and nothing restarted.
PickToken(o) ==
    /\ Steps(o, "token")
    /\ IF authority = 0 /\ keyInForce = 0 THEN ChangeEnds(o) /\ UNCHANGED <<append, leftover>>
       ELSE LET wrote == authority # 0 /\ keyInForce = 0
            IN /\ append' = IF wrote THEN authority ELSE append
               /\ leftover' = (leftover /\ ~wrote)
               /\ change' = [change EXCEPT ![o].step = "append", ![o].wrote = wrote, ![o].late = FALSE]
    /\ UNCHANGED <<authority, keyInForce, mapped, dropinVars, changes, strayed>>

\* Mutant of Appended: a key that was set aside stays there.
AppendedKept == append

\* What is set aside afterwards.
Appended == 0

\* Whatever is set aside is appended, and is the key in force from then on.
AppendToken(o) ==
    /\ Steps(o, "append") /\ Proceed(o, "remap")
    /\ keyInForce' = IF append = 0 THEN keyInForce ELSE append
    /\ append' = Appended /\ leftover' = FALSE
    /\ UNCHANGED <<authority, mapped, dropinVars, changes, strayed>>

\* systemctl restart of the services S.
RestartServices(S) == running' = (running \ S) \cup (units \cap S)

\* The service is restarted, then the guide's stack, which may fail; neither
\* with --skip-restart.
RestartMapped(o) ==
    /\ Steps(o, "remap")
    /\ \/ RestartServices({"magistral"}) /\ ChangeEnds(o)
       \/ RestartServices(Served) /\ Proceed(o, "verify")
       \/ UNCHANGED running /\ Proceed(o, "verify")
    /\ UNCHANGED <<keyVars, mapped, dropins, units, changes, strayed>>

\* What is installed is compared with the profile as the repository has it
\* now; either way the script ends and leaves it.
VerifyMap(o) ==
    /\ Steps(o, "verify") /\ ChangeEnds(o)
    /\ UNCHANGED <<keyVars, mapped, dropinVars, changes, strayed>>

---------------------------------------------------------------------------
(* enable-magistral-codex-acp.                                             *)

Promoting(o) ==
    change[o].step \in {"drop", "both", "load", "promote", "answer", "guide",
                        "undrop", "unload", "demote", "unguide"}

\* Everything it needs is there and nothing it runs is edited; the drop-ins
\* of before are kept for a rollback.
SaveDropins(o) ==
    /\ BeginChange(o)
    /\ change' = [change EXCEPT ![o] = [NoChange EXCEPT !.step = "drop", !.had = dropins]]
    /\ strayed' = (strayed \/ \E p \in Admin : Promoting(p))
    /\ UNCHANGED <<keyVars, mapped, dropinVars>>

WriteDropin(o) ==
    /\ Steps(o, "drop") /\ Proceed(o, "both") /\ dropins' = dropins \cup {"magistral"}
    /\ UNCHANGED <<keyVars, mapped, units, running, changes, strayed>>

WriteGuideDropin(o) ==
    /\ Steps(o, "both") /\ Proceed(o, "load") /\ dropins' = dropins \cup {"guide"}
    /\ UNCHANGED <<keyVars, mapped, units, running, changes, strayed>>

LoadDropins(o) ==
    /\ Steps(o, "load") /\ Proceed(o, "promote") /\ units' = dropins
    /\ UNCHANGED <<keyVars, mapped, dropins, running, changes, strayed>>

\* The restart fails, or it comes up.
PromoteMagistral(o) ==
    /\ Steps(o, "promote") /\ RestartServices({"magistral"})
    /\ Proceed(o, "answer") \/ Proceed(o, "undrop")
    /\ UNCHANGED <<keyVars, mapped, dropins, units, changes, strayed>>

\* It answers within half a minute, as a Magistral with an ACP node.
AskServiceInfo(o) ==
    /\ Steps(o, "answer")
    /\ Proceed(o, "guide") \/ Proceed(o, "undrop")
    /\ UNCHANGED <<keyVars, mapped, dropinVars, changes, strayed>>

\* The guide is restarted, which, unlike its check afterwards, is not
\* guarded: if that fails nothing is rolled back, and the backups are gone.
PromoteGuide(o) ==
    /\ Steps(o, "guide")
    /\ \/ RestartServices({"guide"}) /\ ChangeEnds(o) /\ UNCHANGED strayed
       \/ RestartServices({"guide"}) /\ Proceed(o, "undrop") /\ UNCHANGED strayed
       \/ UNCHANGED running /\ ChangeEnds(o) /\ strayed' = TRUE
    /\ UNCHANGED <<keyVars, mapped, dropins, units, changes>>

\* rollback: both drop-ins as they were before, loaded, both restarted.
RestoreDropins(o) ==
    /\ Steps(o, "undrop") /\ Proceed(o, "unload") /\ dropins' = change[o].had
    /\ UNCHANGED <<keyVars, mapped, units, running, changes, strayed>>

UnloadDropins(o) ==
    /\ Steps(o, "unload") /\ Proceed(o, "demote") /\ units' = dropins
    /\ UNCHANGED <<keyVars, mapped, dropins, running, changes, strayed>>

DemoteMagistral(o) ==
    /\ Steps(o, "demote") /\ RestartServices({"magistral"}) /\ Proceed(o, "unguide")
    /\ UNCHANGED <<keyVars, mapped, dropins, units, changes, strayed>>

DemoteGuide(o) ==
    /\ Steps(o, "unguide") /\ RestartServices({"guide"}) /\ ChangeEnds(o)
    /\ UNCHANGED <<keyVars, mapped, dropins, units, changes, strayed>>

---------------------------------------------------------------------------
(* Others, and faults.                                                     *)

\* Whatever is set aside is older now.
Late == [o \in Admin |-> [change[o] EXCEPT !.late = @ \/ Steps(o, "append")]]

IssueKey ==
    /\ authority < MaxIssue /\ authority' = authority + 1 /\ change' = Late
    /\ UNCHANGED <<keyInForce, append, leftover, mapped, dropinVars, changes, strayed>>

\* The rollout of secrets, see SecretRollout, replaces every key line.
RollOut ==
    /\ keyInForce' = authority /\ change' = Late
    /\ UNCHANGED <<authority, append, leftover, mapped, dropinVars, changes, strayed>>

\* A command fails that nothing guards, or the script is killed.
ChangeDies(o) ==
    /\ ~Steps(o, "idle") /\ ChangeEnds(o) /\ strayed' = (strayed \/ Promoting(o))
    /\ leftover' = (leftover \/ (Steps(o, "append") /\ change[o].wrote))
    /\ UNCHANGED <<authority, keyInForce, append, mapped, dropinVars, changes>>

MagistralNext ==
    \/ IssueKey \/ RollOut
    \/ \E o \in Admin :
        \/ InstallMap(o) \/ PickToken(o) \/ AppendToken(o) \/ RestartMapped(o) \/ VerifyMap(o)
        \/ SaveDropins(o) \/ WriteDropin(o) \/ WriteGuideDropin(o) \/ LoadDropins(o)
        \/ PromoteMagistral(o) \/ AskServiceInfo(o) \/ PromoteGuide(o)
        \/ RestoreDropins(o) \/ UnloadDropins(o) \/ DemoteMagistral(o) \/ DemoteGuide(o)
        \/ ChangeDies(o)

MagistralSpec == MagistralInit /\ [][MagistralNext]_hostChangeVars

---------------------------------------------------------------------------
(* Properties.                                                             *)

\* The key in force goes back to an older one only where a newer one came
\* since a script set the older one aside, or where a script appends the key
\* that another one had set aside: one at work, or one that had ended early.
KeyGoesBackOnlyLate ==
    keyInForce' < keyInForce =>
        \E o \in Admin :
            /\ AppendToken(o)
            /\ \/ change[o].late
               \/ /\ ~change[o].wrote
                  /\ leftover \/ \E p \in Admin : Steps(p, "append") /\ change[p].wrote

\* With no promotion under way both services run with the drop-ins that are
\* there, and both have theirs or neither, unless one ended midway or two
\* crossed.
PromotedTogether ==
    ~strayed /\ (\A o \in Admin : ~Promoting(o)) =>
        dropins \in {{}, Served} /\ units = dropins /\ running = dropins

MagistralKept == []PromotedTogether /\ [][KeyGoesBackOnlyLate]_hostChangeVars

=============================================================================
