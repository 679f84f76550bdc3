---------------------------- MODULE Subscriptions ----------------------------
(***************************************************************************)
(* The subscription of one account: SubscriptionsService (subscriptions/   *)
(* subscriptions.service.ts) and its controller.  Plans are constants of   *)
(* the code; nothing ever ends a period, so there is no clock.             *)
(***************************************************************************)
EXTENDS Naturals

CONSTANTS
    Calls,         \* slots for concurrently running HTTP handlers
    CallsCanFail   \* TRUE: a handler may die at an await

VARIABLES
    sub,     \* the Subscription row, or None
    call,    \* the handlers in progress
    word     \* history: the last change or cancellation that was stored

subVars == <<sub, call, word>>

Tiers == {"FREE", "PRO", "VIP"}
None == [tier |-> "none", paid |-> FALSE, canceled |-> FALSE]
(* paid: currentPeriodEnd is set; canceled: status CANCELED and            *)
(* cancelAtPeriodEnd, which always go together.                            *)
Row(tier) == [tier |-> tier, paid |-> tier # "FREE", canceled |-> FALSE]

CallAt(r, pc) == call[r] = pc
GotoCall(r, pc) == call' = [call EXCEPT ![r] = pc]

SubInit == sub \in {None, Row("FREE")} /\ call = [r \in Calls |-> "idle"] /\ word = sub

(* getMine(): "Self-heal: every user should have at least a FREE row".     *)
GetMine(r) ==
    /\ CallAt(r, "idle")
    /\ GotoCall(r, IF sub = None THEN "create" ELSE "idle")
    /\ UNCHANGED <<sub, word>>

\* Faulty variant: the self-heal is an upsert.
CreateFree_Upsert(r) ==
    /\ CallAt(r, "create")
    /\ sub' = Row("FREE")
    /\ GotoCall(r, "idle")
    /\ UNCHANGED word

(* A row that appeared in the meantime stays: P2002.                       *)
CreateFree(r) ==
    /\ CallAt(r, "create")
    /\ sub' = IF sub = None THEN Row("FREE") ELSE sub
    /\ GotoCall(r, "idle")
    /\ UNCHANGED word

(* changeTier(): one upsert.                                               *)
ChangeTier(r, tier) ==
    /\ CallAt(r, "idle")
    /\ sub' = Row(tier) /\ word' = Row(tier)
    /\ UNCHANGED call

(* cancel(): a query, 404 without a row, and an update.                    *)
Cancel(r) ==
    /\ CallAt(r, "idle")
    /\ GotoCall(r, IF sub = None THEN "idle" ELSE "cancel")
    /\ UNCHANGED <<sub, word>>
SetCanceled(r) ==
    /\ CallAt(r, "cancel")
    /\ sub' = [sub EXCEPT !.canceled = TRUE] /\ word' = sub'
    /\ GotoCall(r, "idle")

CallFails(r) ==
    /\ CallsCanFail /\ call[r] # "idle"
    /\ GotoCall(r, "idle")
    /\ UNCHANGED <<sub, word>>

SubNext ==
    \E r \in Calls :
        \/ GetMine(r) \/ CreateFree(r) \/ Cancel(r) \/ SetCanceled(r) \/ CallFails(r)
        \/ \E tier \in Tiers : ChangeTier(r, tier)

SubSpec == SubInit /\ [][SubNext]_subVars

SubTypeOK ==
    /\ sub \in {None} \cup [tier : Tiers, paid : BOOLEAN, canceled : BOOLEAN]
    /\ call \in [Calls -> {"idle", "create", "cancel"}]
    /\ word \in {None} \cup [tier : Tiers, paid : BOOLEAN, canceled : BOOLEAN]

(* The row says what the user said last, through all the reads that heal   *)
(* a missing row: a tier that was chosen or canceled is not reset by one.  *)
SubscriptionIsLastWord ==
    /\ word # None => sub = word
    /\ word = None => sub \in {None, Row("FREE")}

=============================================================================
