------------------------------ MODULE MCAccounts ------------------------------
(* Instances for TLC of what an account goes through: the confirmation of   *)
(* its address (EmailVerification), sign-ins with Google (AccountLinking)   *)
(* and its subscription (Subscriptions).  They share no state that one of   *)
(* them changes for another, so a behaviour is about one of them, and one   *)
(* with Google either about the rows that other handlers change ("google")  *)
(* or about cookies.  A history variable tells the behaviours in which      *)
(* handlers of the confirmation run one at a time and none dies.            *)
EXTENDS EmailVerification, AccountLinking, Subscriptions, TLC

VARIABLES
    topic,
    calm    \* history: so far no two handlers overlapped and none died

all == <<topic, calm, vars, linkVars, subVars>>

\* Two addresses; one identity that changed its address, another that took it
\* over, and one that Google does not vouch for.
MCProfiles ==
    LET e1 == CHOOSE e \in Emails : TRUE
        e2 == CHOOSE e \in Emails : e # e1
        g1 == CHOOSE g \in GoogleIds : TRUE
        g2 == CHOOSE g \in GoogleIds : g # g1
        P(g, e, v) == [googleId |-> g, email |-> e, verified |-> v] IN
    {P(g1, e1, TRUE), P(g2, e1, TRUE), P(g1, e2, TRUE), P(g2, e2, FALSE)}

InProgress == {r \in Requests : req[r].pc \notin {"idle", "answered"}}

MCInit ==
    /\ topic \in {"confirmation", "google", "cookies", "subscription"}
    /\ calm = TRUE
    /\ Init /\ LinkInit /\ SubInit
    /\ topic # "subscription" => sub = None
MCNext ==
    /\ UNCHANGED topic
    /\ \/ topic = "confirmation" /\ Next
          /\ calm' = (calm /\ Cardinality(InProgress') <= 1 /\ ~\E r \in Requests : Fail(r))
          /\ UNCHANGED <<linkVars, subVars>>
       \/ /\ topic \in {"google", "cookies"}
          /\ LinkNext
          /\ topic = "google" => disturbed' = {} /\ \A n \in Flows : flow'[n].why # "denied"
          /\ topic = "cookies" => UNCHANGED acct \/ flow' # flow
          /\ UNCHANGED <<vars, calm, subVars>>
       \/ topic = "subscription" /\ SubNext /\ UNCHANGED <<vars, calm, linkVars>>
MCSpec == MCInit /\ [][MCNext]_all

Symmetry == Permutations(Requests) \cup Permutations(Accounts)

\* "Issuing a new code invalidates prior un-consumed ones (single active code per
\* user)" (email-verification.service.ts:13-14), of resends that do not overlap.
CalmOneActiveCode == calm => Cardinality(Outstanding) <= 1

\* When resend-code has answered, the newest mail holds the code that verify() will
\* compare with; an account that got confirmed keeps no outstanding code.
CalmNewestMailWorks ==
    calm /\ InProgress = {} =>
        /\ CalmOneActiveCode
        /\ IF verified THEN Outstanding = {} ELSE lastMail # NoCode => IsNewest(lastMail)

=============================================================================
