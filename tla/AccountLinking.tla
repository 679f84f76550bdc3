---------------------------- MODULE AccountLinking ----------------------------
(***************************************************************************)
(* Signing in with Google: AuthService.loginWithGoogle (auth/              *)
(* auth.service.ts), the strategy and the guard in front of it, the state  *)
(* cookie (auth/oauth-state.util.ts), and the page on which the browser    *)
(* lands (AuthCallbackPage.tsx), next to registrations, confirmations and  *)
(* deletions of the same accounts.                                         *)
(*                                                                         *)
(* A flow is one round trip of one browser; its number is its nonce.  On   *)
(* the server it is a sequence of statements.  An account records who set  *)
(* its password: the holder of its address, or somebody else who typed the *)
(* address in.  All local parts are equal, so that every new username has  *)
(* to be searched for: it is the suffix that uniqueUsername() found.       *)
(***************************************************************************)
EXTENDS Naturals, FiniteSets

CONSTANTS
    Accounts, NoAccount,
    Emails, NoEmail,
    GoogleIds, NoGoogle,
    Profiles,       \* what Google may say: [googleId, email, verified]
    Browsers,
    Flows,          \* 1..n: the flows of a run, started in this order
    FlowsCanFail    \* TRUE: the handler of a callback may die at an await

ASSUME AccountLinkingAssumption ==
    /\ NoAccount \notin Accounts /\ NoEmail \notin Emails /\ NoGoogle \notin GoogleIds
    /\ Profiles \subseteq [googleId : GoogleIds, email : Emails, verified : BOOLEAN]
    /\ Profiles # {} /\ Browsers # {}
    /\ Flows \subseteq Nat \ {0}
    /\ FlowsCanFail \in BOOLEAN

VARIABLES
    acct,       \* the User rows; Absent when there is none
    flow,       \* the flows
    cookie,     \* epta_oauth_state of each browser, 0 when there is none
    session,    \* the account in each browser's token store
    disturbed   \* flows whose cookie expired, or that met another of their browser

linkVars == <<acct, flow, cookie, session, disturbed>>

Absent == [email |-> NoEmail, name |-> 0, google |-> NoGoogle, verified |-> FALSE,
           password |-> "none", status |-> "absent"]
New == [pc |-> "new", at |-> CHOOSE b \in Browsers : TRUE, who |-> CHOOSE p \in Profiles : TRUE,
        acct |-> NoAccount, name |-> 0, why |-> "none"]

Rows == {a \in Accounts : acct[a].status # "absent"}
GotoFlow(n, pc) == flow' = [flow EXCEPT ![n].pc = pc]
With(n, pc, a) == flow' = [flow EXCEPT ![n].pc = pc, ![n].acct = a]
Refuse(n, why) == flow' = [flow EXCEPT ![n].pc = "respond", ![n].why = why, ![n].acct = NoAccount]
\* A flow that is over leaves nothing but its outcome.
End(n, pc, why) == flow' = [flow EXCEPT ![n] = [New EXCEPT !.pc = pc, !.why = why]]
Running(n) == flow[n].pc \notin {"new", "landed", "refused"}

(* The database keeps e-mails, usernames and Google identities unique.     *)
Taken(email, name, google) ==
    \E a \in Rows :
        acct[a].email = email \/ acct[a].name = name \/ (google # NoGoogle /\ acct[a].google = google)
Insert(row) == \E a \in Accounts \ Rows : acct' = [acct EXCEPT ![a] = row]

LinkInit ==
    /\ acct = [a \in Accounts |-> Absent]
    /\ flow = [n \in Flows |-> New]
    /\ cookie = [b \in Browsers |-> 0]
    /\ session = [b \in Browsers |-> NoAccount]
    /\ disturbed = {}

-----------------------------------------------------------------------------
(* register(): the account is one insert, refused when it collides.        *)
RegisterAccount(email, name, by) ==
    /\ ~Taken(email, name, NoGoogle)
    /\ Insert([email |-> email, name |-> name, google |-> NoGoogle, verified |-> FALSE,
               password |-> by, status |-> "active"])
    /\ UNCHANGED <<flow, cookie, session, disturbed>>

(* verify(): the code is in the inbox of the holder.                       *)
VerifyEmail(a) ==
    /\ acct[a].status = "active" /\ acct[a].password = "holder" /\ ~acct[a].verified
    /\ acct' = [acct EXCEPT ![a].verified = TRUE]
    /\ UNCHANGED <<flow, cookie, session, disturbed>>

(* deleteAccount(), which asks for the password: e-mail and username are   *)
(* freed, the Google identity is not.                                      *)
DeleteAccount(a) ==
    /\ acct[a].status = "active" /\ acct[a].password # "none"
    /\ acct' = [acct EXCEPT ![a] = [@ EXCEPT !.email = NoEmail, !.name = 0,
                                             !.password = "none", !.status = "deleted"]]
    /\ UNCHANGED <<flow, cookie, session, disturbed>>

-----------------------------------------------------------------------------
FlowStarts(n, b, nonce) ==
    /\ flow[n].pc = "new" /\ \A m \in 1..(n - 1) : flow[m].pc # "new"
    /\ flow' = [flow EXCEPT ![n].pc = "consent", ![n].at = b]
    /\ cookie' = [cookie EXCEPT ![b] = nonce]
    /\ LET others == {m \in Flows : Running(m) /\ flow[m].at = b} IN
         disturbed' = disturbed \cup others \cup (IF others = {} THEN {} ELSE {n})
    /\ UNCHANGED <<acct, session>>

\* Faulty variant: a cookie that is there already is kept.
StartGoogle_Keep(n, b) == FlowStarts(n, b, IF cookie[b] = 0 THEN n ELSE cookie[b])

(* GET /auth/google: the guard mints the nonce; a browser has one cookie.  *)
StartGoogle(n, b) == FlowStarts(n, b, n)
CookieExpires(b) ==
    /\ cookie[b] # 0
    /\ cookie' = [cookie EXCEPT ![b] = 0]
    /\ disturbed' = disturbed \cup {cookie[b]}
    /\ UNCHANGED <<acct, flow, session>>

(* Google sends the browser back with a profile, or with an error.         *)
Consent(n, p) ==
    /\ flow[n].pc = "consent"
    /\ flow' = [flow EXCEPT ![n].pc = "callback", ![n].who = p]
    /\ UNCHANGED <<acct, cookie, session, disturbed>>
Deny(n) ==
    /\ flow[n].pc = "consent"
    /\ End(n, "refused", "denied")
    /\ UNCHANGED <<acct, cookie, session, disturbed>>

(* validate() of the strategy: an address that Google does not vouch for   *)
(* goes no further.                                                        *)
Vouched(n) == flow[n].who.verified
(* readCookie() and statesMatch(): a missing cookie never matches.         *)
StatesMatch(n) == cookie[flow[n].at] = n

(* validate() runs in the guard; then the states are compared.             *)
Callback(n) ==
    /\ flow[n].pc = "callback"
    /\ IF ~Vouched(n) THEN End(n, "refused", "denied")
       ELSE IF StatesMatch(n) THEN GotoFlow(n, "byGoogle")
       ELSE Refuse(n, "invalid_state")
    /\ UNCHANGED <<acct, cookie, session, disturbed>>

SignInAs(n, a) == IF acct'[a].status = "active" THEN With(n, "issue", a) ELSE Refuse(n, "inactive")

(* 1. "Returning Google user".                                             *)
FindByGoogle(n) ==
    /\ flow[n].pc = "byGoogle"
    /\ UNCHANGED <<acct, cookie, session, disturbed>>
    /\ IF \E a \in Rows : acct[a].google = flow[n].who.googleId
         THEN \E a \in Rows : acct[a].google = flow[n].who.googleId /\ SignInAs(n, a)
         ELSE GotoFlow(n, "byEmail")

\* Faulty variant: an account that was never confirmed is linked as well.
FindByEmail_Unverified(n) ==
    /\ flow[n].pc = "byEmail"
    /\ IF \E a \in Rows : acct[a].email = flow[n].who.email
         THEN \E a \in Rows : acct[a].email = flow[n].who.email /\ With(n, "link", a)
         ELSE GotoFlow(n, "probe")
    /\ UNCHANGED <<acct, cookie, session, disturbed>>

(* 2. A local account on this address, which has to be confirmed.          *)
FindByEmail(n) ==
    /\ flow[n].pc = "byEmail"
    /\ IF \E a \in Rows : acct[a].email = flow[n].who.email
         THEN \E a \in Rows :
                /\ acct[a].email = flow[n].who.email
                /\ IF acct[a].verified THEN With(n, "link", a) ELSE Refuse(n, "unverified")
         ELSE GotoFlow(n, "probe")
    /\ UNCHANGED <<acct, cookie, session, disturbed>>

(* The row is updated by its id, whatever became of it; the status is      *)
(* looked at afterwards.                                                   *)
Link(n) ==
    LET a == flow[n].acct
        g == flow[n].who.googleId IN
    /\ flow[n].pc = "link"
    /\ IF \E o \in Rows \ {a} : acct[o].google = g
         THEN Refuse(n, "conflict") /\ UNCHANGED acct
         ELSE acct' = [acct EXCEPT ![a].google = g] /\ SignInAs(n, a)
    /\ UNCHANGED <<cookie, session, disturbed>>

(* 3. uniqueUsername() looks for a free name, and create() may find it     *)
(* taken by then.                                                          *)
ProbeUsername(n) ==
    /\ flow[n].pc = "probe"
    /\ LET next == flow[n].name + 1 IN
         IF \E a \in Rows : acct[a].name = next
           THEN flow' = [flow EXCEPT ![n].name = next]
           ELSE flow' = [flow EXCEPT ![n].name = next, ![n].pc = "create"]
    /\ UNCHANGED <<acct, cookie, session, disturbed>>
CreateAccount(n) ==
    LET p == flow[n].who IN
    /\ flow[n].pc = "create"
    /\ IF Taken(p.email, flow[n].name, p.googleId) \/ Rows = Accounts
         THEN Refuse(n, "conflict") /\ UNCHANGED acct
         ELSE \E a \in Accounts \ Rows :
                /\ acct' = [acct EXCEPT ![a] =
                     [email |-> p.email, name |-> flow[n].name, google |-> p.googleId,
                      verified |-> TRUE, password |-> "none", status |-> "active"]]
                /\ With(n, "issue", a)
    /\ UNCHANGED <<cookie, session, disturbed>>

(* issuePair() (module RefreshTokens), and the redirect.                   *)
IssuePair(n) ==
    /\ flow[n].pc = "issue"
    /\ GotoFlow(n, "respond")
    /\ UNCHANGED <<acct, cookie, session, disturbed>>

(* The answer clears the cookie, whichever flow it belongs to; the page    *)
(* stores the tokens, which take the place of an earlier session, and      *)
(* asks /auth/me for the user.                                             *)
Land(n) ==
    LET b == flow[n].at IN
    /\ flow[n].pc = "respond"
    /\ cookie' = [cookie EXCEPT ![b] = 0]
    /\ session' = IF flow[n].acct = NoAccount THEN session ELSE [session EXCEPT ![b] = flow[n].acct]
    /\ End(n, IF flow[n].acct # NoAccount /\ acct[flow[n].acct].status = "active"
              THEN "landed" ELSE "refused", flow[n].why)
    /\ UNCHANGED <<acct, disturbed>>

FlowFails(n) ==
    /\ FlowsCanFail
    /\ flow[n].pc \in {"byGoogle", "byEmail", "link", "probe", "create", "issue"}
    /\ Refuse(n, "error")
    /\ UNCHANGED <<acct, cookie, session, disturbed>>

Step(n) ==
    \/ \E p \in Profiles : Consent(n, p)
    \/ Deny(n) \/ Callback(n) \/ FindByGoogle(n) \/ FindByEmail(n) \/ Link(n)
    \/ ProbeUsername(n) \/ CreateAccount(n) \/ IssuePair(n) \/ Land(n) \/ FlowFails(n)

LinkNext ==
    \/ \E n \in Flows : Step(n) \/ \E b \in Browsers : StartGoogle(n, b)
    \/ \E b \in Browsers : CookieExpires(b)
    \/ \E e \in Emails, name \in Flows, by \in {"holder", "other"} : RegisterAccount(e, name, by)
    \/ \E a \in Accounts : VerifyEmail(a) \/ DeleteAccount(a)

LinkSpec == LinkInit /\ [][LinkNext]_linkVars

-----------------------------------------------------------------------------
Account == [email : Emails \cup {NoEmail}, name : Nat, google : GoogleIds \cup {NoGoogle},
            verified : BOOLEAN, password : {"none", "holder", "other"},
            status : {"absent", "active", "deleted"}]
Flow == [pc : {"new", "consent", "callback", "byGoogle", "byEmail", "link", "probe", "create",
               "issue", "respond", "landed", "refused"},
         at : Browsers, who : Profiles, acct : Accounts \cup {NoAccount}, name : Nat,
         why : {"none", "denied", "invalid_state", "inactive", "unverified", "conflict", "error"}]

(* Every variable keeps its type; flows and browsers refer to rows there   *)
(* are, and just the active accounts have an address.                      *)
LinkTypeOK ==
    /\ acct \in [Accounts -> Account] /\ flow \in [Flows -> Flow]
    /\ cookie \in [Browsers -> Flows \cup {0}]
    /\ session \in [Browsers -> Accounts \cup {NoAccount}]
    /\ disturbed \subseteq Flows
    /\ \A a \in Accounts : acct[a].status = "active" <=> acct[a].email # NoEmail
    /\ \A n \in Flows : flow[n].acct \in Rows \cup {NoAccount}
    /\ \A b \in Browsers : session[b] \in Rows \cup {NoAccount}

(* "Linking to an unverified, possibly squatted account would hand it to   *)
(* whoever owns the Google email": an account that a Google identity opens,*)
(* or that a browser came back signed in to, never has a password that     *)
(* somebody else than the holder of its address has set, whatever is       *)
(* registered, confirmed and deleted between the statements of a flow; and *)
(* the rows, flows and sessions agree.                                     *)
LinkedByHolder ==
    /\ LinkTypeOK
    /\ \A a \in Rows :
          acct[a].google # NoGoogle \/ (\E b \in Browsers : session[b] = a)
              => acct[a].password # "other"

(* A sign-in is refused for its state only if another flow of the same     *)
(* browser overlapped with it or its cookie expired.  (Then the answer to  *)
(* the older flow may clear the cookie of the newer one, and both fail.)   *)
LoneSignInIsNotRefused ==
    \A n \in Flows : flow[n].why = "invalid_state" => n \in disturbed

=============================================================================
