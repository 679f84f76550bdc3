---------------------------- MODULE SessionClient ----------------------------
(***************************************************************************)
(* The browser's side of a session, composed with RefreshTokens: request() *)
(* and tryRefresh() (frontend/src/api/http.ts), the token store in         *)
(* localStorage (api/tokenStore.ts), logout() (api/auth.ts) and the check  *)
(* of the session when the page loads (auth/AuthContext.tsx).              *)
(*                                                                         *)
(* One user, one browser, no one else: every token that reaches the server *)
(* comes out of this store.  A call owns a slot of the server; several     *)
(* calls (components of a page, tabs) run at once and share the store.     *)
(* Between an await of a call and its continuation the store may change.   *)
(*                                                                         *)
(* Abstracted: what the calls ask for.  A call is of interest from the     *)
(* moment its access token was refused with 401.                           *)
(***************************************************************************)
EXTENDS RefreshTokens

CONSTANTS
    Visitor,   \* the user of this browser
    CanLose    \* TRUE: the network may lose requests and answers

ASSUME SessionClientAssumption == Visitor \in Users /\ CanLose \in BOOLEAN

VARIABLES
    stored,   \* localStorage: the refresh token, NoToken for none
    valid,    \* the stored access token has not expired
    call,     \* what the client awaits on each connection
    left,     \* history: the sessions the user has signed out of
    ended     \* history: those of them whose end the server has confirmed

clientVars == <<stored, valid, call, left, ended>>
allVars == <<vars, clientVars>>

\* The calls that were refused and those that wait for a new token pair; a "boot"
\* call is the getMe() of a page that loads.
Refused    == {"refused", "bootRefused"}
Refreshing == {"refreshing", "bootRefreshing"}
Call == {"none", "signIn", "signOut", "signOutLost"} \cup Refused \cup Refreshing

SignedIn == stored # NoToken
Awaits(r, kind) == call' = [call EXCEPT ![r] = kind]

ClientInit ==
    /\ Init
    /\ stored = NoToken
    /\ valid = FALSE
    /\ call = [r \in Requests |-> "none"]
    /\ left = {} /\ ended = {}

clearSession == stored' = NoToken /\ valid' = FALSE
saveTokens(t) == stored' = t /\ valid' = TRUE

-----------------------------------------------------------------------------
(* The login page, shown to a visitor without a session.                   *)
SignIn(r) ==
    /\ call[r] = "none" /\ ~SignedIn
    /\ Login(r, Visitor, password[Visitor])
    /\ Awaits(r, "signIn")
    /\ UNCHANGED <<stored, valid, left, ended>>

(* Fifteen minutes pass.                                                   *)
AccessExpires ==
    /\ valid
    /\ valid' = FALSE
    /\ UNCHANGED <<vars, stored, call, left, ended>>

(* request(), or getMe() on page load, is answered 401.                    *)
Refuse(r, kind) ==
    /\ call[r] = "none" /\ req[r].pc = "idle"
    /\ SignedIn /\ ~valid
    /\ Awaits(r, kind)
    /\ UNCHANGED <<vars, stored, valid, left, ended>>

(* tryRefresh(): the store is read after the 401 arrived.                  *)
TryRefresh(r) ==
    /\ call[r] \in Refused
    /\ IF SignedIn
         THEN /\ PresentToken(r, stored)
              /\ Awaits(r, IF call[r] = "refused" THEN "refreshing" ELSE "bootRefreshing")
         ELSE Awaits(r, "none") /\ UNCHANGED vars
    /\ UNCHANGED <<stored, valid, left, ended>>

\* Faulty variant: the old refresh token is kept.
Refreshed_KeepToken(r) ==
    /\ call[r] \in Refreshing
    /\ IF req[r].answer = "ok" THEN valid' = TRUE /\ UNCHANGED stored ELSE clearSession
    /\ Awaits(r, "none")
    /\ Finish(r)
    /\ UNCHANGED <<left, ended>>

\* Faulty variant: a call whose refresh failed tries again.
Refreshed_Retry(r) ==
    /\ call[r] \in Refreshing
    /\ IF req[r].answer = "ok" THEN saveTokens(req[r].child) /\ Awaits(r, "none")
                               ELSE UNCHANGED <<stored, valid>> /\ Awaits(r, "refused")
    /\ Finish(r)
    /\ UNCHANGED <<left, ended>>

(* The answer of the refresh: new tokens are stored, whatever the store    *)
(* holds by now; any other answer clears the session.                      *)
Refreshed(r) ==
    /\ call[r] \in Refreshing
    /\ IF req[r].answer = "ok" THEN saveTokens(req[r].child) ELSE clearSession
    /\ Awaits(r, "none")
    /\ Finish(r)
    /\ UNCHANGED <<left, ended>>

(* The answer of the login: saveSession().                                 *)
SignedInAnswer(r) ==
    /\ call[r] = "signIn"
    /\ IF req[r].answer = "ok" THEN saveTokens(req[r].child) ELSE UNCHANGED <<stored, valid>>
    /\ Awaits(r, "none")
    /\ Finish(r)
    /\ UNCHANGED <<left, ended>>

(* logout(): the token that is stored now is sent.                         *)
SignOut(r) ==
    /\ call[r] = "none" /\ SignedIn
    /\ \/ Logout(r, stored) /\ Awaits(r, "signOut")
       \/ /\ CanLose /\ req[r].pc = "idle"
          /\ Awaits(r, "signOutLost")
          /\ UNCHANGED vars
    /\ left' = left \cup {FamilyOf(stored)}
    /\ UNCHANGED <<stored, valid, ended>>

\* Faulty variant: the store is cleared only when the server has answered 204.
SignedOut_OnSuccess(r) ==
    /\ call[r] = "signOut"
    /\ IF req[r].answer = "ok" THEN clearSession ELSE UNCHANGED <<stored, valid>>
    /\ ended' = IF req[r].answer = "ok" THEN ended \cup {FamilyOf(req[r].token)} ELSE ended
    /\ Awaits(r, "none")
    /\ Finish(r)
    /\ UNCHANGED left

(* logout() continues: whatever was answered, and also when the request    *)
(* was lost, the store is cleared; nothing tries again.                    *)
SignedOut(r) ==
    /\ \/ /\ call[r] = "signOut"
          /\ Finish(r)
          /\ ended' = IF req[r].answer = "ok" THEN ended \cup {FamilyOf(req[r].token)} ELSE ended
       \/ call[r] = "signOutLost" /\ UNCHANGED <<vars, ended>>
    /\ clearSession
    /\ Awaits(r, "none")
    /\ UNCHANGED left

(* The network drops the request or the answer: fetch() rejects.           *)
(* tryRefresh() passes the exception on and leaves the store alone; a      *)
(* loading page and logout() clear it.                                     *)
RequestLost(r) ==
    /\ CanLose
    /\ call[r] \in Refused
    /\ IF call[r] = "bootRefused" THEN clearSession ELSE UNCHANGED <<stored, valid>>
    /\ Awaits(r, "none")
    /\ UNCHANGED <<vars, left, ended>>
AnswerLost(r) ==
    /\ CanLose
    /\ call[r] \in {"signIn", "signOut"} \cup Refreshing
    /\ IF call[r] \in {"signOut", "bootRefreshing"} THEN clearSession ELSE UNCHANGED <<stored, valid>>
    /\ Awaits(r, "none")
    /\ Finish(r)
    /\ UNCHANGED <<left, ended>>

(* A page that loads clears the session when its getMe() fails for any     *)
(* other reason: no connection, a 500, the retry after a refresh.          *)
PageLoadFails ==
    /\ CanLose \/ CanFail
    /\ SignedIn
    /\ clearSession
    /\ UNCHANGED <<vars, call, left, ended>>

-----------------------------------------------------------------------------
ServerStep(r) == (Serve(r) \/ Fail(r)) /\ UNCHANGED clientVars

ClientStep(r) ==
    \/ SignIn(r) \/ SignOut(r)
    \/ \E kind \in Refused : Refuse(r, kind)
    \/ TryRefresh(r)
    \/ Refreshed(r) \/ SignedInAnswer(r) \/ SignedOut(r)
    \/ RequestLost(r) \/ AnswerLost(r)

ClientNext ==
    \/ \E r \in Requests : ClientStep(r) \/ ServerStep(r)
    \/ AccessExpires \/ PageLoadFails
    \/ Tick /\ UNCHANGED clientVars

ClientSpec == ClientInit /\ [][ClientNext]_allVars

\* The server runs its handlers and the browser the continuations of its calls.
Continue(r) ==
    \/ Serve(r) /\ UNCHANGED clientVars
    \/ TryRefresh(r) \/ Refreshed(r) \/ SignedInAnswer(r) \/ SignedOut(r)

-----------------------------------------------------------------------------
(* Properties                                                              *)

\* Type correctness of the client's variables on top of the server's.
ClientTypeOK ==
    /\ TypeOK
    /\ stored \in Minted \cup {NoToken}
    /\ valid \in BOOLEAN
    /\ call \in [Requests -> Call]
    /\ left \subseteq Minted /\ ended \subseteq left
    /\ \A r \in Requests : call[r] \in {"none", "signOutLost"} \cup Refused <=> req[r].pc = "idle"

\* "A revoked token being presented again means it was stolen and replayed"
\* (token.service.ts:68): the browser never presents one of a session its user is
\* still in, so that session is not taken for a thief's and closed.
HonestClientNeverReplays ==
    \A r \in Requests : req[r].pc = "revokeFamily" => FamilyOf(req[r].token) \in left

NothingPending == \A r \in Requests : call[r] = "none"

\* While no call is pending the stored token is the live one of its session: a
\* refresh that failed half-way has cleared it.  (http.ts tryRefresh)
StoredTokenIsLive == NothingPending /\ SignedIn => stored \notin revoked

\* logout() "revokes the refresh token on the server and clears the local session"
\* (frontend/src/api/auth.ts:55): once no call is pending, the store keeps no token of a
\* session the user signed out of, and when the server has confirmed it, no token of the
\* session is usable.  When the request fails or is lost the catch clause swallows that:
\* the session lives on at the server until its token expires.
SignOutEndsSession ==
    NothingPending =>
        /\ SignedIn => FamilyOf(stored) \notin left
        /\ \A f \in ended : \A t \in FamilyMembers(f) : t \in revoked \/ Expired(t)

\* Every call the user makes settles: a refresh is tried once, never in a loop,
\* and each answer or failure of the server lets the call end.
EveryCallSettles == \A r \in Requests : call[r] # "none" ~> call[r] = "none"

=============================================================================
