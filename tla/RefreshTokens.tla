---------------------------- MODULE RefreshTokens ----------------------------
(***************************************************************************)
(* The refresh-token lifecycle of the backend: TokenService                *)
(* (auth/services/token.service.ts) and the handlers that open, rotate and *)
(* end sessions through it (AuthService.login/refresh/logout, the          *)
(* logout-all route, UsersService.changePassword and deleteAccount).       *)
(*                                                                         *)
(* Every handler is an async function over PostgreSQL: between two awaits  *)
(* any other handler may run, and each statement commits by itself.  In    *)
(* particular rotate() wraps its two writes in $transaction(async () =>    *)
(* ...) but issues them through this.prisma, not through the transaction   *)
(* client, so the insert of the child and the revocation of the parent are *)
(* two commits.  One action below is one database statement together with  *)
(* the local checks that follow it up to the next await.                   *)
(*                                                                         *)
(* Abstracted: JWT signing, hashing and token strings.  A token is its jti;*)
(* jtis are numbered in the order the rows are inserted (the code draws    *)
(* fresh UUIDs) and a family is named after its first token.  A password   *)
(* is a version number.                                                    *)
(***************************************************************************)
EXTENDS Naturals

CONSTANTS
    Users,          \* accounts that already exist
    NoUser,         \* no account: the value of an unused user field
    Requests,       \* slots for concurrently running HTTP handlers
    MaxTokens,      \* bound: refresh-token rows that can be inserted
    MaxTime,        \* bound: value the clock stops at
    Ttl,            \* lifetime of a refresh token in clock units
    MaxPasswords,   \* bound: password changes per user
    CanFail         \* TRUE: a handler may die at an await (crash, lost
                    \* database connection, transaction timeout)

ASSUME BoundsAssumption ==
    /\ MaxTokens \in Nat
    /\ MaxTime \in Nat
    /\ Ttl \in Nat
    /\ MaxPasswords \in Nat
    /\ CanFail \in BOOLEAN
    /\ NoUser \notin Users

VARIABLES
    minted,      \* number of rows in RefreshToken: the jtis are 1..minted
    grant,       \* the immutable columns of each row: user, family, expiry
    revoked,     \* the rows whose revokedAt is set
    replacedBy,  \* replacedById of each row, 0 for NULL
    status,      \* User.status
    password,    \* User.passwordHash
    now,         \* Date.now()
    req,         \* the handlers in progress
    epoch        \* history: the password version a session was opened with

tokenVars == <<minted, grant, revoked, replacedBy, epoch>>
userVars  == <<status, password>>
vars == <<tokenVars, userVars, now, req>>

Token == 1..MaxTokens
Minted == 1..minted
NoToken == 0

FamilyOf(t) == grant[t].family
OwnerOf(t)  == grant[t].user
Live == Minted \ revoked
FamilyMembers(f) == {t \in Minted : FamilyOf(t) = f}
TokensOf(u) == {t \in Minted : OwnerOf(t) = u}

\* jwt.verifyAsync refuses an expired token; createPair gives the row the same
\* lifetime, so the expiresAt test of rotate() asks the same question again.
Expired(t) == now >= grant[t].expires

Idle == [pc |-> "idle", user |-> NoUser, token |-> NoToken,
         child |-> NoToken, pass |-> 0, answer |-> "none"]

PC == {"idle", "refresh", "insertChild", "retire", "respond", "revokeFamily",
       "revokeOne", "openSession", "writePassword", "tombstone", "revokeAll", "answered"}
Answer == {"none", "ok", "unauthorized", "reuse", "error"}

Request == [pc : PC, user : Users \cup {NoUser}, token : 0..MaxTokens,
            child : 0..MaxTokens, pass : 0..MaxPasswords, answer : Answer]

-----------------------------------------------------------------------------
Init ==
    /\ minted = 0
    /\ grant = [t \in Token |-> [user |-> NoUser, family |-> NoToken, expires |-> 0]]
    /\ revoked = {}
    /\ replacedBy = [t \in Token |-> NoToken]
    /\ status = [u \in Users |-> "ACTIVE"]
    /\ password = [u \in Users |-> 0]
    /\ now = 0
    /\ req = [r \in Requests |-> Idle]
    /\ epoch = [t \in Token |-> 0]

\* Handler r starts, for account u or token t, and reaches the point pc.
Enter(r, pc, u, t, p) ==
    req' = [req EXCEPT ![r] = [pc |-> pc, user |-> u, token |-> t,
                               child |-> NoToken, pass |-> p, answer |-> "none"]]

\* Handler r leaves its current await for the program point pc.
Goto(r, pc) == req' = [req EXCEPT ![r].pc = pc]
\* Handler r answers; of its locals only the token named by the answer is kept.
AnswerAbout(r, a, token, child) ==
    req' = [req EXCEPT ![r] = [pc |-> "answered", user |-> NoUser, token |-> token,
                               child |-> child, pass |-> 0, answer |-> a]]
AnswerWith(r, a) == AnswerAbout(r, a, NoToken, NoToken)

-----------------------------------------------------------------------------
(* createPair(): insert one row.                                           *)
InsertRow(u, f, e) ==
    /\ minted < MaxTokens
    /\ minted' = minted + 1
    /\ grant' = [grant EXCEPT ![minted + 1] =
                    [user |-> u, family |-> f, expires |-> now + Ttl]]
    /\ epoch' = [epoch EXCEPT ![minted + 1] = e]
    /\ UNCHANGED <<revoked, replacedBy>>

(* UPDATE ... SET revokedAt WHERE id IN S AND revokedAt IS NULL.           *)
RevokeRows(S) ==
    /\ revoked' = revoked \cup S
    /\ UNCHANGED <<minted, grant, replacedBy, epoch>>

-----------------------------------------------------------------------------
\* Faulty variant: a deleted account is not turned away.
Login_NoStatusCheck(r, u, p) ==
    /\ req[r].pc = "idle"
    /\ p = password[u]
    /\ Enter(r, "openSession", u, NoToken, p)
    /\ UNCHANGED <<tokenVars, userVars, now>>

(* login() and loginWithGoogle(): the credential and status checks on the  *)
(* user row that was read; the row is not read again before the insert.  A *)
(* Google sign-in asks for no password: it is a login with the one in force*)
Login(r, u, p) ==
    /\ req[r].pc = "idle"
    /\ IF p = password[u] /\ status[u] = "ACTIVE"
         THEN Enter(r, "openSession", u, NoToken, p)
         ELSE AnswerWith(r, "unauthorized")
    /\ UNCHANGED <<tokenVars, userVars, now>>

(* issuePair(): the first token of a new family.                           *)
OpenSession(r) ==
    /\ req[r].pc = "openSession"
    /\ InsertRow(req[r].user, minted + 1, req[r].pass)
    /\ AnswerAbout(r, "ok", NoToken, minted + 1)
    /\ UNCHANGED <<userVars, now>>

-----------------------------------------------------------------------------
(* POST /auth/refresh arrives carrying a token its holder was given.       *)
PresentToken(r, t) ==
    /\ req[r].pc = "idle"
    /\ Enter(r, "refresh", NoUser, t, 0)
    /\ UNCHANGED <<tokenVars, userVars, now>>

\* Faulty variant: revokedAt is not looked at.
RotateRead_NoReuseCheck(r) ==
    /\ req[r].pc = "refresh"
    /\ IF Expired(req[r].token) THEN AnswerWith(r, "unauthorized")
                                ELSE Goto(r, "insertChild")
    /\ UNCHANGED <<tokenVars, userVars, now>>

(* rotate() up to its first write: verify, read the row, and decide on the *)
(* snapshot.                                                               *)
RotateRead(r) ==
    LET t == req[r].token IN
    /\ req[r].pc = "refresh"
    /\ CASE Expired(t)                     -> AnswerWith(r, "unauthorized")
         [] ~Expired(t) /\ t \in revoked   -> Goto(r, "revokeFamily")
         [] OTHER                          -> Goto(r, "insertChild")
    /\ UNCHANGED <<tokenVars, userVars, now>>

(* Reuse detection: revokeFamily(), then 403.                              *)
RevokeFamily(r) ==
    /\ req[r].pc = "revokeFamily"
    /\ RevokeRows(FamilyMembers(FamilyOf(req[r].token)))
    /\ AnswerAbout(r, "reuse", req[r].token, NoToken)
    /\ UNCHANGED <<userVars, now>>

\* Faulty variant: rotation calls issuePair() and opens a family of its own.
RotateInsert_NewFamily(r) ==
    LET t == req[r].token IN
    /\ req[r].pc = "insertChild"
    /\ InsertRow(OwnerOf(t), minted + 1, epoch[t])
    /\ req' = [req EXCEPT ![r].pc = "retire", ![r].child = minted + 1]
    /\ UNCHANGED <<userVars, now>>

(* rotate(), first write: the child token, in the parent's family.         *)
RotateInsert(r) ==
    LET t == req[r].token IN
    /\ req[r].pc = "insertChild"
    /\ InsertRow(OwnerOf(t), FamilyOf(t), epoch[t])
    /\ req' = [req EXCEPT ![r].pc = "retire", ![r].child = minted + 1]
    /\ UNCHANGED <<userVars, now>>

\* Faulty variant: the old row is linked but not revoked.
RotateRetire_LinkOnly(r) ==
    /\ req[r].pc = "retire"
    /\ replacedBy' = [replacedBy EXCEPT ![req[r].token] = req[r].child]
    /\ Goto(r, "respond")
    /\ UNCHANGED <<minted, grant, revoked, epoch, userVars, now>>

(* rotate(), second write: the update is unconditional on revokedAt.       *)
RotateRetire(r) ==
    LET t == req[r].token IN
    /\ req[r].pc = "retire"
    /\ revoked' = revoked \cup {t}
    /\ replacedBy' = [replacedBy EXCEPT ![t] = req[r].child]
    /\ Goto(r, "respond")
    /\ UNCHANGED <<minted, grant, epoch, userVars, now>>

(* The COMMIT of the (empty) transaction and refresh()'s profile lookup.   *)
Respond(r) ==
    /\ req[r].pc = "respond"
    /\ AnswerAbout(r, "ok", NoToken, req[r].child)
    /\ UNCHANGED <<tokenVars, userVars, now>>

-----------------------------------------------------------------------------
(* revoke(), the logout of one session: an expired token is ignored, ...   *)
Logout(r, t) ==
    /\ req[r].pc = "idle"
    /\ IF Expired(t) THEN AnswerAbout(r, "ok", t, NoToken) ELSE Enter(r, "revokeOne", NoUser, t, 0)
    /\ UNCHANGED <<tokenVars, userVars, now>>

(* ... and any other one is revoked once it is verified.                   *)
RevokeOne(r) ==
    /\ req[r].pc = "revokeOne"
    /\ RevokeRows({req[r].token})
    /\ AnswerAbout(r, "ok", req[r].token, NoToken)
    /\ UNCHANGED <<userVars, now>>

(* JwtStrategy.validate() reads the account at the start of every request  *)
(* that carries an access token.                                           *)
Admitted(u) == status[u] = "ACTIVE"

(* The logout-all route.                                                   *)
LogoutAll(r, u) ==
    /\ req[r].pc = "idle"
    /\ Admitted(u)
    /\ Enter(r, "revokeAll", u, NoToken, 0)
    /\ UNCHANGED <<tokenVars, userVars, now>>

(* changePassword(): read the row and verify the current password.         *)
ChangePassword(r, u, p) ==
    /\ req[r].pc = "idle"
    /\ Admitted(u)
    /\ IF p = password[u]
         THEN Enter(r, "writePassword", u, NoToken, 0)
         ELSE AnswerWith(r, "unauthorized")
    /\ UNCHANGED <<tokenVars, userVars, now>>

\* Faulty variant: the sessions are left alone.
WritePassword_KeepSessions(r) ==
    LET u == req[r].user IN
    /\ req[r].pc = "writePassword"
    /\ password[u] < MaxPasswords
    /\ password' = [password EXCEPT ![u] = @ + 1]
    /\ AnswerWith(r, "ok")
    /\ UNCHANGED <<tokenVars, status, now>>

(* changePassword(): store the new hash, whatever the row now holds.       *)
WritePassword(r) ==
    LET u == req[r].user IN
    /\ req[r].pc = "writePassword"
    /\ password[u] < MaxPasswords
    /\ password' = [password EXCEPT ![u] = @ + 1]
    /\ Goto(r, "revokeAll")
    /\ UNCHANGED <<tokenVars, status, now>>

(* deleteAccount(): read the row and verify the password.                  *)
DeleteAccount(r, u, p) ==
    /\ req[r].pc = "idle"
    /\ Admitted(u)
    /\ IF p = password[u]
         THEN Enter(r, "tombstone", u, NoToken, 0)
         ELSE AnswerWith(r, "unauthorized")
    /\ UNCHANGED <<tokenVars, userVars, now>>

(* deleteAccount(): the transaction that anonymizes the account.  The new  *)
(* email and the random hash keep a password login out once more; a Google *)
(* sign-in, found by the googleId that stays, meets the status check.      *)
Tombstone(r) ==
    /\ req[r].pc = "tombstone"
    /\ status' = [status EXCEPT ![req[r].user] = "DELETED"]
    /\ Goto(r, "revokeAll")
    /\ UNCHANGED <<tokenVars, password, now>>

(* revokeAllForUser(), the last step of three handlers.                    *)
RevokeAll(r) ==
    /\ req[r].pc = "revokeAll"
    /\ RevokeRows(TokensOf(req[r].user))
    /\ AnswerWith(r, "ok")
    /\ UNCHANGED <<userVars, now>>

-----------------------------------------------------------------------------
(* At a bound of the model the statement fails like any other statement    *)
(* that the database refuses: nothing is written, the answer is a 500.     *)
BoundReached(r) ==
    /\ \/ req[r].pc \in {"openSession", "insertChild"} /\ minted = MaxTokens
       \/ req[r].pc = "writePassword" /\ password[req[r].user] = MaxPasswords
    /\ AnswerWith(r, "error")
    /\ UNCHANGED <<tokenVars, userVars, now>>

(* The handler dies at an await: what it committed stays, the rest is lost.*)
Fail(r) ==
    /\ CanFail
    /\ req[r].pc \notin {"idle", "answered"}
    /\ AnswerWith(r, "error")
    /\ UNCHANGED <<tokenVars, userVars, now>>

(* The response leaves (or is lost) and the slot is free again.            *)
Finish(r) ==
    /\ req[r].pc = "answered"
    /\ req' = [req EXCEPT ![r] = Idle]
    /\ UNCHANGED <<tokenVars, userVars, now>>

Tick ==
    /\ now < MaxTime
    /\ now' = now + 1
    /\ UNCHANGED <<tokenVars, userVars, req>>

Arrive(r) ==
    \/ \E u \in Users, p \in 0..MaxPasswords :
          Login(r, u, p) \/ ChangePassword(r, u, p) \/ DeleteAccount(r, u, p)
    \/ \E u \in Users : LogoutAll(r, u)
    \/ \E t \in Minted : PresentToken(r, t) \/ Logout(r, t)

\* The next statement of handler r.
Serve(r) ==
    \/ OpenSession(r)
    \/ RotateRead(r) \/ RevokeFamily(r) \/ RotateInsert(r) \/ RotateRetire(r)
    \/ Respond(r) \/ RevokeOne(r)
    \/ WritePassword(r) \/ Tombstone(r) \/ RevokeAll(r)
    \/ BoundReached(r)

Proceed(r) == Serve(r) \/ Finish(r)

Next ==
    \/ \E r \in Requests : Arrive(r) \/ Proceed(r) \/ Fail(r)
    \/ Tick

Spec == Init /\ [][Next]_vars

-----------------------------------------------------------------------------
(* Properties                                                              *)

RowsOK ==
    /\ minted \in 0..MaxTokens
    /\ grant \in [Token -> [user : Users \cup {NoUser}, family : 0..MaxTokens,
                            expires : Nat]]
    /\ \A t \in Minted : OwnerOf(t) \in Users /\ FamilyOf(t) \in Minted
    /\ revoked \subseteq Minted
    /\ replacedBy \in [Token -> 0..MaxTokens]
    /\ epoch \in [Token -> 0..MaxPasswords]

UsersOK ==
    /\ status \in [Users -> {"ACTIVE", "DELETED"}]
    /\ password \in [Users -> 0..MaxPasswords]
    /\ now \in 0..MaxTime

TokenPC == {"refresh", "insertChild", "retire", "respond", "revokeFamily", "revokeOne"}
UserPC  == {"openSession", "writePassword", "tombstone", "revokeAll"}

RequestsOK ==
    /\ req \in [Requests -> Request]
    /\ \A r \in Requests : /\ req[r].pc \in TokenPC => req[r].token \in Minted
                           /\ req[r].pc \in UserPC => req[r].user \in Users

\* Every variable keeps its type; a handler past its first await carries the
\* user or the token it works on (rotate() and createPair() dereference them).
TypeOK == RowsOK /\ UsersOK /\ RequestsOK

\* c is a legitimate successor of t: same session, same account, opened with
\* the same password, inserted later.
Succeeds(c, t) ==
    /\ c \in Minted /\ c > t
    /\ FamilyOf(c) = FamilyOf(t)
    /\ OwnerOf(c) = OwnerOf(t)
    /\ epoch[c] = epoch[t]

RootsOK == \A t \in Minted : /\ FamilyOf(FamilyOf(t)) = FamilyOf(t)
                             /\ t = FamilyOf(t) \/ Succeeds(t, FamilyOf(t))
LinksOK == \A t \in Token : replacedBy[t] # NoToken =>
                              t \in revoked /\ Succeeds(replacedBy[t], t)
RetiringOK == \A r \in Requests : req[r].pc = "retire" =>
                                    Succeeds(req[r].child, req[r].token)

\* The rows of a family form trees rooted at the login that opened it: a family
\* belongs to one account, a replacedById link stays inside the family, points
\* forward in time and only leaves a revoked row.  So revokeFamily() ends one
\* session of one account and never touches another one, however rotations of
\* the family interleave or die.  (token.service.ts rotate, createPair)
Lineage == RootsOK /\ LinksOK /\ RetiringOK

\* A handler that read a live token of family f and is about to insert a child.
Rotating(f) == \E r \in Requests :
                  req[r].pc = "insertChild" /\ FamilyOf(req[r].token) = f

SessionClosed(f) == FamilyMembers(f) \subseteq revoked /\ ~Rotating(f)

\* Once a session has no live token and no rotation of it is past its check,
\* no step of any handler gives it a live token again: revocation can be
\* outrun only by a rotation that had already read its token.
\* (token.service.ts:58-93 against revokeFamily, revoke, revokeAllForUser)
ClosedSessionStaysClosed ==
    [][\A f \in Minted : SessionClosed(f) => SessionClosed(f)']_vars

\* The password p of account u no longer admits anyone, no session opened with
\* it is left and no handler is about to create one.
CredentialDrained(u, p) ==
    /\ status[u] = "DELETED" \/ p < password[u]
    /\ \A t \in TokensOf(u) : epoch[t] = p => t \in revoked
    /\ \A r \in Requests :
         /\ ~(req[r].pc = "openSession" /\ req[r].user = u /\ req[r].pass = p)
         /\ ~(req[r].pc = "insertChild" /\ OwnerOf(req[r].token) = u
                                        /\ epoch[req[r].token] = p)

\* A password that was changed, or whose account was deleted, never yields a
\* session again once its sessions are revoked and the logins and rotations
\* that were past their checks have ended.  (users.service.ts:27-87)
DrainedCredentialStaysOut ==
    [][\A u \in Users, p \in 0..MaxPasswords :
          CredentialDrained(u, p) => CredentialDrained(u, p)']_vars

\* The live tokens of a session: one, or the parent and the child of a rotation that
\* is between its two writes.
OneLiveToken ==
    \A s, t \in Live :
        FamilyOf(s) = FamilyOf(t) /\ s < t =>
            \E r \in Requests : req[r].pc = "retire" /\ req[r].token = s
                                                    /\ req[r].child = t

\* Handler r dies between the two writes of a rotation.
DiesRotating(r) == req[r].pc = "retire" /\ req'[r].answer = "error"

\* Handler r inserts a child of a token whose family another rotation has moved on,
\* or is just moving on, since r read it.
InsertsOvertaken(r) ==
    /\ req[r].pc = "insertChild" /\ req'[r].pc = "retire"
    /\ \/ req[r].token \in revoked
       \/ \E s \in Requests : req[s].pc = "retire"
                              /\ FamilyOf(req[s].token) = FamilyOf(req[r].token)

\* "Rotate within a transaction: revoke old, mint new, link them" (token.service.ts:81):
\* a session gets a second live token in two ways only, by a rotation that dies between
\* its writes and by rotations that overlap; nothing else forks it.
ForksOnlyByOverlapOrDeath ==
    [][OneLiveToken /\ ~OneLiveToken' =>
          \E r \in Requests : DiesRotating(r) \/ InsertsOvertaken(r)]_vars

-----------------------------------------------------------------------------
(* What a session is to its user (module Sessions): the tokens that would  *)
(* be accepted, leaving out the parent a rotation is about to retire.      *)
Retiring(t) == \E r \in Requests : req[r].pc = "retire" /\ req[r].token = t
HolderOf(f) == {t \in FamilyMembers(f) \ revoked : ~Retiring(t)}

AbstractSessions == INSTANCE Sessions WITH
    opened <- {f \in Minted : FamilyOf(f) = f},
    holder <- [f \in Token |-> HolderOf(f)]

=============================================================================
