--------------------------- MODULE SessionProofs ---------------------------
(***************************************************************************)
(* Proofs about RefreshTokens for any number of accounts, handlers,        *)
(* tokens, passwords and clock ticks, with or without failing handlers,    *)
(* and about the browser that SessionClient composes with it.              *)
(***************************************************************************)
EXTENDS MCRefreshTokens, MCSessionClient, TLAPS

USE BoundsAssumption

USE DEF NoToken

-----------------------------------------------------------------------------
\* A handler that moves on or answers keeps the type of its record.
LEMMA IdleType == Idle \in Request
BY DEF Idle, Request, PC, Answer

LEMMA EnterType ==
    ASSUME NEW r \in Requests, NEW pc \in PC, NEW u \in Users \cup {NoUser},
           NEW t \in 0..MaxTokens, NEW p \in 0..MaxPasswords,
           req \in [Requests -> Request], Enter(r, pc, u, t, p)
    PROVE  /\ req' \in [Requests -> Request]
           /\ req'[r].pc = pc /\ req'[r].user = u /\ req'[r].token = t
           /\ req'[r].pass = p
           /\ \A s \in Requests : s # r => req'[s] = req[s]
BY DEF Enter, Request, Answer

LEMMA GotoType ==
    ASSUME NEW r \in Requests, NEW pc \in PC, req \in [Requests -> Request], Goto(r, pc)
    PROVE  /\ req' \in [Requests -> Request]
           /\ req'[r].pc = pc
           /\ req'[r].user = req[r].user /\ req'[r].token = req[r].token
           /\ req'[r].child = req[r].child
           /\ \A s \in Requests : s # r => req'[s] = req[s]
BY DEF Goto, Request

LEMMA AnswerType ==
    ASSUME NEW r \in Requests, NEW a \in Answer, NEW t \in 0..MaxTokens,
           NEW c \in 0..MaxTokens, req \in [Requests -> Request],
           AnswerAbout(r, a, t, c)
    PROVE  /\ req' \in [Requests -> Request]
           /\ req'[r].pc = "answered"
           /\ \A s \in Requests : s # r => req'[s] = req[s]
BY DEF AnswerAbout, Request, PC

LEMMA AnswerWithType ==
    ASSUME NEW r \in Requests, NEW a \in Answer, req \in [Requests -> Request],
           AnswerWith(r, a)
    PROVE  /\ req' \in [Requests -> Request]
           /\ req'[r].pc = "answered"
           /\ \A s \in Requests : s # r => req'[s] = req[s]
BY AnswerType DEF AnswerWith

-----------------------------------------------------------------------------
(* Type correctness                                                        *)

LEMMA InitType == Init => TypeOK
BY IdleType DEF Init, TypeOK, RowsOK, UsersOK, RequestsOK, TokenPC, UserPC, Idle,
   OwnerOf, FamilyOf, Minted, Token

\* Only handler r moves, rows are only added: its new record decides.
LEMMA RequestsFrame ==
    ASSUME RequestsOK, NEW r \in Requests,
           req' \in [Requests -> Request],
           \A s \in Requests : s # r => req'[s] = req[s],
           Minted \subseteq Minted',
           req'[r].pc \in TokenPC => req'[r].token \in Minted',
           req'[r].pc \in UserPC => req'[r].user \in Users
    PROVE  RequestsOK'
<1>1. ASSUME NEW s \in Requests
      PROVE /\ req'[s].pc \in TokenPC => req'[s].token \in Minted'
            /\ req'[s].pc \in UserPC => req'[s].user \in Users
  <2>1. CASE s = r
    BY <2>1
  <2>2. CASE s # r
    BY <2>2 DEF RequestsOK
  <2>3. QED BY <2>1, <2>2
<1>2. QED
  BY <1>1 DEF RequestsOK, TokenPC, UserPC

LEMMA RowsFrame == RowsOK /\ UNCHANGED tokenVars => RowsOK'
BY DEF RowsOK, tokenVars, OwnerOf, FamilyOf, Minted

LEMMA RevokeRowsType ==
    ASSUME RowsOK, NEW S \in SUBSET Minted, RevokeRows(S)
    PROVE  RowsOK' /\ minted' = minted
BY DEF RowsOK, RevokeRows, OwnerOf, FamilyOf, Minted

LEMMA InsertRowType ==
    ASSUME RowsOK, UsersOK, NEW u \in Users, NEW f \in 1..(minted + 1),
           NEW e \in 0..MaxPasswords, InsertRow(u, f, e)
    PROVE  /\ RowsOK'
           /\ minted' = minted + 1 /\ minted + 1 \in Token
           /\ Minted' = Minted \cup {minted + 1} /\ minted + 1 \notin Minted
           /\ \A t \in Minted : grant'[t] = grant[t] /\ epoch'[t] = epoch[t]
           /\ grant'[minted + 1].user = u /\ grant'[minted + 1].family = f
           /\ epoch'[minted + 1] = e
           /\ replacedBy' = replacedBy /\ revoked' = revoked
<1>1. minted' = minted + 1 /\ minted + 1 \in Token /\ minted \in Nat /\ Minted \subseteq Token
  BY DEF RowsOK, InsertRow, Token, Minted
<1>2. now + Ttl \in Nat
  BY DEF UsersOK
<1>3. [user |-> u, family |-> f, expires |-> now + Ttl]
        \in [user : Users \cup {NoUser}, family : 0..MaxTokens, expires : Nat]
  BY <1>1, <1>2 DEF Token
<1>4. /\ grant' \in [Token -> [user : Users \cup {NoUser}, family : 0..MaxTokens,
                                expires : Nat]]
      /\ grant'[minted + 1] = [user |-> u, family |-> f, expires |-> now + Ttl]
      /\ \A t \in Token : t # minted + 1 => grant'[t] = grant[t]
  BY <1>1, <1>3 DEF RowsOK, InsertRow
<1>5. /\ epoch' \in [Token -> 0..MaxPasswords] /\ epoch'[minted + 1] = e
      /\ \A t \in Token : t # minted + 1 => epoch'[t] = epoch[t]
  BY <1>1 DEF RowsOK, InsertRow
<1>6. Minted' = Minted \cup {minted + 1} /\ minted + 1 \notin Minted /\ f \in Minted'
  BY <1>1 DEF Minted
<1>7. \A t \in Minted : grant'[t] = grant[t] /\ epoch'[t] = epoch[t]
  BY <1>1, <1>4, <1>5, <1>6
<1>8. ASSUME NEW t \in Minted'
      PROVE  grant'[t].user \in Users /\ grant'[t].family \in Minted'
  <2>1. CASE t = minted + 1
    BY <1>4, <1>6, <2>1
  <2>2. CASE t \in Minted
    BY <1>6, <1>7, <2>2 DEF RowsOK, OwnerOf, FamilyOf
  <2>3. QED
    BY <1>6, <2>1, <2>2
<1>9. RowsOK'
  <2>1. (\A t \in Minted : OwnerOf(t) \in Users /\ FamilyOf(t) \in Minted)'
    BY <1>8 DEF OwnerOf, FamilyOf
  <2>2. minted' \in 0..MaxTokens
    BY <1>1 DEF Token
  <2>3. revoked' \subseteq Minted' /\ replacedBy' \in [Token -> 0..MaxTokens]
    BY <1>6 DEF RowsOK, InsertRow
  <2>4. QED
    BY <1>4, <1>5, <2>1, <2>2, <2>3 DEF RowsOK
<1>10. QED
  BY <1>1, <1>4, <1>5, <1>6, <1>7, <1>9 DEF InsertRow

\* Type correctness is preserved by every step of every handler.
LEMMA NextType == TypeOK /\ [Next]_vars => TypeOK'
<1> SUFFICES ASSUME TypeOK, [Next]_vars PROVE TypeOK'
  OBVIOUS
<1> USE DEF TypeOK
<1>a. /\ minted' = minted => Minted' = Minted
      /\ minted \in Nat /\ Minted \subseteq Token /\ Token \subseteq 0..MaxTokens
  BY DEF RowsOK, Minted, Token
\* Steps that end a handler and leave the rows and the users alone.
<1>b. ASSUME NEW r \in Requests, NEW a \in Answer, AnswerWith(r, a),
             RowsOK', UsersOK', minted' = minted
      PROVE  TypeOK'
  BY <1>a, <1>b, AnswerWithType, RequestsFrame DEF RequestsOK, TokenPC, UserPC
<1>c. UNCHANGED userVars /\ UNCHANGED now => UsersOK'
  BY DEF UsersOK, userVars
<1>d. UNCHANGED tokenVars => RowsOK' /\ minted' = minted
  BY RowsFrame DEF tokenVars
<1>e. "unauthorized" \in Answer /\ "ok" \in Answer /\ "error" \in Answer /\ "reuse" \in Answer
  BY DEF Answer
<1>1. ASSUME NEW r \in Requests, NEW u \in Users, NEW p \in 0..MaxPasswords, Login(r, u, p)
      PROVE  TypeOK'
  <2>1. RowsOK' /\ UsersOK' /\ minted' = minted
    BY <1>1, <1>c, <1>d DEF Login
  <2>2. CASE AnswerWith(r, "unauthorized")
    BY <1>b, <1>e, <2>1, <2>2
  <2>3. CASE Enter(r, "openSession", u, NoToken, p)
    <3>1. /\ req' \in [Requests -> Request]
          /\ req'[r].pc = "openSession" /\ req'[r].user = u
          /\ \A s \in Requests : s # r => req'[s] = req[s]
      BY <1>a, <2>3, EnterType DEF RequestsOK, PC
    <3>2. QED
      BY <1>a, <2>1, <3>1, RequestsFrame DEF TokenPC
  <2>4. QED BY <1>1, <2>2, <2>3 DEF Login
<1>2. ASSUME NEW r \in Requests, OpenSession(r) PROVE TypeOK'
  <2>1. /\ req[r].user \in Users /\ req[r].pass \in 0..MaxPasswords
        /\ minted + 1 \in 1..(minted + 1)
        /\ InsertRow(req[r].user, minted + 1, req[r].pass)
    BY <1>2, <1>a DEF OpenSession, RequestsOK, UserPC, Request
  <2>2. RowsOK' /\ Minted \subseteq Minted' /\ minted + 1 \in 0..MaxTokens
    BY <1>a, <2>1, InsertRowType
  <2>3. /\ req' \in [Requests -> Request] /\ req'[r].pc = "answered"
        /\ \A s \in Requests : s # r => req'[s] = req[s]
    BY <1>2, <1>e, <2>2, AnswerType DEF OpenSession, RequestsOK
  <2>4. UsersOK'
    BY <1>2, <1>c DEF OpenSession
  <2>5. QED
    BY <1>a, <2>2, <2>3, <2>4, RequestsFrame DEF TokenPC, UserPC
<1>3. ASSUME NEW r \in Requests, NEW t \in Minted, PresentToken(r, t) PROVE TypeOK'
  <2>1. RowsOK' /\ UsersOK' /\ minted' = minted
    BY <1>3, <1>c, <1>d DEF PresentToken
  <2>2. /\ req' \in [Requests -> Request]
        /\ req'[r].pc = "refresh" /\ req'[r].token = t
        /\ \A s \in Requests : s # r => req'[s] = req[s]
    BY <1>3, <1>a, EnterType DEF PresentToken, RequestsOK, PC
  <2>3. QED
    BY <1>a, <2>1, <2>2, RequestsFrame DEF UserPC
<1>4. ASSUME NEW r \in Requests, RotateRead(r) PROVE TypeOK'
  <2>1. RowsOK' /\ UsersOK' /\ minted' = minted
    BY <1>4, <1>c, <1>d DEF RotateRead
  <2>2. CASE AnswerWith(r, "unauthorized")
    BY <1>b, <1>e, <2>1, <2>2
  <2>3. CASE Goto(r, "revokeFamily") \/ Goto(r, "insertChild")
    <3>1. req[r].token \in Minted
      BY <1>4 DEF RotateRead, RequestsOK, TokenPC
    <3>2. /\ req' \in [Requests -> Request]
          /\ req'[r].pc \in {"revokeFamily", "insertChild"} /\ req'[r].token = req[r].token
          /\ \A s \in Requests : s # r => req'[s] = req[s]
      BY <2>3, GotoType DEF RequestsOK, PC
    <3>3. QED
      BY <1>a, <2>1, <3>1, <3>2, RequestsFrame DEF UserPC
  <2>4. QED BY <1>4, <2>2, <2>3 DEF RotateRead
<1>5. ASSUME NEW r \in Requests, RevokeFamily(r) PROVE TypeOK'
  <2>1. req[r].token \in 0..MaxTokens
    BY DEF RequestsOK, Request
  <2>2. RowsOK' /\ minted' = minted
    BY <1>5, RevokeRowsType DEF RevokeFamily, FamilyMembers
  <2>3. /\ req' \in [Requests -> Request] /\ req'[r].pc = "answered"
        /\ \A s \in Requests : s # r => req'[s] = req[s]
    BY <1>5, <1>e, <2>1, AnswerType DEF RevokeFamily, RequestsOK
  <2>4. UsersOK'
    BY <1>5, <1>c DEF RevokeFamily
  <2>5. QED
    BY <1>a, <2>2, <2>3, <2>4, RequestsFrame DEF TokenPC, UserPC
<1>6. ASSUME NEW r \in Requests, RotateInsert(r) PROVE TypeOK'
  <2> DEFINE t == req[r].token
  <2>1. /\ t \in Minted /\ OwnerOf(t) \in Users /\ FamilyOf(t) \in 1..(minted + 1)
        /\ epoch[t] \in 0..MaxPasswords
        /\ InsertRow(OwnerOf(t), FamilyOf(t), epoch[t])
    BY <1>6, <1>a DEF RotateInsert, RowsOK, RequestsOK, TokenPC, Minted, Token
  <2>2. RowsOK' /\ Minted \subseteq Minted' /\ minted + 1 \in 0..MaxTokens
    BY <1>a, <2>1, InsertRowType
  <2>3. /\ req' \in [Requests -> Request] /\ req'[r].pc = "retire"
        /\ req'[r].token = t
        /\ \A s \in Requests : s # r => req'[s] = req[s]
    BY <1>6, <2>2 DEF RotateInsert, RequestsOK, Request, PC
  <2>4. UsersOK'
    BY <1>6, <1>c DEF RotateInsert
  <2>5. QED
    BY <2>1, <2>2, <2>3, <2>4, RequestsFrame DEF UserPC
<1>7. ASSUME NEW r \in Requests, RotateRetire(r) PROVE TypeOK'
  <2>1. /\ req' \in [Requests -> Request] /\ req'[r].pc = "respond"
        /\ req'[r].token = req[r].token
        /\ \A s \in Requests : s # r => req'[s] = req[s]
    BY <1>7, GotoType DEF RotateRetire, RequestsOK, PC
  <2>2. req[r].token \in Minted /\ req[r].child \in 0..MaxTokens
    BY <1>7 DEF RotateRetire, RequestsOK, TokenPC, Request
  <2>3. RowsOK' /\ minted' = minted
    BY <1>7, <2>2 DEF RotateRetire, RowsOK, OwnerOf, FamilyOf, Minted
  <2>4. UsersOK'
    BY <1>7, <1>c DEF RotateRetire
  <2>5. QED
    BY <1>a, <2>1, <2>2, <2>3, <2>4, RequestsFrame DEF UserPC
<1>8. ASSUME NEW r \in Requests, Respond(r) PROVE TypeOK'
  <2>1. req[r].child \in 0..MaxTokens
    BY DEF RequestsOK, Request
  <2>2. /\ req' \in [Requests -> Request] /\ req'[r].pc = "answered"
        /\ \A s \in Requests : s # r => req'[s] = req[s]
    BY <1>8, <1>e, <2>1, AnswerType DEF Respond, RequestsOK
  <2>3. RowsOK' /\ UsersOK' /\ minted' = minted
    BY <1>8, <1>c, <1>d DEF Respond
  <2>4. QED
    BY <1>a, <2>2, <2>3, RequestsFrame DEF TokenPC, UserPC
<1>9. ASSUME NEW r \in Requests, NEW t \in Minted, Logout(r, t) PROVE TypeOK'
  <2>1. RowsOK' /\ UsersOK' /\ minted' = minted
    BY <1>9, <1>c, <1>d DEF Logout
  <2>2. t \in 0..MaxTokens /\ NoToken \in 0..MaxTokens
    BY <1>a DEF RowsOK, Minted, NoToken
  <2>3. CASE AnswerAbout(r, "ok", t, NoToken)
    <3>1. /\ req' \in [Requests -> Request] /\ req'[r].pc = "answered"
          /\ \A s \in Requests : s # r => req'[s] = req[s]
      BY <1>e, <2>2, <2>3, AnswerType DEF RequestsOK
    <3>2. QED
      BY <1>a, <2>1, <3>1, RequestsFrame DEF TokenPC, UserPC
  <2>4. CASE Enter(r, "revokeOne", NoUser, t, 0)
    <3>1. /\ req' \in [Requests -> Request]
          /\ req'[r].pc = "revokeOne" /\ req'[r].token = t
          /\ \A s \in Requests : s # r => req'[s] = req[s]
      BY <2>4, <1>a, EnterType DEF RequestsOK, PC
    <3>2. QED
      BY <1>a, <2>1, <3>1, RequestsFrame DEF UserPC
  <2>5. QED
    BY <1>9, <2>3, <2>4 DEF Logout
<1>19. ASSUME NEW r \in Requests, RevokeOne(r) PROVE TypeOK'
  <2>1. req[r].token \in Minted /\ req[r].token \in 0..MaxTokens /\ NoToken \in 0..MaxTokens
    <3>1. req[r].pc \in TokenPC
      BY <1>19 DEF RevokeOne, TokenPC
    <3>2. req[r].token \in Minted
      BY <3>1 DEF RequestsOK
    <3>3. QED
      BY <3>2 DEF RowsOK, Minted, NoToken
  <2>2. RowsOK' /\ minted' = minted
    BY <1>19, <2>1, RevokeRowsType DEF RevokeOne
  <2>3. /\ req' \in [Requests -> Request] /\ req'[r].pc = "answered"
        /\ \A s \in Requests : s # r => req'[s] = req[s]
    BY <1>19, <1>e, <2>1, AnswerType DEF RevokeOne, RequestsOK
  <2>4. UsersOK'
    BY <1>19, <1>c DEF RevokeOne
  <2>5. QED
    BY <1>a, <2>2, <2>3, <2>4, RequestsFrame DEF TokenPC, UserPC
<1>10. ASSUME NEW r \in Requests, NEW u \in Users, LogoutAll(r, u) PROVE TypeOK'
  <2>1. /\ req' \in [Requests -> Request]
        /\ req'[r].pc = "revokeAll" /\ req'[r].user = u
        /\ \A s \in Requests : s # r => req'[s] = req[s]
    BY <1>10, <1>a, EnterType DEF LogoutAll, RequestsOK, PC
  <2>2. RowsOK' /\ UsersOK' /\ minted' = minted
    BY <1>10, <1>c, <1>d DEF LogoutAll
  <2>3. QED
    BY <1>a, <2>1, <2>2, RequestsFrame DEF TokenPC
<1>11. ASSUME NEW r \in Requests, NEW u \in Users, NEW p \in 0..MaxPasswords,
              ChangePassword(r, u, p) \/ DeleteAccount(r, u, p)
       PROVE  TypeOK'
  <2>1. RowsOK' /\ UsersOK' /\ minted' = minted
    BY <1>11, <1>c, <1>d DEF ChangePassword, DeleteAccount
  <2>2. CASE AnswerWith(r, "unauthorized")
    BY <1>b, <1>e, <2>1, <2>2
  <2>3. ASSUME NEW pc \in {"writePassword", "tombstone"},
               Enter(r, pc, u, NoToken, 0)
        PROVE  TypeOK'
    <3>1. /\ req' \in [Requests -> Request]
          /\ req'[r].pc \in {"writePassword", "tombstone"} /\ req'[r].user = u
          /\ \A s \in Requests : s # r => req'[s] = req[s]
      BY <1>a, <2>3, EnterType DEF RequestsOK, PC
    <3>2. QED
      BY <1>a, <2>1, <3>1, RequestsFrame DEF TokenPC
  <2>4. QED BY <1>11, <2>2, <2>3 DEF ChangePassword, DeleteAccount
<1>12. ASSUME NEW r \in Requests, WritePassword(r) \/ Tombstone(r) PROVE TypeOK'
  <2>1. req[r].user \in Users
    BY <1>12 DEF WritePassword, Tombstone, RequestsOK, UserPC
  <2>2. /\ req' \in [Requests -> Request]
        /\ req'[r].pc = "revokeAll" /\ req'[r].user = req[r].user
        /\ \A s \in Requests : s # r => req'[s] = req[s]
    BY <1>12, GotoType DEF WritePassword, Tombstone, RequestsOK, PC
  <2>3. UsersOK'
    BY <1>12, <2>1 DEF WritePassword, Tombstone, UsersOK
  <2>4. RowsOK' /\ minted' = minted
    BY <1>12, <1>d DEF WritePassword, Tombstone
  <2>5. QED
    BY <1>a, <2>1, <2>2, <2>3, <2>4, RequestsFrame DEF TokenPC
<1>13. ASSUME NEW r \in Requests, RevokeAll(r) PROVE TypeOK'
  <2>1. RowsOK' /\ UsersOK' /\ minted' = minted
    BY <1>13, <1>c, RevokeRowsType DEF RevokeAll, TokensOf
  <2>2. QED
    BY <1>13, <1>b, <1>e, <2>1 DEF RevokeAll
<1>14. ASSUME NEW r \in Requests, Fail(r) \/ BoundReached(r) PROVE TypeOK'
  BY <1>14, <1>b, <1>c, <1>d, <1>e DEF Fail, BoundReached
<1>15. ASSUME NEW r \in Requests, Finish(r) PROVE TypeOK'
  <2>1. /\ req' \in [Requests -> Request] /\ req'[r].pc = "idle"
        /\ \A s \in Requests : s # r => req'[s] = req[s]
    BY <1>15, IdleType DEF Finish, Idle, RequestsOK
  <2>2. RowsOK' /\ UsersOK' /\ minted' = minted
    BY <1>15, <1>c, <1>d DEF Finish
  <2>3. QED
    BY <1>a, <2>1, <2>2, RequestsFrame DEF TokenPC, UserPC
<1>16. CASE Tick
  <2>1. UsersOK' /\ RequestsOK'
    BY <1>16 DEF Tick, tokenVars, userVars, UsersOK, RequestsOK, Minted
  <2>2. QED
    BY <1>16, <1>d, <2>1 DEF Tick
<1>17. CASE UNCHANGED vars
  BY <1>17, <1>a, <1>c, <1>d DEF vars, tokenVars, RequestsOK
<1>18. QED
  BY <1>1, <1>2, <1>3, <1>4, <1>5, <1>6, <1>7, <1>8, <1>9, <1>10, <1>11, <1>12, <1>13,
     <1>14, <1>15, <1>16, <1>17, <1>19 DEF Next, Arrive, Proceed, Serve

\* Every reachable state is well typed, for any constants.
THEOREM TypeCorrect == Spec => []TypeOK
<1>1. Init => TypeOK
  BY InitType
<1>2. TypeOK /\ [Next]_vars => TypeOK'
  BY NextType
<1>3. QED
  BY <1>1, <1>2, PTL DEF Spec

-----------------------------------------------------------------------------
(* The shapes a step can have, seen from the sessions                      *)

OnlyMoves(r) == /\ req' \in [Requests -> Request]
                /\ \A s \in Requests : s # r => req'[s] = req[s]
RowsKept == UNCHANGED <<minted, grant, epoch, replacedBy>> /\ revoked \subseteq revoked'

\* Passwords only move on and deleted accounts stay deleted.
CredentialsTightened ==
    \A u \in Users : /\ status[u] = "DELETED" => status'[u] = "DELETED"
                     /\ password[u] <= password'[u]

\* r does not get to a point from which it writes a row.
Quiet(r) == /\ RowsKept /\ OnlyMoves(r)
            /\ req'[r].pc \notin {"openSession", "insertChild", "retire"}

AdmitsLogin(r) ==
    /\ RowsKept /\ OnlyMoves(r)
    /\ req'[r].pc = "openSession" /\ req'[r].user \in Users
    /\ status[req'[r].user] = "ACTIVE" /\ req'[r].pass = password[req'[r].user]

AdmitsRotation(r) ==
    /\ RowsKept /\ OnlyMoves(r)
    /\ req'[r].pc = "insertChild" /\ req'[r].token \in Live

LEMMA StepShape ==
    ASSUME TypeOK, [Next]_vars
    PROVE  /\ CredentialsTightened
           /\ \/ RowsKept /\ UNCHANGED req
              \/ \E r \in Requests : \/ Quiet(r) \/ AdmitsLogin(r) \/ AdmitsRotation(r)
                                     \/ OpenSession(r) \/ RotateInsert(r) \/ RotateRetire(r)
<1> USE DEF TypeOK
<1>a. UNCHANGED <<status, password>> => CredentialsTightened
  BY DEF UsersOK, CredentialsTightened
<1>b. ASSUME NEW r \in Requests, NEW a \in Answer, AnswerWith(r, a), RowsKept PROVE Quiet(r)
  BY <1>b, AnswerWithType DEF RequestsOK, Quiet, OnlyMoves
<1>c. UNCHANGED tokenVars => RowsKept
  BY DEF tokenVars, RowsKept
<1>d. "unauthorized" \in Answer /\ "ok" \in Answer /\ "error" \in Answer /\ "reuse" \in Answer
  BY DEF Answer
<1>e. Minted \subseteq 0..MaxTokens
  BY DEF RowsOK, Minted
<1>1. ASSUME NEW r \in Requests, NEW u \in Users, NEW p \in 0..MaxPasswords, Login(r, u, p)
      PROVE  CredentialsTightened /\ (Quiet(r) \/ AdmitsLogin(r))
  <2>1. CredentialsTightened /\ RowsKept
    BY <1>1, <1>a, <1>c DEF Login, userVars
  <2>2. CASE AnswerWith(r, "unauthorized")
    BY <1>b, <1>d, <2>1, <2>2
  <2>3. CASE p = password[u] /\ status[u] = "ACTIVE" /\ Enter(r, "openSession", u, NoToken, p)
    BY <2>1, <2>3, EnterType DEF RequestsOK, PC, AdmitsLogin, OnlyMoves
  <2>4. QED BY <1>1, <2>1, <2>2, <2>3 DEF Login
<1>2. ASSUME NEW r \in Requests, RotateRead(r)
      PROVE  CredentialsTightened /\ (Quiet(r) \/ AdmitsRotation(r))
  <2>1. CredentialsTightened /\ RowsKept
    BY <1>2, <1>a, <1>c DEF RotateRead, userVars
  <2>2. CASE AnswerWith(r, "unauthorized")
    BY <1>b, <1>d, <2>1, <2>2
  <2>3. CASE Goto(r, "revokeFamily")
    BY <2>1, <2>3, GotoType DEF RequestsOK, PC, Quiet, OnlyMoves
  <2>4. CASE req[r].token \notin revoked /\ Goto(r, "insertChild")
    <3>1. req[r].token \in Live
      BY <1>2, <2>4 DEF RotateRead, RequestsOK, TokenPC, Live
    <3>2. QED
      BY <2>1, <2>4, <3>1, GotoType DEF RequestsOK, PC, AdmitsRotation, OnlyMoves
  <2>5. QED BY <1>2, <2>1, <2>2, <2>3, <2>4 DEF RotateRead
<1>3. ASSUME NEW r \in Requests, OpenSession(r) \/ RotateInsert(r) \/ RotateRetire(r)
      PROVE  CredentialsTightened
  BY <1>3, <1>a DEF OpenSession, RotateInsert, RotateRetire, userVars
<1>4. ASSUME NEW r \in Requests, NEW t \in Minted, PresentToken(r, t) \/ Logout(r, t)
      PROVE  CredentialsTightened /\ Quiet(r)
  <2>1. CredentialsTightened
    BY <1>4, <1>a DEF PresentToken, Logout, userVars
  <2>2. CASE PresentToken(r, t)
    BY <2>1, <2>2, <1>c, <1>e, EnterType DEF PresentToken, RequestsOK, PC, Quiet, OnlyMoves
  <2>3. CASE Logout(r, t)
    <3>1. RowsKept /\ t \in 0..MaxTokens /\ NoToken \in 0..MaxTokens
      BY <2>3, <1>c, <1>e DEF Logout, NoToken, RowsOK, Minted
    <3>2. CASE AnswerAbout(r, "ok", t, NoToken)
      <4>1. req' \in [Requests -> Request] /\ req'[r].pc = "answered" /\ OnlyMoves(r)
        BY <1>d, <3>1, <3>2, AnswerType DEF RequestsOK, OnlyMoves
      <4>2. QED
        BY <2>1, <3>1, <4>1 DEF Quiet
    <3>3. CASE Enter(r, "revokeOne", NoUser, t, 0)
      <4>1. 0 \in 0..MaxPasswords /\ "revokeOne" \in PC /\ NoUser \in Users \cup {NoUser}
        BY DEF PC, UsersOK
      <4>2. req'[r].pc = "revokeOne" /\ OnlyMoves(r)
        BY <3>1, <3>3, <4>1, EnterType DEF RequestsOK, OnlyMoves
      <4>3. QED
        BY <2>1, <3>1, <4>2 DEF Quiet
    <3>4. QED
      BY <2>1, <2>3, <3>2, <3>3 DEF Logout
  <2>4. QED BY <1>4, <2>1, <2>2, <2>3
<1>5. ASSUME NEW r \in Requests, RevokeFamily(r) \/ RevokeOne(r) \/ RevokeAll(r) \/ Respond(r)
      PROVE  CredentialsTightened /\ Quiet(r)
  <2>1. CredentialsTightened /\ RowsKept
    BY <1>5, <1>a, <1>c DEF RevokeFamily, RevokeOne, RevokeAll, Respond, RevokeRows, RowsKept, userVars
  <2>2. req[r].token \in 0..MaxTokens /\ req[r].child \in 0..MaxTokens
    BY DEF RequestsOK, Request
  <2>3. req' \in [Requests -> Request] /\ req'[r].pc = "answered" /\ OnlyMoves(r)
    BY <1>5, <1>d, <2>2, AnswerType, AnswerWithType
    DEF RevokeFamily, RevokeOne, RevokeAll, Respond, RequestsOK, OnlyMoves
  <2>4. QED
    BY <2>1, <2>3 DEF Quiet
<1>6. ASSUME NEW r \in Requests, NEW u \in Users, NEW p \in 0..MaxPasswords,
             LogoutAll(r, u) \/ ChangePassword(r, u, p) \/ DeleteAccount(r, u, p)
      PROVE  CredentialsTightened /\ Quiet(r)
  <2>1. CredentialsTightened /\ RowsKept
    BY <1>6, <1>a, <1>c DEF LogoutAll, ChangePassword, DeleteAccount, userVars
  <2>2. CASE AnswerWith(r, "unauthorized")
    BY <1>b, <1>d, <2>1, <2>2
  <2>3. ASSUME NEW pc \in {"revokeAll", "writePassword", "tombstone"},
               Enter(r, pc, u, NoToken, 0)
        PROVE  Quiet(r)
    BY <2>1, <2>3, EnterType DEF RequestsOK, PC, Quiet, OnlyMoves
  <2>4. QED
    BY <1>6, <2>1, <2>2, <2>3 DEF LogoutAll, ChangePassword, DeleteAccount
<1>7. ASSUME NEW r \in Requests, WritePassword(r) \/ Tombstone(r)
      PROVE  CredentialsTightened /\ Quiet(r)
  <2>1. req[r].user \in Users
    BY <1>7 DEF WritePassword, Tombstone, RequestsOK, UserPC
  <2>2. CredentialsTightened
    BY <1>7, <2>1 DEF WritePassword, Tombstone, UsersOK, CredentialsTightened
  <2>3. QED
    BY <1>7, <1>c, <2>2, GotoType DEF WritePassword, Tombstone, RequestsOK, PC, Quiet, OnlyMoves
<1>8. ASSUME NEW r \in Requests, Fail(r) \/ BoundReached(r)
      PROVE  CredentialsTightened /\ Quiet(r)
  BY <1>8, <1>a, <1>b, <1>c, <1>d DEF Fail, BoundReached, userVars
<1>9. ASSUME NEW r \in Requests, Finish(r) PROVE CredentialsTightened /\ Quiet(r)
  BY <1>9, <1>a, <1>c, IdleType DEF Finish, Idle, RequestsOK, userVars, Quiet, OnlyMoves
<1>10. CASE Tick \/ UNCHANGED vars
  BY <1>10, <1>a, <1>c DEF Tick, vars, userVars
<1>11. QED
  BY <1>1, <1>2, <1>3, <1>4, <1>5, <1>6, <1>7, <1>8, <1>9, <1>10 DEF Next, Arrive, Proceed, Serve

-----------------------------------------------------------------------------
(* Lineage: the families are trees, of one account each                    *)

\* Succession survives every step that keeps the rows that were there.
LEMMA SucceedsFrame ==
    ASSUME RowsOK, Minted \subseteq Minted',
           \A t \in Minted : grant'[t] = grant[t] /\ epoch'[t] = epoch[t],
           NEW c, NEW t \in Minted, Succeeds(c, t)
    PROVE  Succeeds(c, t)'
<1>1. grant'[c] = grant[c] /\ epoch'[c] = epoch[c] /\ grant'[t] = grant[t] /\ epoch'[t] = epoch[t]
  BY DEF Succeeds
<1>2. c \in Minted' /\ c > t
  BY DEF Succeeds
<1>3. grant[c].family = grant[t].family /\ grant[c].user = grant[t].user /\ epoch[c] = epoch[t]
  BY DEF Succeeds, FamilyOf, OwnerOf
<1>4. QED
  BY <1>1, <1>2, <1>3 DEF Succeeds, FamilyOf, OwnerOf

LEMMA InitLineage == Init => Lineage
BY DEF Init, Lineage, RootsOK, LinksOK, RetiringOK, Minted, Idle

\* A step that keeps every old row: what was said of old rows is still true.
LEMMA OldRows ==
    ASSUME TypeOK, Lineage, Minted \subseteq Minted',
           \A t \in Minted : grant'[t] = grant[t] /\ epoch'[t] = epoch[t]
    PROVE  \A t \in Minted : /\ FamilyOf(t) \in Minted
                             /\ FamilyOf(t)' = FamilyOf(t)
                             /\ (FamilyOf(FamilyOf(t)) = FamilyOf(t))'
                             /\ (t = FamilyOf(t) \/ Succeeds(t, FamilyOf(t)))'
<1> TAKE t \in Minted
<1>1. FamilyOf(t) \in Minted /\ FamilyOf(t)' = FamilyOf(t)
  BY DEF TypeOK, RowsOK, FamilyOf
<1>2. (FamilyOf(FamilyOf(t)) = FamilyOf(t))'
  BY <1>1 DEF Lineage, RootsOK, FamilyOf
<1>3. CASE t = FamilyOf(t)
  BY <1>1, <1>2, <1>3
<1>4. CASE Succeeds(t, FamilyOf(t))
  <2>1. Succeeds(t, FamilyOf(t))'
    <3> DEFINE f == FamilyOf(t)
    <3>1. Succeeds(t, f) /\ f \in Minted /\ FamilyOf(t)' = f
      BY <1>1, <1>4
    <3>2. /\ grant'[t] = grant[t] /\ epoch'[t] = epoch[t]
          /\ grant'[f] = grant[f] /\ epoch'[f] = epoch[f] /\ t \in Minted'
      BY <3>1
    <3>3. t > f /\ grant[t].family = grant[f].family /\ grant[t].user = grant[f].user
          /\ epoch[t] = epoch[f]
      BY <3>1 DEF Succeeds, FamilyOf, OwnerOf
    <3>4. QED
      BY <3>1, <3>2, <3>3 DEF Succeeds, FamilyOf, OwnerOf
  <2>2. QED BY <1>1, <1>2, <2>1
<1>5. QED
  BY <1>1, <1>2, <1>3, <1>4 DEF Lineage, RootsOK

LEMMA NextLineage == TypeOK /\ Lineage /\ [Next]_vars => Lineage'
<1> SUFFICES ASSUME TypeOK, Lineage, [Next]_vars PROVE Lineage'
  OBVIOUS
<1>a. \A t \in Minted : OwnerOf(t) \in Users /\ FamilyOf(t) \in Minted
  BY DEF TypeOK, RowsOK
<1>b. minted \in Nat /\ Minted \subseteq Token /\ Token \subseteq Nat
  BY DEF TypeOK, RowsOK, Minted, Token
\* A step that writes no row and starts no second half of a rotation.
<1>1. ASSUME NEW r \in Requests, RowsKept, OnlyMoves(r), req'[r].pc # "retire"
      PROVE  Lineage'
  <2>1. /\ Minted' = Minted
        /\ \A t \in Minted : grant'[t] = grant[t] /\ epoch'[t] = epoch[t]
        /\ \A c, t : Succeeds(c, t)' <=> Succeeds(c, t)
    BY <1>1 DEF RowsKept, Minted, Succeeds, FamilyOf, OwnerOf
  <2>2. RootsOK'
    BY <2>1, OldRows DEF RootsOK
  <2>3. LinksOK'
    BY <1>1, <2>1 DEF Lineage, LinksOK, RowsKept
  <2>4. RetiringOK'
    BY <1>1, <2>1 DEF Lineage, RetiringOK, OnlyMoves
  <2>5. QED BY <2>2, <2>3, <2>4 DEF Lineage
<1>2. CASE RowsKept /\ UNCHANGED req
  <2>1. /\ Minted' = Minted
        /\ \A t \in Minted : grant'[t] = grant[t] /\ epoch'[t] = epoch[t]
        /\ \A c, t : Succeeds(c, t)' <=> Succeeds(c, t)
    BY <1>2 DEF RowsKept, Minted, Succeeds, FamilyOf, OwnerOf
  <2>2. RootsOK'
    BY <2>1, OldRows DEF RootsOK
  <2>3. LinksOK' /\ RetiringOK'
    BY <1>2, <2>1 DEF Lineage, LinksOK, RetiringOK, RowsKept
  <2>4. QED BY <2>2, <2>3 DEF Lineage
\* A step that inserts the row n of family f: f is n itself or an old family.
<1>3. ASSUME NEW r \in Requests, NEW u \in Users, NEW f \in 1..(minted + 1),
             NEW e \in 0..MaxPasswords, InsertRow(u, f, e),
             \/ f = minted + 1
             \/ f \in Minted /\ FamilyOf(f) = f /\ OwnerOf(f) = u /\ epoch[f] = e,
             \A s \in Requests : s # r => req'[s] = req[s],
             (req[r].pc = "retire" => Succeeds(req[r].child, req[r].token))'
      PROVE  Lineage'
  <2>0. PICK n \in Nat : n = minted + 1
    BY <1>b
  <2>1. /\ n \in Token
        /\ Minted' = Minted \cup {n} /\ n \notin Minted /\ Minted \subseteq Minted'
        /\ \A t \in Minted : grant'[t] = grant[t] /\ epoch'[t] = epoch[t]
        /\ grant'[n].user = u /\ grant'[n].family = f /\ epoch'[n] = e
        /\ replacedBy' = replacedBy /\ revoked' = revoked
    BY <1>3, <2>0, InsertRowType DEF TypeOK
  <2>2. \A c, t : t \in Minted /\ Succeeds(c, t) => Succeeds(c, t)'
    BY <2>1, SucceedsFrame DEF TypeOK
  <2>3. ASSUME NEW t \in Minted'
        PROVE  /\ (FamilyOf(FamilyOf(t)) = FamilyOf(t))'
               /\ (t = FamilyOf(t) \/ Succeeds(t, FamilyOf(t)))'
    <3>1. CASE t \in Minted
      BY <2>1, <3>1, OldRows
    <3>2. CASE t = n /\ f = n
      BY <2>1, <3>2 DEF FamilyOf
    <3>3. CASE t = n /\ f \in Minted /\ FamilyOf(f) = f /\ OwnerOf(f) = u /\ epoch[f] = e
      <4>1. grant'[f] = grant[f] /\ epoch'[f] = e /\ grant[f].family = f /\ grant[f].user = u
        BY <2>1, <3>3 DEF FamilyOf, OwnerOf
      <4>2. n > f
        BY <1>b, <2>0, <3>3 DEF Minted
      <4>3. (FamilyOf(n) = f /\ FamilyOf(f) = f /\ OwnerOf(n) = u /\ OwnerOf(f) = u
             /\ epoch[n] = e /\ epoch[f] = e)'
        BY <2>1, <4>1 DEF FamilyOf, OwnerOf
      <4>4. QED
        BY <2>1, <3>3, <4>2, <4>3 DEF Succeeds
    <3>4. QED BY <1>3, <2>0, <2>1, <3>1, <3>2, <3>3
  <2>4. RootsOK'
    BY <2>3 DEF RootsOK
  <2>5. LinksOK'
    <3> SUFFICES ASSUME NEW t \in Token, replacedBy[t] # NoToken
                 PROVE  t \in revoked' /\ Succeeds(replacedBy[t], t)'
      BY <2>1 DEF LinksOK
    <3>1. t \in revoked /\ Succeeds(replacedBy[t], t)
      BY DEF Lineage, LinksOK
    <3>2. t \in Minted
      BY <3>1 DEF TypeOK, RowsOK
    <3>3. QED
      BY <2>1, <2>2, <3>1, <3>2
  <2>6. RetiringOK'
    <3> SUFFICES ASSUME NEW s \in Requests
                 PROVE  (req[s].pc = "retire" => Succeeds(req[s].child, req[s].token))'
      BY DEF RetiringOK
    <3>1. CASE s = r
      BY <1>3, <3>1
    <3>2. CASE s # r /\ req'[s].pc = "retire"
      <4>1. req'[s] = req[s] /\ req[s].token \in Minted /\ Succeeds(req[s].child, req[s].token)
        BY <1>3, <3>2 DEF Lineage, RetiringOK, TypeOK, RequestsOK, TokenPC
      <4>2. Succeeds(req[s].child, req[s].token)'
        <5> DEFINE c == req[s].child
                   t == req[s].token
        <5>1. /\ grant'[c] = grant[c] /\ epoch'[c] = epoch[c] /\ c \in Minted'
              /\ grant'[t] = grant[t] /\ epoch'[t] = epoch[t] /\ c > t
          BY <2>1, <4>1 DEF Succeeds
        <5>2. grant[c].family = grant[t].family /\ grant[c].user = grant[t].user
              /\ epoch[c] = epoch[t]
          BY <4>1 DEF Succeeds, FamilyOf, OwnerOf
        <5>3. QED
          BY <4>1, <5>1, <5>2 DEF Succeeds, FamilyOf, OwnerOf
      <4>3. QED BY <4>1, <4>2 DEF Succeeds, FamilyOf, OwnerOf
    <3>3. QED BY <3>1, <3>2
  <2>7. QED BY <2>4, <2>5, <2>6 DEF Lineage
<1>4. ASSUME NEW r \in Requests, OpenSession(r) PROVE Lineage'
  <2>1. /\ req[r].user \in Users /\ req[r].pass \in 0..MaxPasswords
        /\ InsertRow(req[r].user, minted + 1, req[r].pass)
    BY <1>4 DEF OpenSession, TypeOK, RequestsOK, UserPC, Request
  <2>2. minted + 1 \in 1..(minted + 1) /\ minted + 1 \in 0..MaxTokens
    BY <1>b, <2>1, InsertRowType DEF Token, TypeOK
  <2>3. req'[r].pc = "answered" /\ \A s \in Requests : s # r => req'[s] = req[s]
    BY <1>4, <2>2, AnswerType DEF OpenSession, TypeOK, RequestsOK, Answer
  <2>4. QED BY <1>3, <2>1, <2>2, <2>3
<1>5. ASSUME NEW r \in Requests, RotateInsert(r) PROVE Lineage'
  <2>0. PICK n, t, f : n = minted + 1 /\ t = req[r].token /\ f = FamilyOf(t)
    OBVIOUS
  <2>1. /\ t \in Minted /\ OwnerOf(t) \in Users /\ f \in Minted /\ f \in 1..(minted + 1)
        /\ epoch[t] \in 0..MaxPasswords
        /\ InsertRow(OwnerOf(t), f, epoch[t])
    BY <1>5, <1>a, <1>b, <2>0 DEF RotateInsert, TypeOK, RequestsOK, RowsOK, TokenPC, Minted
  <2>2. FamilyOf(f) = f /\ OwnerOf(f) = OwnerOf(t) /\ epoch[f] = epoch[t]
    BY <2>0, <2>1 DEF Lineage, RootsOK, Succeeds
  <2>3. /\ n \in Token /\ Minted' = Minted \cup {n}
        /\ grant'[t] = grant[t] /\ epoch'[t] = epoch[t]
        /\ grant'[n].user = OwnerOf(t) /\ grant'[n].family = f /\ epoch'[n] = epoch[t]
    BY <2>0, <2>1, InsertRowType DEF TypeOK
  <2>4. /\ req'[r].pc = "retire" /\ req'[r].token = t /\ req'[r].child = n
        /\ \A s \in Requests : s # r => req'[s] = req[s]
    BY <1>5, <2>0, <2>3 DEF RotateInsert, TypeOK, RequestsOK, Request, Token
  <2>5. Succeeds(n, t)'
    <3>1. n \in Minted' /\ n > t
      BY <1>b, <2>0, <2>1, <2>3 DEF Minted
    <3>2. QED
      BY <2>0, <2>3, <3>1 DEF Succeeds, FamilyOf, OwnerOf
  <2>6. (req[r].pc = "retire" => Succeeds(req[r].child, req[r].token))'
    BY <2>4, <2>5 DEF Succeeds, FamilyOf, OwnerOf
  <2>7. QED BY <1>3, <2>1, <2>2, <2>4, <2>6
<1>6. ASSUME NEW r \in Requests, RotateRetire(r) PROVE Lineage'
  <2> DEFINE t == req[r].token
  <2>1. /\ t \in Minted /\ t \in Token /\ Succeeds(req[r].child, t)
    BY <1>6, <1>b DEF RotateRetire, TypeOK, RequestsOK, TokenPC, Lineage, RetiringOK
  <2>2. /\ Minted' = Minted
        /\ \A s \in Minted : grant'[s] = grant[s] /\ epoch'[s] = epoch[s]
        /\ \A c, s : Succeeds(c, s)' <=> Succeeds(c, s)
    BY <1>6 DEF RotateRetire, Minted, Succeeds, FamilyOf, OwnerOf
  <2>3. RootsOK'
    BY <2>2, OldRows DEF RootsOK
  <2>4. LinksOK'
    <3>1. /\ revoked' = revoked \cup {t}
          /\ replacedBy' = [replacedBy EXCEPT ![t] = req[r].child]
          /\ replacedBy \in [Token -> 0..MaxTokens]
      BY <1>6 DEF RotateRetire, TypeOK, RowsOK
    <3>2. \A s \in Token : s # t => replacedBy'[s] = replacedBy[s]
      BY <3>1
    <3>3. replacedBy'[t] = req[r].child
      BY <2>1, <3>1
    <3>4. QED
      BY <2>1, <2>2, <3>1, <3>2, <3>3 DEF Lineage, LinksOK
  <2>5. RetiringOK'
    <3>1. req'[r].pc = "respond" /\ \A s \in Requests : s # r => req'[s] = req[s]
      BY <1>6, GotoType DEF RotateRetire, TypeOK, RequestsOK, PC
    <3>2. QED
      BY <2>2, <3>1 DEF Lineage, RetiringOK
  <2>6. QED BY <2>3, <2>4, <2>5 DEF Lineage
<1>7. QED
  BY <1>1, <1>2, <1>4, <1>5, <1>6, StepShape DEF Quiet, AdmitsLogin, AdmitsRotation

\* A family belongs to one account and its links stay inside it, point forward
\* and leave revoked rows only, however many handlers interleave or fail.
THEOREM LineageCorrect == Spec => []Lineage
<1>1. Init => Lineage
  BY InitLineage
<1>2. TypeOK /\ Lineage /\ [Next]_vars => Lineage'
  BY NextLineage
<1>3. QED
  BY <1>1, <1>2, TypeCorrect, PTL DEF Spec

-----------------------------------------------------------------------------
(* Closed sessions and drained credentials                                 *)

\* What an inserted row adds: nothing to any set of old rows but itself.
LEMMA InsertStep ==
    ASSUME TypeOK, NEW r \in Requests, OpenSession(r) \/ RotateInsert(r)
    PROVE  \E n, u, f, e :
             /\ Minted' = Minted \cup {n} /\ n \notin Minted
             /\ \A t \in Minted : grant'[t] = grant[t] /\ epoch'[t] = epoch[t]
             /\ grant'[n].user = u /\ grant'[n].family = f /\ epoch'[n] = e
             /\ revoked' = revoked
             /\ OnlyMoves(r)
             /\ \/ /\ req[r].pc = "openSession" /\ req'[r].pc = "answered"
                   /\ f = n /\ u = req[r].user /\ e = req[r].pass
                \/ /\ req[r].pc = "insertChild" /\ req'[r].pc = "retire"
                   /\ req[r].token \in Minted
                   /\ f = FamilyOf(req[r].token) /\ u = OwnerOf(req[r].token)
                   /\ e = epoch[req[r].token]
<1> USE DEF TypeOK
<1>b. minted \in Nat /\ Minted \subseteq Token /\ Token \subseteq 0..MaxTokens
  BY DEF RowsOK, Minted, Token
<1>1. CASE OpenSession(r)
  <2>1. PICK n, u, e : n = minted + 1 /\ u = req[r].user /\ e = req[r].pass
    OBVIOUS
  <2>2. u \in Users /\ e \in 0..MaxPasswords /\ n \in 1..(minted + 1) /\ InsertRow(u, n, e)
    BY <1>1, <1>b, <2>1 DEF OpenSession, RequestsOK, UserPC, Request
  <2>3. /\ n \in 0..MaxTokens
        /\ Minted' = Minted \cup {n} /\ n \notin Minted
        /\ \A t \in Minted : grant'[t] = grant[t] /\ epoch'[t] = epoch[t]
        /\ grant'[n].user = u /\ grant'[n].family = n /\ epoch'[n] = e
        /\ revoked' = revoked
    BY <1>b, <2>1, <2>2, InsertRowType
  <2>4. OnlyMoves(r) /\ req[r].pc = "openSession" /\ req'[r].pc = "answered"
    BY <1>1, <2>1, <2>3, AnswerType DEF OpenSession, RequestsOK, Answer, OnlyMoves
  <2>5. QED
    BY <2>1, <2>3, <2>4
<1>2. CASE RotateInsert(r)
  <2>1. PICK n, t : n = minted + 1 /\ t = req[r].token
    OBVIOUS
  <2>2. PICK u, f, e : u = OwnerOf(t) /\ f = FamilyOf(t) /\ e = epoch[t]
    OBVIOUS
  <2>3. /\ t \in Minted /\ u \in Users /\ f \in 1..(minted + 1) /\ e \in 0..MaxPasswords
        /\ InsertRow(u, f, e)
    BY <1>2, <1>b, <2>1, <2>2 DEF RotateInsert, RowsOK, RequestsOK, TokenPC, Minted
  <2>4. /\ n \in 0..MaxTokens
        /\ Minted' = Minted \cup {n} /\ n \notin Minted
        /\ \A s \in Minted : grant'[s] = grant[s] /\ epoch'[s] = epoch[s]
        /\ grant'[n].user = u /\ grant'[n].family = f /\ epoch'[n] = e
        /\ revoked' = revoked
    BY <1>b, <2>1, <2>3, InsertRowType
  <2>5. OnlyMoves(r) /\ req[r].pc = "insertChild" /\ req'[r].pc = "retire"
    <3>1. req' = [req EXCEPT ![r].pc = "retire", ![r].child = n] /\ req[r].pc = "insertChild"
      BY <1>2, <2>1 DEF RotateInsert
    <3>2. req \in [Requests -> Request] /\ n \in 0..MaxTokens
      BY <2>4 DEF RequestsOK
    <3>3. /\ req' \in [Requests -> Request] /\ req'[r].pc = "retire"
          /\ \A s \in Requests : s # r => req'[s] = req[s]
      BY <3>1, <3>2 DEF Request, PC
    <3>4. QED
      BY <3>1, <3>3 DEF OnlyMoves
  <2>6. QED
    BY <2>1, <2>2, <2>3, <2>4, <2>5
<1>3. QED BY <1>1, <1>2

\* No step reopens a closed session.
LEMMA NextClosed ==
    ASSUME TypeOK, [Next]_vars, NEW f \in Minted, SessionClosed(f)
    PROVE  SessionClosed(f)'
<1>a. \A t \in Minted : FamilyOf(t) = f => t \in revoked
  BY DEF SessionClosed, FamilyMembers
<1>b. \A r \in Requests : ~(req[r].pc = "insertChild" /\ FamilyOf(req[r].token) = f)
  BY DEF SessionClosed, Rotating
<1>c. \A r \in Requests : req[r].pc = "insertChild" => req[r].token \in Minted
  BY DEF TypeOK, RequestsOK, TokenPC
\* It is enough to look at every row and every handler after the step.
<1>d. ASSUME \A t \in Minted' : grant'[t].family = f => t \in revoked',
             \A r \in Requests : ~(req'[r].pc = "insertChild"
                                     /\ grant'[req'[r].token].family = f)
      PROVE  SessionClosed(f)'
  BY <1>d DEF SessionClosed, FamilyMembers, Rotating, FamilyOf
<1>1. ASSUME RowsKept PROVE Minted' = Minted /\ grant' = grant /\ revoked \subseteq revoked'
  BY <1>1 DEF RowsKept, Minted
<1>2. CASE RowsKept /\ UNCHANGED req
  BY <1>a, <1>b, <1>d, <1>1, <1>2 DEF FamilyOf
<1>3. ASSUME NEW r \in Requests, Quiet(r) \/ AdmitsLogin(r)
      PROVE  SessionClosed(f)'
  <2>1. RowsKept /\ OnlyMoves(r) /\ req'[r].pc # "insertChild"
    BY <1>3 DEF Quiet, AdmitsLogin
  <2>2. QED
    BY <1>a, <1>b, <1>d, <1>1, <2>1 DEF OnlyMoves, FamilyOf
<1>4. ASSUME NEW r \in Requests, AdmitsRotation(r) PROVE SessionClosed(f)'
  <2>1. RowsKept /\ OnlyMoves(r) /\ FamilyOf(req'[r].token) # f
    BY <1>4, <1>a DEF AdmitsRotation, Live
  <2>2. QED
    BY <1>a, <1>b, <1>d, <1>1, <2>1 DEF OnlyMoves, FamilyOf
<1>5. ASSUME NEW r \in Requests, OpenSession(r) \/ RotateInsert(r) PROVE SessionClosed(f)'
  <2>1. PICK n, g :
             /\ Minted' = Minted \cup {n} /\ n \notin Minted
             /\ \A t \in Minted : grant'[t] = grant[t]
             /\ grant'[n].family = g
             /\ revoked' = revoked
             /\ OnlyMoves(r)
             /\ req'[r].pc # "insertChild"
             /\ g = n \/ (req[r].pc = "insertChild" /\ g = FamilyOf(req[r].token))
    BY <1>5, InsertStep
  <2>2. g # f
    BY <1>b, <2>1
  <2>3. \A t \in Minted' : grant'[t].family = f => t \in revoked'
    BY <1>a, <2>1, <2>2 DEF FamilyOf
  <2>4. ASSUME NEW s \in Requests, req'[s].pc = "insertChild"
        PROVE  grant'[req'[s].token].family # f
    <3>1. req'[s] = req[s] /\ req[s].token \in Minted
      BY <1>c, <2>1, <2>4 DEF OnlyMoves
    <3>2. QED
      BY <1>b, <2>1, <2>4, <3>1 DEF FamilyOf
  <2>5. QED BY <1>d, <2>3, <2>4
<1>6. ASSUME NEW r \in Requests, RotateRetire(r) PROVE SessionClosed(f)'
  <2>1. Minted' = Minted /\ grant' = grant /\ revoked \subseteq revoked'
    BY <1>6 DEF RotateRetire, Minted
  <2>2. req'[r].pc = "respond" /\ OnlyMoves(r)
    BY <1>6, GotoType DEF RotateRetire, TypeOK, RequestsOK, PC, OnlyMoves
  <2>3. QED
    BY <1>a, <1>b, <1>d, <2>1, <2>2 DEF OnlyMoves, FamilyOf
<1>7. QED
  BY <1>2, <1>3, <1>4, <1>5, <1>6, StepShape

\* A session without a live token and without a rotation past its check never
\* gets a live token again.
THEOREM ClosedSessions == Spec => ClosedSessionStaysClosed
<1>1. TypeOK /\ [Next]_vars =>
        [\A f \in Minted : SessionClosed(f) => SessionClosed(f)']_vars
  BY NextClosed
<1>2. QED
  BY <1>1, TypeCorrect, PTL DEF Spec, ClosedSessionStaysClosed

\* No step of any handler brings a drained credential back.
LEMMA NextDrained ==
    ASSUME TypeOK, [Next]_vars, NEW u \in Users, NEW p \in 0..MaxPasswords,
           CredentialDrained(u, p)
    PROVE  CredentialDrained(u, p)'
<1>a. \A t \in Minted : grant[t].user = u /\ epoch[t] = p => t \in revoked
  BY DEF CredentialDrained, TokensOf, OwnerOf
<1>b. \A r \in Requests :
         /\ ~(req[r].pc = "openSession" /\ req[r].user = u /\ req[r].pass = p)
         /\ ~(req[r].pc = "insertChild" /\ OwnerOf(req[r].token) = u
                                        /\ epoch[req[r].token] = p)
  BY DEF CredentialDrained
<1>c. \A r \in Requests : req[r].pc = "insertChild" => req[r].token \in Minted
  BY DEF TypeOK, RequestsOK, TokenPC
<1>d. password[u] \in Nat /\ password'[u] \in Nat
  <2>1. TypeOK'
    BY NextType
  <2>2. QED
    BY <2>1 DEF TypeOK, UsersOK
<1>e. (status[u] = "DELETED" \/ p < password[u])'
  BY <1>d, StepShape DEF CredentialDrained, CredentialsTightened
<1>f. ASSUME \A t \in Minted' : grant'[t].user = u /\ epoch'[t] = p => t \in revoked',
             \A r \in Requests :
               /\ ~(req'[r].pc = "openSession" /\ req'[r].user = u /\ req'[r].pass = p)
               /\ ~(req'[r].pc = "insertChild" /\ grant'[req'[r].token].user = u
                                               /\ epoch'[req'[r].token] = p)
      PROVE  CredentialDrained(u, p)'
  BY <1>e, <1>f DEF CredentialDrained, TokensOf, OwnerOf
<1>1. ASSUME RowsKept
      PROVE  Minted' = Minted /\ grant' = grant /\ epoch' = epoch /\ revoked \subseteq revoked'
  BY <1>1 DEF RowsKept, Minted
<1>2. CASE RowsKept /\ UNCHANGED req
  BY <1>a, <1>b, <1>f, <1>1, <1>2 DEF OwnerOf
<1>3. ASSUME NEW r \in Requests, Quiet(r) PROVE CredentialDrained(u, p)'
  BY <1>a, <1>b, <1>f, <1>1, <1>3 DEF Quiet, OnlyMoves, OwnerOf
<1>4. ASSUME NEW r \in Requests, AdmitsLogin(r) PROVE CredentialDrained(u, p)'
  <2>1. ~(req'[r].user = u /\ req'[r].pass = p)
    BY <1>4, <1>d DEF AdmitsLogin, CredentialDrained
  <2>2. RowsKept /\ OnlyMoves(r) /\ req'[r].pc # "insertChild"
    BY <1>4 DEF AdmitsLogin
  <2>3. QED
    BY <1>a, <1>b, <1>f, <1>1, <2>1, <2>2 DEF OnlyMoves, OwnerOf
<1>5. ASSUME NEW r \in Requests, AdmitsRotation(r) PROVE CredentialDrained(u, p)'
  <2>1. /\ RowsKept /\ OnlyMoves(r) /\ req'[r].pc # "openSession"
        /\ ~(grant[req'[r].token].user = u /\ epoch[req'[r].token] = p)
    BY <1>5, <1>a DEF AdmitsRotation, Live
  <2>2. QED
    BY <1>a, <1>b, <1>f, <1>1, <2>1 DEF OnlyMoves, OwnerOf
<1>6. ASSUME NEW r \in Requests, OpenSession(r) \/ RotateInsert(r)
      PROVE  CredentialDrained(u, p)'
  <2>1. PICK n, v, e :
             /\ Minted' = Minted \cup {n} /\ n \notin Minted
             /\ \A t \in Minted : grant'[t] = grant[t] /\ epoch'[t] = epoch[t]
             /\ grant'[n].user = v /\ epoch'[n] = e
             /\ revoked' = revoked
             /\ OnlyMoves(r)
             /\ req'[r].pc \notin {"insertChild", "openSession"}
             /\ \/ req[r].pc = "openSession" /\ v = req[r].user /\ e = req[r].pass
                \/ /\ req[r].pc = "insertChild"
                   /\ v = OwnerOf(req[r].token) /\ e = epoch[req[r].token]
    BY <1>6, InsertStep
  <2>2. ~(v = u /\ e = p)
    BY <1>b, <2>1
  <2>3. \A t \in Minted' : grant'[t].user = u /\ epoch'[t] = p => t \in revoked'
    BY <1>a, <2>1, <2>2
  <2>4. \A s \in Requests :
          /\ ~(req'[s].pc = "openSession" /\ req'[s].user = u /\ req'[s].pass = p)
          /\ ~(req'[s].pc = "insertChild" /\ grant'[req'[s].token].user = u
                                          /\ epoch'[req'[s].token] = p)
    BY <1>b, <1>c, <2>1 DEF OnlyMoves, OwnerOf
  <2>5. QED BY <1>f, <2>3, <2>4
<1>7. ASSUME NEW r \in Requests, RotateRetire(r) PROVE CredentialDrained(u, p)'
  <2>1. Minted' = Minted /\ grant' = grant /\ epoch' = epoch /\ revoked \subseteq revoked'
    BY <1>7 DEF RotateRetire, Minted
  <2>2. req'[r].pc = "respond" /\ OnlyMoves(r)
    BY <1>7, GotoType DEF RotateRetire, TypeOK, RequestsOK, PC, OnlyMoves
  <2>3. QED
    BY <1>a, <1>b, <1>f, <2>1, <2>2 DEF OnlyMoves, OwnerOf
<1>8. QED
  BY <1>2, <1>3, <1>4, <1>5, <1>6, <1>7, StepShape

\* A changed password or a deleted account never yields a session again once
\* its sessions and the handlers past their checks are gone.
THEOREM DrainedCredentials == Spec => DrainedCredentialStaysOut
<1>1. TypeOK /\ [Next]_vars =>
        [\A u \in Users, p \in 0..MaxPasswords :
            CredentialDrained(u, p) => CredentialDrained(u, p)']_vars
  BY NextDrained
<1>2. QED
  BY <1>1, TypeCorrect, PTL DEF Spec, DrainedCredentialStaysOut

-----------------------------------------------------------------------------
(* One live token                                                          *)

\* A step of a handler leaves the other handlers where they are.
LEMMA OthersStay ==
    ASSUME TypeOK, NEW q \in Requests, Arrive(q) \/ Proceed(q) \/ Fail(q),
           NEW r \in Requests, r # q
    PROVE  req'[r] = req[r]
<1>1. req \in [Requests -> Request]
  BY DEF TypeOK, RequestsOK
<1>2. ASSUME NEW a, NEW t, NEW c, AnswerAbout(q, a, t, c) \/ AnswerWith(q, a) PROVE req'[r] = req[r]
  BY <1>1, <1>2 DEF AnswerAbout, AnswerWith
<1>3. ASSUME NEW pc, NEW u, NEW t, NEW p, Enter(q, pc, u, t, p) \/ Goto(q, pc) PROVE req'[r] = req[r]
  BY <1>1, <1>3 DEF Enter, Goto
<1>4. CASE Arrive(q)
  BY <1>2, <1>3, <1>4 DEF Arrive, Login, ChangePassword, DeleteAccount, LogoutAll, PresentToken, Logout
<1>5. CASE RotateInsert(q) \/ Finish(q)
  BY <1>1, <1>5 DEF RotateInsert, Finish
<1>6. CASE \/ OpenSession(q) \/ RevokeFamily(q) \/ RevokeOne(q) \/ Respond(q) \/ RevokeAll(q)
           \/ BoundReached(q) \/ Fail(q)
  BY <1>2, <1>6 DEF OpenSession, RevokeFamily, RevokeOne, Respond, RevokeAll, BoundReached, Fail
<1>7. CASE RotateRead(q) \/ RotateRetire(q) \/ WritePassword(q) \/ Tombstone(q)
  BY <1>2, <1>3, <1>7 DEF RotateRead, RotateRetire, WritePassword, Tombstone
<1>8. QED BY <1>4, <1>5, <1>6, <1>7 DEF Proceed, Serve

\* A rotation that has inserted the child retires the parent, or dies.
LEMMA LeavesRetire ==
    ASSUME TypeOK, [Next]_vars, NEW r \in Requests, req[r].pc = "retire", req'[r] # req[r]
    PROVE  RotateRetire(r) \/ (Fail(r) /\ DiesRotating(r))
<1>1. \E q \in Requests : Arrive(q) \/ Proceed(q) \/ Fail(q)
  BY DEF Next, Tick, vars
<1>2. Arrive(r) \/ Proceed(r) \/ Fail(r)
  BY <1>1, OthersStay
<1>3. RotateRetire(r) \/ Fail(r)
  BY <1>2 DEF Arrive, Proceed, Serve, Login, ChangePassword, DeleteAccount, LogoutAll, PresentToken, Logout,
     OpenSession, RotateRead, RevokeFamily, RevokeOne, RotateInsert, Respond, WritePassword, Tombstone,
     RevokeAll, BoundReached, Finish
<1>4. Fail(r) => DiesRotating(r)
  BY DEF Fail, DiesRotating, AnswerWith, AnswerAbout, TypeOK, RequestsOK
<1>5. QED BY <1>3, <1>4

\* Two tokens that were live before the step, and are after it, are still told apart.
LEMMA OldPairs ==
    ASSUME TypeOK, [Next]_vars, OneLiveToken, \A r \in Requests : ~(Fail(r) /\ DiesRotating(r)),
           NEW s \in Live, NEW t \in Live, FamilyOf(s) = FamilyOf(t), s < t, s \notin revoked'
    PROVE  \E r \in Requests : req'[r].pc = "retire" /\ req'[r].token = s /\ req'[r].child = t
<1>1. PICK r \in Requests : req[r].pc = "retire" /\ req[r].token = s /\ req[r].child = t
  BY DEF OneLiveToken
<1>2. ~RotateRetire(r)
  BY <1>1 DEF RotateRetire
<1>3. QED BY <1>1, <1>2, LeavesRetire

\* A second live token comes from a rotation that dies or from rotations that overlap.
LEMMA NextForks ==
    ASSUME TypeOK, [Next]_vars, OneLiveToken,
           \A r \in Requests : ~(Fail(r) /\ DiesRotating(r)) /\ ~InsertsOvertaken(r)
    PROVE  OneLiveToken'
<1>a. minted \in Nat /\ Minted \subseteq Token /\ \A t \in Minted : FamilyOf(t) \in Minted
  BY DEF TypeOK, RowsOK, Minted, Token
<1>b. SUFFICES ASSUME NEW s \in Live', NEW t \in Live', FamilyOf(s)' = FamilyOf(t)', s < t
               PROVE  \E r \in Requests : req'[r].pc = "retire" /\ req'[r].token = s /\ req'[r].child = t
  BY DEF OneLiveToken
<1>1. CASE Minted' = Minted /\ grant' = grant /\ revoked \subseteq revoked'
  <2>1. s \in Live /\ t \in Live /\ FamilyOf(s) = FamilyOf(t) /\ s \notin revoked'
    BY <1>1, <1>b DEF Live, FamilyOf
  <2>2. QED BY <1>b, <2>1, OldPairs
<1>2. ASSUME NEW q \in Requests, OpenSession(q) \/ RotateInsert(q)
      PROVE  \E r \in Requests : req'[r].pc = "retire" /\ req'[r].token = s /\ req'[r].child = t
  <2>1. PICK f : /\ minted' = minted + 1 /\ revoked' = revoked
                 /\ grant'[minted + 1].family = f
                 /\ \A x \in Minted : grant'[x].family = grant[x].family
                 /\ \/ OpenSession(q) /\ f = minted + 1
                    \/ RotateInsert(q) /\ f = FamilyOf(req[q].token)
    <3>1. CASE OpenSession(q)
      <4>1. InsertRow(req[q].user, minted + 1, req[q].pass) /\ minted' = minted + 1
            /\ minted + 1 \in Token /\ revoked' = revoked
        BY <1>a, <3>1 DEF OpenSession, InsertRow, TypeOK, RowsOK, Token
      <4>2. QED BY <1>a, <3>1, <4>1 DEF InsertRow, TypeOK, RowsOK, Minted
    <3>2. CASE RotateInsert(q)
      <4>1. /\ InsertRow(OwnerOf(req[q].token), FamilyOf(req[q].token), epoch[req[q].token])
            /\ minted' = minted + 1 /\ minted + 1 \in Token /\ revoked' = revoked
        BY <1>a, <3>2 DEF RotateInsert, InsertRow, TypeOK, RowsOK, Token
      <4>2. QED BY <1>a, <3>2, <4>1 DEF InsertRow, TypeOK, RowsOK, Minted
    <3>3. QED BY <1>2, <3>1, <3>2
  <2>2. /\ s \in Minted \/ s = minted + 1
        /\ t \in Minted \/ t = minted + 1
        /\ s \notin revoked /\ t \notin revoked /\ s \notin revoked'
    BY <1>a, <1>b, <2>1 DEF Live, Minted
  <2>3. s \in Minted
    BY <1>a, <1>b, <2>2 DEF Minted
  <2>4. s \in Live /\ FamilyOf(s) \in Minted /\ grant'[s].family = FamilyOf(s)
    BY <1>a, <2>1, <2>2, <2>3 DEF Live, FamilyOf
  <2>5. CASE t \in Minted
    <3>1. t \in Live /\ FamilyOf(s) = FamilyOf(t)
      BY <1>b, <2>1, <2>2, <2>4, <2>5 DEF Live, FamilyOf
    <3>2. QED BY <1>b, <2>2, <2>4, <3>1, OldPairs
  <2>6. CASE t = minted + 1
    <3>1. f = FamilyOf(s)
      BY <1>b, <2>1, <2>4, <2>6 DEF FamilyOf
    <3>2. RotateInsert(q) /\ req[q].token \in Minted /\ FamilyOf(req[q].token) = FamilyOf(s)
      <4>1. minted + 1 \notin Minted
        BY <1>a DEF Minted
      <4>2. RotateInsert(q)
        BY <2>1, <2>4, <3>1, <4>1
      <4>3. QED BY <2>1, <3>1, <4>1, <4>2, <2>4 DEF RotateInsert, TypeOK, RequestsOK, TokenPC
    <3>3. /\ req[q].pc = "insertChild"
          /\ req'[q].pc = "retire" /\ req'[q].token = req[q].token /\ req'[q].child = minted + 1
      <4>1. req \in [Requests -> Request] /\ req[q].pc = "insertChild"
            /\ req' = [req EXCEPT ![q].pc = "retire", ![q].child = minted + 1]
        BY <3>2 DEF RotateInsert, TypeOK, RequestsOK
      <4>2. QED BY <4>1 DEF Request
    <3>4. /\ req[q].token \notin revoked
          /\ \A r \in Requests : req[r].pc = "retire" => FamilyOf(req[r].token) # FamilyOf(s)
      BY <3>2, <3>3 DEF InsertsOvertaken
    <3>5. req[q].token = s
      <4>1. SUFFICES ASSUME req[q].token # s PROVE FALSE
        OBVIOUS
      <4>2. PICK u \in Token : u = req[q].token
        BY <1>a, <3>2
      <4>3. s \in Nat /\ u \in Nat /\ (s < u \/ u < s) /\ u \in Live
        BY <1>a, <2>3, <3>2, <3>4, <4>1, <4>2 DEF Token, Live
      <4>4. \E r \in Requests : req[r].pc = "retire" /\ req[r].token \in {s, u}
        BY <2>4, <3>2, <4>2, <4>3 DEF OneLiveToken
      <4>5. QED BY <3>2, <3>4, <4>2, <4>4
    <3>6. QED BY <2>6, <3>3, <3>5
  <2>7. QED BY <2>2, <2>5, <2>6
<1>3. \/ Minted' = Minted /\ grant' = grant /\ revoked \subseteq revoked'
      \/ \E q \in Requests : OpenSession(q) \/ RotateInsert(q)
  <2>1. RowsKept \/ (\E q \in Requests : RotateRetire(q)) =>
            Minted' = Minted /\ grant' = grant /\ revoked \subseteq revoked'
    BY DEF RowsKept, RotateRetire, Minted
  <2>2. QED BY <2>1, StepShape DEF Quiet, AdmitsLogin, AdmitsRotation
<1>4. QED BY <1>1, <1>2, <1>3

\* A session gets a second live token only by a rotation that dies between its writes or by
\* rotations that overlap (TokenService.rotate).
THEOREM ForksExplained == Spec => ForksOnlyByOverlapOrDeath
<1>1. TypeOK /\ [Next]_vars =>
        [OneLiveToken /\ ~OneLiveToken' =>
            \E r \in Requests : DiesRotating(r) \/ InsertsOvertaken(r)]_vars
  BY NextForks
<1>2. QED BY <1>1, TypeCorrect, PTL DEF Spec, ForksOnlyByOverlapOrDeath

-----------------------------------------------------------------------------
(* Handlers that run one at a time                                         *)

\* The session of t was opened with the password in force, of an active account.
Current(t) == epoch[t] = password[OwnerOf(t)] /\ status[OwnerOf(t)] = "ACTIVE"
Alone(q) == \A r \in Requests : r # q => req[r].pc \in {"idle", "answered"}

(* What holds while the behaviour is calm: one handler at a time is in     *)
(* progress, every live token is current or about to be revoked with the   *)
(* others of its account, and what a handler has checked is still so.      *)
CalmOK ==
    /\ \A r, s \in InProgress : r = s
    /\ \A t \in Live : Current(t) \/ \E r \in Requests : req[r].pc = "revokeAll" /\ req[r].user = OwnerOf(t)
    /\ \A r \in Requests :
          /\ req[r].pc = "openSession" =>
                req[r].pass = password[req[r].user] /\ status[req[r].user] = "ACTIVE"
          /\ req[r].pc = "insertChild" => req[r].token \in Live
    /\ OneLiveToken

LEMMA InitCalm == Init => CalmOK
<1> SUFFICES ASSUME Init PROVE CalmOK
  OBVIOUS
<1>1. Live = {} /\ \A r \in Requests : req[r].pc = "idle"
  BY DEF Init, Live, Minted, Idle
<1>2. InProgress = {}
  BY <1>1 DEF InProgress
<1>3. OneLiveToken
  BY <1>1 DEF OneLiveToken
<1>4. QED BY <1>1, <1>2, <1>3 DEF CalmOK

\* A handler that arrives or goes on in a calm step is alone.
LEMMA CalmAlone ==
    ASSUME TypeOK, CalmOK, ~Overlap, NEW q \in Requests, Arrive(q) \/ Serve(q)
    PROVE  Alone(q)
<1>1. SUFFICES ASSUME NEW r \in Requests, r # q, req[r].pc \notin {"idle", "answered"} PROVE FALSE
  BY DEF Alone
<1>2. r \in InProgress
  BY <1>1 DEF InProgress
<1>3. CASE Serve(q)
  <2>1. req[q].pc \notin {"idle", "answered"}
    BY <1>3 DEF Serve, OpenSession, RotateRead, RevokeFamily, RevokeOne, RotateInsert, RotateRetire,
       Respond, WritePassword, Tombstone, RevokeAll, BoundReached
  <2>2. q \in InProgress
    BY <2>1 DEF InProgress
  <2>3. QED BY <1>1, <1>2, <2>2 DEF CalmOK
<1>4. CASE Arrive(q)
  <2>1. req[q].pc = "idle"
    BY <1>4 DEF Arrive, Login, ChangePassword, DeleteAccount, LogoutAll, PresentToken, Logout
  <2>2. req'[q].pc # "idle"
    <3>1. req \in [Requests -> Request]
      BY DEF TypeOK, RequestsOK
    <3>2. ASSUME NEW a, NEW t, NEW c, AnswerAbout(q, a, t, c) \/ AnswerWith(q, a) PROVE req'[q].pc # "idle"
      BY <3>1, <3>2 DEF AnswerAbout, AnswerWith
    <3>3. ASSUME NEW pc, NEW u, NEW t, NEW p, Enter(q, pc, u, t, p), pc # "idle" PROVE req'[q].pc # "idle"
      BY <3>1, <3>3 DEF Enter
    <3>4. QED
      BY <1>4, <3>2, <3>3 DEF Arrive, Login, ChangePassword, DeleteAccount, LogoutAll, PresentToken, Logout,
         AnswerWith
  <2>3. QED BY <1>1, <1>2, <2>1, <2>2 DEF Overlap
<1>5. QED BY <1>3, <1>4

\* A step of the only handler in progress: what it has to see to.
LEMMA CalmMove ==
    ASSUME NEW q \in Requests, Alone(q), OneLiveToken',
           \A r \in Requests : r # q => req'[r] = req[r],
           \A t \in Live' : Current(t)' \/ (req'[q].pc = "revokeAll" /\ req'[q].user = OwnerOf(t)'),
           req'[q].pc = "openSession" =>
               req'[q].pass = password'[req'[q].user] /\ status'[req'[q].user] = "ACTIVE",
           req'[q].pc = "insertChild" => req'[q].token \in Live'
    PROVE  CalmOK'
<1>1. \A r \in Requests : r # q => req'[r].pc \in {"idle", "answered"}
  BY DEF Alone
<1>2. \A r, s \in InProgress' : r = s
  BY <1>1 DEF InProgress
<1>3. QED BY <1>1, <1>2 DEF CalmOK

\* While one handler is in progress, or none is, the live tokens are current but for those
\* that this handler is about to revoke.
LEMMA CalmTokens ==
    ASSUME CalmOK, NEW q \in Requests, Alone(q), NEW t \in Live
    PROVE  Current(t) \/ (req[q].pc = "revokeAll" /\ req[q].user = OwnerOf(t))
BY DEF CalmOK, Alone

\* A step that writes no row and no account, of a handler that was not about to revoke.
LEMMA CalmReads ==
    ASSUME TypeOK, CalmOK, NEW q \in Requests, Alone(q), OneLiveToken',
           \A r \in Requests : r # q => req'[r] = req[r],
           req[q].pc # "revokeAll",
           UNCHANGED <<minted, grant, epoch, userVars>>, revoked \subseteq revoked',
           req'[q].pc = "openSession" =>
               req'[q].pass = password'[req'[q].user] /\ status'[req'[q].user] = "ACTIVE",
           req'[q].pc = "insertChild" => req'[q].token \in Live'
    PROVE  CalmOK'
<1>1. \A t \in Live' : t \in Live /\ (Current(t) => Current(t)')
  BY DEF Live, Minted, Current, OwnerOf, userVars
<1>2. \A t \in Live' : Current(t)'
  BY <1>1, CalmTokens
<1>3. QED BY <1>2, CalmMove

\* A calm step does not fork a session.
LEMMA CalmForks ==
    ASSUME TypeOK, CalmOK, [Next]_vars, \A r \in Requests : ~Fail(r)
    PROVE  OneLiveToken'
<1>1. ASSUME NEW r \in Requests, InsertsOvertaken(r) PROVE FALSE
  <2>1. req[r].pc = "insertChild" /\ req[r].token \notin revoked /\ r \in InProgress
    BY <1>1 DEF InsertsOvertaken, CalmOK, Live, InProgress
  <2>2. PICK s \in Requests : req[s].pc = "retire"
    BY <1>1, <2>1 DEF InsertsOvertaken
  <2>3. s \in InProgress
    BY <2>2 DEF InProgress
  <2>4. QED BY <2>1, <2>2, <2>3 DEF CalmOK
<1>2. QED BY <1>1, NextForks DEF CalmOK

LEMMA CalmArrive ==
    ASSUME TypeOK, CalmOK, OneLiveToken', NEW q \in Requests, Alone(q), Arrive(q)
    PROVE  CalmOK'
<1>a. \A r \in Requests : r # q => req'[r] = req[r]
  BY OthersStay
<1>b. req \in [Requests -> Request] /\ req[q].pc = "idle"
  BY DEF TypeOK, RequestsOK, Arrive, Login, ChangePassword, DeleteAccount, LogoutAll, PresentToken, Logout
<1>c. UNCHANGED userVars /\ UNCHANGED <<minted, grant, epoch>> /\ revoked \subseteq revoked'
  BY DEF Arrive, Login, ChangePassword, DeleteAccount, LogoutAll, PresentToken, Logout, RevokeRows, tokenVars
<1>d. ASSUME req'[q].pc \notin {"openSession", "insertChild"} PROVE CalmOK'
  BY <1>a, <1>b, <1>c, <1>d, CalmReads
<1>e. ASSUME NEW a, NEW t, NEW c, AnswerWith(q, a) \/ AnswerAbout(q, a, t, c)
      PROVE  req'[q].pc = "answered"
  BY <1>b, <1>e DEF AnswerWith, AnswerAbout
<1>f. ASSUME NEW pc, NEW u, NEW t, NEW p, Enter(q, pc, u, t, p) PROVE req'[q].pc = pc
  BY <1>b, <1>f DEF Enter
<1>1. ASSUME NEW u \in Users, NEW p \in 0..MaxPasswords, Login(q, u, p) PROVE CalmOK'
  <2>1. CASE AnswerWith(q, "unauthorized")
    BY <1>d, <1>e, <2>1
  <2>2. CASE p = password[u] /\ status[u] = "ACTIVE" /\ Enter(q, "openSession", u, NoToken, p)
    <3>1. req'[q].pc = "openSession" /\ req'[q].user = u /\ req'[q].pass = p
      BY <1>b, <2>2 DEF Enter
    <3>2. password' = password /\ status' = status
      BY <1>c DEF userVars
    <3>3. QED BY <1>a, <1>b, <1>c, <2>2, <3>1, <3>2, CalmReads
  <2>3. QED BY <1>1, <2>1, <2>2 DEF Login
<1>2. ASSUME NEW u \in Users, NEW p \in 0..MaxPasswords,
             ChangePassword(q, u, p) \/ DeleteAccount(q, u, p) \/ LogoutAll(q, u)
      PROVE  CalmOK'
  BY <1>2, <1>d, <1>e, <1>f DEF ChangePassword, DeleteAccount, LogoutAll
<1>3. ASSUME NEW t \in Minted, PresentToken(q, t) \/ Logout(q, t) PROVE CalmOK'
  BY <1>3, <1>d, <1>e, <1>f DEF PresentToken, Logout
<1>4. 0 \in 0..MaxPasswords
  OBVIOUS
<1>5. QED BY <1>1, <1>2, <1>3, <1>4 DEF Arrive

LEMMA CalmServe ==
    ASSUME TypeOK, CalmOK, OneLiveToken', NEW q \in Requests, Alone(q), Serve(q)
    PROVE  CalmOK'
<1>a. \A r \in Requests : r # q => req'[r] = req[r]
  BY OthersStay DEF Proceed
<1>b. req \in [Requests -> Request] /\ req[q] \in Request
  BY DEF TypeOK, RequestsOK
<1>c. ASSUME NEW a, NEW t, NEW c, AnswerWith(q, a) \/ AnswerAbout(q, a, t, c)
      PROVE  req'[q].pc = "answered"
  BY <1>b, <1>c DEF AnswerWith, AnswerAbout
<1>d. ASSUME NEW pc, Goto(q, pc)
      PROVE  req'[q].pc = pc /\ req'[q].user = req[q].user /\ req'[q].token = req[q].token
  BY <1>b, <1>d DEF Goto, Request
<1>1. CASE RotateRead(q)
  <2>1. /\ UNCHANGED <<minted, grant, epoch, userVars>> /\ revoked \subseteq revoked'
        /\ req[q].pc = "refresh" /\ Live' = Live
    BY <1>1 DEF RotateRead, tokenVars, Live, Minted
  <2>2. req'[q].pc # "openSession" /\ (req'[q].pc = "insertChild" => req'[q].token \in Live)
    <3>1. req[q].token \in Minted
      BY <2>1 DEF TypeOK, RequestsOK, TokenPC
    <3>2. CASE Goto(q, "insertChild") /\ req[q].token \notin revoked
      BY <1>d, <3>1, <3>2 DEF Live
    <3>3. CASE Goto(q, "revokeFamily") \/ AnswerWith(q, "unauthorized")
      BY <1>c, <1>d, <3>3
    <3>4. QED BY <1>1, <3>2, <3>3 DEF RotateRead
  <2>3. QED BY <1>a, <2>1, <2>2, CalmReads
<1>2. CASE RevokeFamily(q) \/ RevokeOne(q) \/ Respond(q) \/ BoundReached(q)
  <2>1. /\ UNCHANGED <<minted, grant, epoch, userVars>> /\ revoked \subseteq revoked'
        /\ req[q].pc # "revokeAll"
    BY <1>2 DEF RevokeFamily, RevokeOne, Respond, BoundReached, RevokeRows, tokenVars
  <2>2. req'[q].pc = "answered"
    BY <1>2, <1>c DEF RevokeFamily, RevokeOne, Respond, BoundReached
  <2>3. QED BY <1>a, <2>1, <2>2, CalmReads
<1>3. CASE RotateRetire(q)
  <2>1. /\ UNCHANGED <<minted, grant, epoch, userVars>> /\ revoked \subseteq revoked'
        /\ req[q].pc # "revokeAll" /\ req'[q].pc = "respond"
    BY <1>3, <1>d DEF RotateRetire
  <2>2. QED BY <1>a, <2>1, CalmReads
<1>4. CASE RevokeAll(q)
  <2>1. /\ UNCHANGED <<minted, grant, epoch, userVars>> /\ revoked' = revoked \cup TokensOf(req[q].user)
        /\ req'[q].pc = "answered"
    BY <1>4, <1>c DEF RevokeAll, RevokeRows
  <2>2. \A t \in Live' : t \in Live /\ OwnerOf(t) # req[q].user /\ (Current(t) => Current(t)')
    BY <2>1 DEF Live, Minted, TokensOf, Current, OwnerOf, userVars
  <2>3. \A t \in Live' : Current(t)'
    BY <2>2, CalmTokens
  <2>4. QED BY <1>a, <2>1, <2>3, CalmMove
<1>5. CASE WritePassword(q) \/ Tombstone(q)
  <2>1. /\ UNCHANGED tokenVars /\ req'[q].pc = "revokeAll" /\ req'[q].user = req[q].user
        /\ req[q].pc # "revokeAll" /\ req[q].user \in Users
    BY <1>5, <1>d DEF WritePassword, Tombstone, TypeOK, RequestsOK, UserPC
  <2>2. \A v \in Users : v # req[q].user => password'[v] = password[v] /\ status'[v] = status[v]
    BY <1>5 DEF WritePassword, Tombstone, TypeOK, UsersOK
  <2>3. ASSUME NEW t \in Live' PROVE Current(t)' \/ req'[q].user = OwnerOf(t)'
    <3>1. t \in Live /\ OwnerOf(t)' = OwnerOf(t) /\ epoch'[t] = epoch[t] /\ OwnerOf(t) \in Users
      BY <2>1, <2>3 DEF tokenVars, Live, Minted, OwnerOf, TypeOK, RowsOK
    <3>2. Current(t)
      BY <2>1, <3>1, CalmTokens
    <3>3. QED BY <2>1, <2>2, <3>1, <3>2 DEF Current
  <2>4. QED BY <1>a, <2>1, <2>3, CalmMove
<1>6. CASE OpenSession(q) \/ RotateInsert(q)
  <2>1. PICK n, u, f, e :
             /\ Minted' = Minted \cup {n} /\ n \notin Minted
             /\ \A t \in Minted : grant'[t] = grant[t] /\ epoch'[t] = epoch[t]
             /\ grant'[n].user = u /\ epoch'[n] = e
             /\ revoked' = revoked
             /\ \/ /\ req[q].pc = "openSession" /\ req'[q].pc = "answered"
                   /\ u = req[q].user /\ e = req[q].pass
                \/ /\ req[q].pc = "insertChild" /\ req'[q].pc = "retire"
                   /\ u = OwnerOf(req[q].token) /\ e = epoch[req[q].token]
    BY <1>6, InsertStep
  <2>2. password' = password /\ status' = status /\ req[q].pc \in {"openSession", "insertChild"}
    BY <1>6 DEF OpenSession, RotateInsert, userVars
  <2>3. e = password[u] /\ status[u] = "ACTIVE"
    <3>1. CASE req[q].pc = "openSession"
      BY <2>1, <3>1 DEF CalmOK
    <3>2. CASE req[q].pc = "insertChild"
      <4>1. req[q].token \in Live
        BY <3>2 DEF CalmOK
      <4>2. Current(req[q].token)
        BY <3>2, <4>1, CalmTokens
      <4>3. QED BY <2>1, <3>2, <4>2 DEF Current
    <3>3. QED BY <2>1, <3>1, <3>2
  <2>4. ASSUME NEW t \in Live' PROVE Current(t)'
    <3>1. CASE t = n
      BY <2>1, <2>2, <2>3, <3>1 DEF Current, OwnerOf
    <3>2. CASE t \in Live
      <4>1. Current(t) /\ t \in Minted
        BY <2>2, <3>2, CalmTokens DEF Live
      <4>2. QED BY <2>1, <2>2, <4>1 DEF Current, OwnerOf
    <3>3. QED BY <2>1, <2>4, <3>1, <3>2 DEF Live
  <2>5. QED BY <1>a, <2>1, <2>4, CalmMove
<1>7. QED BY <1>1, <1>2, <1>3, <1>4, <1>5, <1>6 DEF Serve

LEMMA CalmStep ==
    ASSUME TypeOK, CalmOK, [Next]_vars, ~Overlap, \A r \in Requests : ~Fail(r)
    PROVE  CalmOK'
<1>a. OneLiveToken'
  BY CalmForks
<1>1. ASSUME NEW q \in Requests, Arrive(q) \/ Serve(q) PROVE CalmOK'
  BY <1>a, <1>1, CalmAlone, CalmArrive, CalmServe
<1>2. CASE UNCHANGED <<tokenVars, userVars, req>>
  <2>1. Live' = Live /\ InProgress' = InProgress /\ \A t : Current(t)' <=> Current(t)
    BY <1>2 DEF tokenVars, userVars, Live, Minted, InProgress, Current, OwnerOf
  <2>2. QED BY <1>a, <1>2, <2>1 DEF CalmOK, tokenVars, userVars, OwnerOf
<1>3. ASSUME NEW q \in Requests, Finish(q) PROVE CalmOK'
  <2>1. /\ UNCHANGED <<tokenVars, userVars>> /\ req[q].pc = "answered" /\ req'[q].pc = "idle"
        /\ \A r \in Requests : r # q => req'[r] = req[r]
    BY <1>3 DEF Finish, TypeOK, RequestsOK, Idle
  <2>2. InProgress' = InProgress
    BY <2>1 DEF InProgress
  <2>3. Live' = Live /\ \A t : (Current(t)' <=> Current(t)) /\ OwnerOf(t)' = OwnerOf(t)
    BY <2>1 DEF tokenVars, userVars, Live, Minted, Current, OwnerOf
  <2>4. \A r \in Requests : req[r].pc = "revokeAll" => req'[r].pc = "revokeAll" /\ req'[r].user = req[r].user
    BY <2>1
  <2>5. \A t \in Live' : Current(t)' \/ \E r \in Requests : req'[r].pc = "revokeAll" /\ req'[r].user = OwnerOf(t)'
    BY <2>3, <2>4 DEF CalmOK
  <2>6. \A r \in Requests :
          /\ req'[r].pc = "openSession" =>
                req'[r].pass = password'[req'[r].user] /\ status'[req'[r].user] = "ACTIVE"
          /\ req'[r].pc = "insertChild" => req'[r].token \in Live'
    BY <2>1, <2>3 DEF CalmOK, userVars
  <2>7. QED BY <1>a, <2>2, <2>5, <2>6 DEF CalmOK
<1>4. \/ \E q \in Requests : Arrive(q) \/ Serve(q) \/ Finish(q)
      \/ UNCHANGED <<tokenVars, userVars, req>>
  BY DEF Next, Proceed, Tick, vars
<1>5. QED BY <1>1, <1>2, <1>3, <1>4

CalmInv == TypeOK /\ (calm => CalmOK)

LEMMA CalmInitInv == MCInit => CalmInv
BY InitType, InitCalm DEF MCInit, CalmInv

LEMMA CalmNextInv == CalmInv /\ [MCNext]_<<vars, calm>> => CalmInv'
<1> SUFFICES ASSUME CalmInv, [MCNext]_<<vars, calm>> PROVE CalmInv'
  OBVIOUS
<1>1. [Next]_vars
  BY DEF MCNext
<1>2. TypeOK'
  BY <1>1, NextType DEF CalmInv
<1>3. ASSUME calm' PROVE CalmOK'
  <2>1. CASE MCNext
    BY <1>1, <1>3, <2>1, CalmStep DEF MCNext, CalmInv
  <2>2. CASE UNCHANGED <<vars, calm>>
    <3>1. ~Overlap
      BY <2>2 DEF Overlap, vars
    <3>2. CalmOK
      BY <1>3, <2>2 DEF CalmInv
    <3>3. UNCHANGED <<tokenVars, userVars, req>>
      BY <2>2 DEF vars
    <3>4. Live' = Live /\ InProgress' = InProgress /\ (\A t : Current(t)' <=> Current(t))
          /\ OneLiveToken' = OneLiveToken
      BY <3>3 DEF tokenVars, userVars, Live, Minted, InProgress, Current, OwnerOf, OneLiveToken, FamilyOf
    <3>5. QED BY <3>2, <3>3, <3>4 DEF CalmOK, tokenVars, userVars, OwnerOf
  <2>3. QED BY <2>1, <2>2
<1>4. QED BY <1>2, <1>3 DEF CalmInv

\* A password change, and the deletion of an account, leave no older session behind when
\* handlers do not overlap (UsersService.changePassword, deleteAccount).
THEOREM OldSessionsEnd == MCSpec => []PasswordChangeEndsSessions
<1>1. CalmInv => PasswordChangeEndsSessions
  <2> SUFFICES ASSUME CalmInv, calm, InProgress = {}, NEW t \in Live PROVE Current(t)
    BY DEF PasswordChangeEndsSessions, Current
  <2>1. \A r \in Requests : req[r].pc # "revokeAll"
    BY DEF InProgress
  <2>2. QED BY <2>1 DEF CalmInv, CalmOK
<1>2. QED BY <1>1, CalmInitInv, CalmNextInv, PTL DEF MCSpec

-----------------------------------------------------------------------------
(* Calm behaviours implement Sessions                                      *)

Opened == {f \in Minted : FamilyOf(f) = f}
NobodyRetires == \A r \in Requests : req[r].pc # "retire"

LEMMA InitAbstract == Init => AbstractSessions!Init
<1> SUFFICES ASSUME Init PROVE AbstractSessions!Init
  OBVIOUS
<1>1. Minted = {}
  BY DEF Init, Minted
<1>2. \A f : HolderOf(f) = {}
  BY <1>1 DEF HolderOf, FamilyMembers
<1>3. QED BY <1>1, <1>2 DEF AbstractSessions!Init, AbstractSessions!Session, Token

\* The rows and the handlers between their writes stay: nobody sees a difference.
LEMMA StutterStep ==
    ASSUME UNCHANGED tokenVars,
           \A r \in Requests : req[r].pc = "retire" \/ req'[r].pc = "retire" =>
               req'[r].pc = req[r].pc /\ req'[r].token = req[r].token
    PROVE  UNCHANGED AbstractSessions!svars
<1>1. Minted' = Minted /\ grant' = grant /\ revoked' = revoked
  BY DEF tokenVars, Minted
<1>2. \A t : Retiring(t)' <=> Retiring(t)
  BY DEF Retiring
<1>3. Opened' = Opened
  BY <1>1 DEF Opened, FamilyOf
<1>4. \A f : HolderOf(f)' = HolderOf(f)
  BY <1>1, <1>2 DEF HolderOf, FamilyMembers, FamilyOf
<1>5. QED BY <1>3, <1>4 DEF AbstractSessions!svars, Opened

\* Rows are revoked, whole sessions at a time.
LEMMA CloseStep ==
    ASSUME NobodyRetires, NobodyRetires', UNCHANGED <<minted, grant>>,
           revoked \subseteq revoked',
           NEW S \in SUBSET Opened,
           \A t \in Minted : FamilyOf(t) \in S => t \in revoked',
           \A t \in Minted : FamilyOf(t) \notin S /\ t \in revoked' => t \in revoked
    PROVE  AbstractSessions!Next
<1>1. Minted' = Minted
  BY DEF Minted
<1>2. \A t : ~Retiring(t) /\ ~Retiring(t)'
  BY DEF NobodyRetires, Retiring
<1>3. Opened' = Opened
  BY <1>1 DEF Opened, FamilyOf
<1>4. \A f \in Token : HolderOf(f)' = IF f \in S THEN {} ELSE HolderOf(f)
  BY <1>1, <1>2 DEF HolderOf, FamilyMembers, FamilyOf
<1>5. AbstractSessions!Close(S)
  BY <1>3, <1>4 DEF AbstractSessions!Close, AbstractSessions!Session, Token, Opened
<1>6. QED BY <1>5 DEF AbstractSessions!Next, Opened

\* The live tokens of a session nobody is retiring are one.
LEMMA OneHolder ==
    ASSUME TypeOK, OneLiveToken, NobodyRetires, NEW s \in Live, NEW t \in Live, FamilyOf(s) = FamilyOf(t)
    PROVE  s = t
<1>1. Live \subseteq Nat
  BY DEF TypeOK, RowsOK, Live, Minted
<1>2. ~(s < t) /\ ~(t < s)
  BY DEF OneLiveToken, NobodyRetires
<1>3. QED BY <1>1, <1>2

\* What the rows say of a session: it is open, and its tokens are of one account.
LEMMA FamilyOpen ==
    ASSUME TypeOK, Lineage, NEW t \in Minted
    PROVE  /\ FamilyOf(t) \in Opened /\ OwnerOf(FamilyOf(t)) = OwnerOf(t)
           /\ t \in Token /\ FamilyOf(t) \in Token
<1>1. FamilyOf(t) \in Minted /\ FamilyOf(FamilyOf(t)) = FamilyOf(t)
  BY DEF TypeOK, RowsOK, Lineage, RootsOK
<1>2. OwnerOf(FamilyOf(t)) = OwnerOf(t)
  BY DEF Lineage, RootsOK, Succeeds
<1>3. Minted \subseteq Token
  BY DEF TypeOK, RowsOK, Minted, Token
<1>4. QED BY <1>1, <1>2, <1>3 DEF Opened

LEMMA AdvanceStep ==
    ASSUME TypeOK, Lineage, CalmOK, NEW q \in Requests, Alone(q), RotateInsert(q)
    PROVE  AbstractSessions!Next
<1>1. PICK t, n, f : t = req[q].token /\ n = minted + 1 /\ f = FamilyOf(t)
  OBVIOUS
<1>2. minted \in Nat /\ Minted \subseteq Nat /\ n \notin Minted /\ n \in Token
  BY <1>1 DEF RotateInsert, InsertRow, TypeOK, RowsOK, Minted, Token
<1>3. t \in Live /\ t \in Minted /\ f \in Opened /\ t \in Token /\ f \in Token /\ f \in Minted
  BY <1>1, FamilyOpen DEF CalmOK, RotateInsert, Live, Opened
<1>4. n > t /\ n # f
  BY <1>1, <1>2, <1>3 DEF Minted
<1>5. NobodyRetires
  BY DEF NobodyRetires, Alone, RotateInsert
<1>6. /\ minted' = minted + 1 /\ revoked' = revoked /\ grant'[n].family = f
      /\ \A s \in Minted : grant'[s].family = grant[s].family
  BY <1>1, <1>2 DEF RotateInsert, InsertRow, TypeOK, RowsOK, Minted
<1>7. Minted' = Minted \cup {n} /\ n \notin revoked
  BY <1>1, <1>2, <1>6 DEF Minted, TypeOK, RowsOK
<1>8. \A s : Retiring(s)' <=> s = t
  <2>1. req'[q].pc = "retire" /\ req'[q].token = t
    <3>1. req \in [Requests -> Request] /\ req' = [req EXCEPT ![q].pc = "retire", ![q].child = n]
      BY <1>1 DEF RotateInsert, TypeOK, RequestsOK
    <3>2. QED BY <1>1, <3>1 DEF Request
  <2>2. \A r \in Requests : r # q => req'[r].pc # "retire"
    BY <1>5, OthersStay DEF Proceed, Serve, NobodyRetires
  <2>3. QED BY <2>1, <2>2 DEF Retiring
<1>9. \A s : ~Retiring(s)
  BY <1>5 DEF Retiring, NobodyRetires
<1>10. Opened' = Opened
  BY <1>4, <1>6, <1>7 DEF Opened, FamilyOf
<1>11. \A s \in Live : FamilyOf(s) = f => s = t
  BY <1>1, <1>3, <1>5, OneHolder DEF CalmOK
<1>12. HolderOf(f) = {t}
  BY <1>1, <1>3, <1>9, <1>11 DEF HolderOf, FamilyMembers, Live
<1>13. HolderOf(f)' = {n}
  <2>1. n \in HolderOf(f)'
    <3>1. n # t
      BY <1>2, <1>3
    <3>2. n \in Minted' /\ n \notin revoked' /\ grant'[n].family = f /\ ~Retiring(n)'
      BY <1>6, <1>7, <1>8, <3>1
    <3>3. QED BY <3>2 DEF HolderOf, FamilyMembers, FamilyOf
  <2>2. ASSUME NEW s \in HolderOf(f)', s # n PROVE FALSE
    <3>1. s \in Minted /\ FamilyOf(s) = f /\ s \notin revoked /\ s # t
      BY <1>6, <1>7, <1>8, <2>2 DEF HolderOf, FamilyMembers, FamilyOf
    <3>2. QED BY <1>11, <3>1 DEF Live
  <2>3. QED BY <2>1, <2>2
<1>14. \A g \in Token : g # f => HolderOf(g)' = HolderOf(g)
  <2> SUFFICES ASSUME NEW g \in Token, g # f PROVE HolderOf(g)' = HolderOf(g)
    OBVIOUS
  <2>1. \A s \in HolderOf(g)' : s \in HolderOf(g)
    BY <1>6, <1>7, <1>9 DEF HolderOf, FamilyMembers, FamilyOf
  <2>2. \A s \in HolderOf(g) : s \in HolderOf(g)'
    BY <1>1, <1>6, <1>7, <1>8 DEF HolderOf, FamilyMembers, FamilyOf
  <2>3. QED BY <2>1, <2>2
<1>15. AbstractSessions!Advance(f, t, n)
  BY <1>3, <1>4, <1>10, <1>12, <1>13, <1>14 DEF AbstractSessions!Advance, Opened
<1>16. QED BY <1>2, <1>3, <1>15 DEF AbstractSessions!Next, AbstractSessions!Session, Token

LEMMA OpenStep ==
    ASSUME TypeOK, Lineage, NEW q \in Requests, Alone(q), OpenSession(q)
    PROVE  AbstractSessions!Next
<1>1. PICK n : n = minted + 1
  OBVIOUS
<1>2. minted \in Nat /\ Minted \subseteq Nat /\ n \notin Minted /\ n \in Token
  BY <1>1 DEF OpenSession, InsertRow, TypeOK, RowsOK, Minted, Token
<1>3. /\ minted' = minted + 1 /\ revoked' = revoked /\ grant'[n].family = n
      /\ \A s \in Minted : grant'[s].family = grant[s].family
  BY <1>1, <1>2 DEF OpenSession, InsertRow, TypeOK, RowsOK, Minted
<1>4. Minted' = Minted \cup {n} /\ n \notin revoked /\ \A s \in Minted : FamilyOf(s) # n
  <2>1. Minted' = Minted \cup {n}
    BY <1>1, <1>2, <1>3 DEF Minted
  <2>2. revoked \subseteq Minted /\ \A s \in Minted : FamilyOf(s) \in Minted
    BY DEF TypeOK, RowsOK
  <2>3. QED BY <1>2, <2>1, <2>2
<1>5. \A s : ~Retiring(s) /\ ~Retiring(s)'
  <2>1. NobodyRetires
    BY DEF NobodyRetires, Alone, OpenSession
  <2>2. req'[q].pc # "retire"
    BY DEF OpenSession, AnswerAbout, TypeOK, RequestsOK
  <2>3. \A r \in Requests : r # q => req'[r] = req[r]
    BY OthersStay DEF Proceed, Serve
  <2>4. QED BY <2>1, <2>2, <2>3 DEF Retiring, NobodyRetires
<1>6. Opened' = Opened \cup {n} /\ n \notin Opened
  BY <1>2, <1>3, <1>4 DEF Opened, FamilyOf
<1>7. HolderOf(n)' = {n}
  BY <1>3, <1>4, <1>5 DEF HolderOf, FamilyMembers, FamilyOf
<1>8. \A g \in Token : g # n => HolderOf(g)' = HolderOf(g)
  BY <1>3, <1>4, <1>5 DEF HolderOf, FamilyMembers, FamilyOf
<1>9. AbstractSessions!Open(n)
  BY <1>2, <1>6, <1>7, <1>8 DEF AbstractSessions!Open, AbstractSessions!Session, Token, Opened
<1>10. QED BY <1>2, <1>9 DEF AbstractSessions!Next, AbstractSessions!Session, Token

\* A handler that is alone, and neither inserts nor retires: nobody is between two writes.
LEMMA NobodyAround ==
    ASSUME TypeOK, NEW q \in Requests, Alone(q), Arrive(q) \/ Serve(q),
           req[q].pc \notin {"insertChild", "retire"}
    PROVE  NobodyRetires /\ NobodyRetires'
<1>1. NobodyRetires
  BY DEF NobodyRetires, Alone
<1>2. \A r \in Requests : r # q => req'[r] = req[r]
  BY OthersStay DEF Proceed
<1>3. req \in [Requests -> Request]
  BY DEF TypeOK, RequestsOK
<1>4. ASSUME NEW a, NEW t, NEW c, AnswerWith(q, a) \/ AnswerAbout(q, a, t, c) PROVE req'[q].pc = "answered"
  BY <1>3, <1>4 DEF AnswerWith, AnswerAbout
<1>5. ASSUME NEW pc, NEW u, NEW t, NEW p, Enter(q, pc, u, t, p) \/ Goto(q, pc) PROVE req'[q].pc = pc
  BY <1>3, <1>5 DEF Enter, Goto, Request
<1>6. req'[q].pc # "retire"
  <2>1. CASE Arrive(q)
    BY <1>4, <1>5, <2>1 DEF Arrive, Login, ChangePassword, DeleteAccount, LogoutAll, PresentToken, Logout
  <2>2. CASE \/ OpenSession(q) \/ RevokeFamily(q) \/ RevokeOne(q) \/ Respond(q) \/ RevokeAll(q)
             \/ BoundReached(q)
    BY <1>4, <2>2 DEF OpenSession, RevokeFamily, RevokeOne, Respond, RevokeAll, BoundReached
  <2>3. CASE RotateRead(q) \/ WritePassword(q) \/ Tombstone(q)
    BY <1>4, <1>5, <2>3 DEF RotateRead, WritePassword, Tombstone
  <2>4. QED BY <2>1, <2>2, <2>3 DEF Serve, RotateInsert, RotateRetire
<1>7. QED BY <1>1, <1>2, <1>6 DEF NobodyRetires

LEMMA RevokeStep ==
    ASSUME TypeOK, Lineage, CalmOK, NEW q \in Requests, Alone(q),
           RevokeFamily(q) \/ RevokeAll(q) \/ RevokeOne(q)
    PROVE  AbstractSessions!Next
<1>a. NobodyRetires /\ NobodyRetires'
  <2>1. (Arrive(q) \/ Serve(q)) /\ req[q].pc \notin {"insertChild", "retire"}
    BY DEF Serve, RevokeFamily, RevokeAll, RevokeOne
  <2>2. QED BY <2>1, NobodyAround
<1>b. \A t \in Minted : FamilyOf(t) \in Opened /\ OwnerOf(FamilyOf(t)) = OwnerOf(t)
  BY FamilyOpen
<1>1. CASE RevokeFamily(q)
  <2>1. PICK f : f = FamilyOf(req[q].token)
    OBVIOUS
  <2>2. req[q].token \in Minted
    BY <1>1 DEF RevokeFamily, TypeOK, RequestsOK, TokenPC
  <2>3. UNCHANGED <<minted, grant>> /\ revoked' = revoked \cup FamilyMembers(f)
    BY <1>1, <2>1 DEF RevokeFamily, RevokeRows
  <2>4. {f} \in SUBSET Opened
    BY <1>b, <2>1, <2>2
  <2>5. \A t \in Minted : /\ FamilyOf(t) \in {f} => t \in revoked'
                          /\ FamilyOf(t) \notin {f} /\ t \in revoked' => t \in revoked
    BY <2>3 DEF FamilyMembers
  <2>6. QED BY <1>a, <2>3, <2>4, <2>5, CloseStep
<1>2. CASE RevokeAll(q)
  <2>1. PICK u : u = req[q].user
    OBVIOUS
  <2>2. PICK S \in SUBSET Opened : S = {f \in Opened : OwnerOf(f) = u}
    OBVIOUS
  <2>3. UNCHANGED <<minted, grant>> /\ revoked' = revoked \cup TokensOf(u)
    BY <1>2, <2>1 DEF RevokeAll, RevokeRows
  <2>4. \A t \in Minted : /\ FamilyOf(t) \in S => t \in revoked'
                          /\ FamilyOf(t) \notin S /\ t \in revoked' => t \in revoked
    BY <1>b, <2>2, <2>3 DEF TokensOf
  <2>5. QED BY <1>a, <2>3, <2>4, CloseStep
<1>3. CASE RevokeOne(q)
  <2>0. PICK t \in Minted : t = req[q].token /\ RevokeRows({t})
    BY <1>3 DEF RevokeOne, TypeOK, RequestsOK, TokenPC
  <2>1. CASE t \notin revoked
    <3>1. PICK f : f = FamilyOf(t)
      OBVIOUS
    <3>2. UNCHANGED <<minted, grant>> /\ revoked' = revoked \cup {t}
      BY <2>0 DEF RevokeRows
    <3>3. \A s \in Minted : FamilyOf(s) = f => s \in revoked'
      <4> SUFFICES ASSUME NEW s \in Minted, FamilyOf(s) = f, s \notin revoked PROVE s = t
        BY <3>2
      <4>1. s \in Live /\ t \in Live
        BY <2>1 DEF Live
      <4>2. QED BY <1>a, <3>1, <4>1, OneHolder DEF CalmOK
    <3>4. \A s \in Minted : FamilyOf(s) # f /\ s \in revoked' => s \in revoked
      BY <3>1, <3>2
    <3>5. {f} \in SUBSET Opened /\ \A x : x \in {f} <=> x = f
      BY <1>b, <3>1
    <3>6. \A s \in Minted : /\ FamilyOf(s) \in {f} => s \in revoked'
                            /\ FamilyOf(s) \notin {f} /\ s \in revoked' => s \in revoked
      BY <3>3, <3>4, <3>5
    <3>7. QED BY <1>a, <3>2, <3>5, <3>6, CloseStep
  <2>2. CASE t \in revoked
    <3>1. UNCHANGED <<minted, grant, revoked>>
      BY <2>0, <2>2 DEF RevokeRows
    <3>2. {} \in SUBSET Opened /\ revoked \subseteq revoked'
      BY <3>1
    <3>3. \A s \in Minted : /\ FamilyOf(s) \in {} => s \in revoked'
                            /\ FamilyOf(s) \notin {} /\ s \in revoked' => s \in revoked
      BY <3>1
    <3>4. QED BY <1>a, <3>1, <3>2, <3>3, CloseStep
  <2>3. QED BY <2>1, <2>2
<1>4. QED BY <1>1, <1>2, <1>3

\* The second write of a rotation: the parent is left out before, and revoked after.
LEMMA RetireStep ==
    ASSUME TypeOK, NEW q \in Requests, Alone(q), RotateRetire(q)
    PROVE  UNCHANGED AbstractSessions!svars
<1>1. /\ Minted' = Minted /\ grant' = grant /\ revoked' = revoked \cup {req[q].token}
      /\ req[q].pc = "retire" /\ req'[q].pc = "respond"
  BY GotoType DEF RotateRetire, Minted, TypeOK, RequestsOK, PC
<1>2. \A r \in Requests : r # q => req[r].pc # "retire" /\ req'[r].pc # "retire"
  BY OthersStay DEF Alone, Proceed, Serve
<1>3. \A t : (Retiring(t) <=> t = req[q].token) /\ ~Retiring(t)'
  BY <1>1, <1>2 DEF Retiring
<1>4. Opened' = Opened
  BY <1>1 DEF Opened, FamilyOf
<1>5. \A f : HolderOf(f)' = HolderOf(f)
  BY <1>1, <1>3 DEF HolderOf, FamilyMembers, FamilyOf
<1>6. QED BY <1>4, <1>5 DEF AbstractSessions!svars, Opened

LEMMA AbstractStep ==
    ASSUME TypeOK, Lineage, CalmOK, [Next]_vars, ~Overlap, \A r \in Requests : ~Fail(r)
    PROVE  [AbstractSessions!Next]_(AbstractSessions!svars)
<1>1. ASSUME NEW q \in Requests, Arrive(q) \/ Serve(q)
      PROVE  [AbstractSessions!Next]_(AbstractSessions!svars)
  <2>1. Alone(q)
    BY <1>1, CalmAlone
  <2>2. CASE OpenSession(q)
    BY <2>1, <2>2, OpenStep
  <2>3. CASE RotateInsert(q)
    BY <2>1, <2>3, AdvanceStep
  <2>4. CASE RotateRetire(q)
    BY <2>1, <2>4, RetireStep
  <2>5. CASE RevokeFamily(q) \/ RevokeAll(q) \/ RevokeOne(q)
    BY <2>1, <2>5, RevokeStep
  <2>6. CASE UNCHANGED tokenVars /\ req[q].pc \notin {"insertChild", "retire"}
    <3>1. NobodyRetires /\ NobodyRetires'
      BY <1>1, <2>1, <2>6, NobodyAround
    <3>2. UNCHANGED AbstractSessions!svars
      BY <2>6, <3>1, StutterStep DEF NobodyRetires
    <3>3. QED BY <3>2
  <2>7. CASE BoundReached(q) /\ req[q].pc = "insertChild"
    <3>1. UNCHANGED tokenVars /\ req[q].pc # "retire" /\ req'[q].pc = "answered"
      BY <2>7 DEF BoundReached, AnswerWith, AnswerAbout, TypeOK, RequestsOK
    <3>2. \A r \in Requests : r # q => req'[r] = req[r]
      BY <1>1, OthersStay DEF Proceed
    <3>3. UNCHANGED AbstractSessions!svars
      BY <3>1, <3>2, StutterStep
    <3>4. QED BY <3>3
  <2>8. QED
    BY <1>1, <2>2, <2>3, <2>4, <2>5, <2>6, <2>7
    DEF Arrive, Serve, Login, ChangePassword, DeleteAccount, LogoutAll, PresentToken, Logout, RotateRead,
        Respond, WritePassword, Tombstone, BoundReached
<1>2. ASSUME NEW q \in Requests, Finish(q)
      PROVE  [AbstractSessions!Next]_(AbstractSessions!svars)
  <2>1. /\ UNCHANGED tokenVars /\ req[q].pc = "answered" /\ req'[q].pc = "idle"
        /\ \A r \in Requests : r # q => req'[r] = req[r]
    BY <1>2 DEF Finish, TypeOK, RequestsOK, Idle
  <2>2. UNCHANGED AbstractSessions!svars
    BY <2>1, StutterStep
  <2>3. QED BY <2>2
<1>3. CASE UNCHANGED <<tokenVars, req>>
  <2>1. UNCHANGED tokenVars /\ req' = req
    BY <1>3
  <2>2. UNCHANGED AbstractSessions!svars
    BY <2>1, StutterStep
  <2>3. QED BY <2>2
<1>4. \/ \E q \in Requests : Arrive(q) \/ Serve(q) \/ Finish(q)
      \/ UNCHANGED <<tokenVars, req>>
  BY DEF Next, Proceed, Tick, vars
<1>5. QED BY <1>1, <1>2, <1>3, <1>4

\* Handlers that do not overlap and do not die implement the sessions of module Sessions:
\* one token holds a session, a rotation hands it on, a closed one is held by none
\* (TokenService, step by step: createPair opens or advances, the revocations close).
THEOREM CalmRefinesSessions == MCSpec => ImplementsSessions
<1>1. MCInit => AbstractSessions!Init /\ Lineage
  BY InitAbstract, InitLineage DEF MCInit
<1>2. CalmInv /\ Lineage /\ [MCNext]_<<vars, calm>> => Lineage'
  BY NextLineage DEF CalmInv, MCNext
<1>3. CalmInv /\ Lineage /\ [MCNext]_<<vars, calm>> =>
         [calm' => [AbstractSessions!Next]_(AbstractSessions!svars)]_<<vars, calm>>
  BY AbstractStep DEF CalmInv, MCNext
<1>4. QED BY <1>1, <1>2, <1>3, CalmInitInv, CalmNextInv, PTL DEF MCSpec, ImplementsSessions

-----------------------------------------------------------------------------
(* The browser.  Which points a handler can be at, by what the browser     *)
(* awaits from it.                                                         *)
ShapeOf(r) ==
    /\ call[r] = "signIn" => req[r].pc \in {"openSession", "answered"}
    /\ call[r] = "signOut" => req[r].pc \in {"revokeOne", "answered"}
    /\ call[r] = "signOut" /\ (req[r].pc = "revokeOne" \/ req[r].answer = "ok")
       => req[r].token \in Minted /\ FamilyOf(req[r].token) \in left
    /\ call[r] \in Refreshing => req[r].pc \in (TokenPC \ {"revokeOne"}) \cup {"answered"}
    /\ req[r].pc \in {"retire", "respond"} => req[r].child \in Minted
    /\ /\ req[r].pc = "answered" /\ req[r].answer = "ok"
       /\ call[r] \in Refreshing \cup {"signIn"}
       => req[r].child \in Minted
ClientShape == \A r \in Requests : ShapeOf(r)

(* What a step of the server does to the sessions of the browser.          *)
Adds(f) ==
    /\ minted < MaxTokens /\ minted' = minted + 1
    /\ revoked' = revoked
    /\ \A t \in Minted : grant'[t] = grant[t]
    /\ grant'[minted + 1].family = f
SameRows == UNCHANGED <<minted, grant, revoked>>
Replied(r, child) ==
    req'[r].pc = "answered" /\ req'[r].answer = "ok" /\ req'[r].child = child

GivesUp(r) == RowsKept /\ req'[r].pc = "answered" /\ req'[r].answer # "ok"
ReadsLive(r) ==
    /\ SameRows /\ req[r].pc = "refresh" /\ req[r].token \notin revoked
    /\ req'[r].pc = "insertChild" /\ req'[r].token = req[r].token
ReadsRevoked(r) ==
    /\ SameRows /\ req[r].pc = "refresh" /\ req[r].token \in revoked
    /\ req'[r].pc = "revokeFamily"
Opens(r) == req[r].pc = "openSession" /\ Adds(minted + 1) /\ Replied(r, minted + 1)
Mints(r) ==
    /\ req[r].pc = "insertChild" /\ Adds(FamilyOf(req[r].token))
    /\ req'[r].pc = "retire" /\ req'[r].token = req[r].token /\ req'[r].child = minted + 1
Retires(r) ==
    /\ req[r].pc = "retire" /\ UNCHANGED <<minted, grant>> /\ revoked' = revoked \cup {req[r].token}
    /\ req'[r].pc = "respond" /\ req'[r].child = req[r].child
Replies(r) == SameRows /\ req[r].pc = "respond" /\ Replied(r, req[r].child)
Ends(r) ==
    /\ req[r].pc = "revokeOne" /\ UNCHANGED <<minted, grant>> /\ revoked' = revoked \cup {req[r].token}
    /\ req'[r].pc = "answered" /\ req'[r].token = req[r].token

ServerMove(r) ==
    \/ GivesUp(r) \/ ReadsLive(r) \/ ReadsRevoked(r)
    \/ Opens(r) \/ Mints(r) \/ Retires(r) \/ Replies(r) \/ Ends(r)

LEMMA AnswerAboutMeans ==
    ASSUME NEW r \in Requests, NEW a, NEW t, NEW c, req \in [Requests -> Request],
           AnswerAbout(r, a, t, c)
    PROVE  req'[r].pc = "answered" /\ req'[r].answer = a /\ req'[r].token = t /\ req'[r].child = c
BY DEF AnswerAbout

LEMMA AnswerWithMeans ==
    ASSUME NEW r \in Requests, NEW a, req \in [Requests -> Request], AnswerWith(r, a)
    PROVE  req'[r].pc = "answered" /\ req'[r].answer = a
BY AnswerAboutMeans DEF AnswerWith

LEMMA InsertAdds ==
    ASSUME RowsOK, NEW u, NEW f, NEW e, InsertRow(u, f, e)
    PROVE  Adds(f)
<1>1. minted + 1 \in Token /\ \A t \in Minted : t \in Token /\ t # minted + 1
  BY DEF InsertRow, RowsOK, Token, Minted
<1>2. QED
  BY <1>1 DEF InsertRow, Adds, RowsOK

LEMMA ServerMoves ==
    ASSUME TypeOK, NEW r \in Requests, Serve(r) \/ Fail(r),
           req[r].pc \notin {"writePassword", "tombstone", "revokeAll"}
    PROVE  OnlyMoves(r) /\ ServerMove(r) /\ req[r].pc # "idle" /\ now' = now
<1> USE DEF TypeOK, RequestsOK
<1>1. req \in [Requests -> Request] /\ RowsOK
  OBVIOUS
<1>2. ASSUME NEW a \in Answer, a # "ok", AnswerWith(r, a), UNCHANGED tokenVars
      PROVE  OnlyMoves(r) /\ GivesUp(r)
  BY <1>1, <1>2, AnswerWithType, AnswerWithMeans DEF OnlyMoves, GivesUp, RowsKept, tokenVars
<1>3. CASE OpenSession(r)
  <2>1. Adds(minted + 1)
    BY <1>1, <1>3, InsertAdds DEF OpenSession
  <2>2. minted + 1 \in 0..MaxTokens
    BY <2>1, <1>1 DEF Adds, RowsOK
  <2>3. OnlyMoves(r) /\ Replied(r, minted + 1)
    BY <1>1, <1>3, <2>2, AnswerType, AnswerAboutMeans DEF OpenSession, OnlyMoves, Replied, Answer
  <2>4. QED
    BY <1>3, <2>1, <2>3 DEF OpenSession, ServerMove, Opens
<1>4. CASE RotateRead(r)
  <2>1. req[r].pc = "refresh" /\ UNCHANGED tokenVars /\ now' = now
    BY <1>4 DEF RotateRead
  <2>2. CASE AnswerWith(r, "unauthorized")
    BY <1>2, <2>1, <2>2 DEF ServerMove, Answer
  <2>3. CASE Goto(r, "revokeFamily") /\ req[r].token \in revoked
    BY <1>1, <2>1, <2>3, GotoType DEF ServerMove, ReadsRevoked, SameRows, OnlyMoves, PC, tokenVars
  <2>4. CASE Goto(r, "insertChild") /\ req[r].token \notin revoked
    BY <1>1, <2>1, <2>4, GotoType DEF ServerMove, ReadsLive, SameRows, OnlyMoves, PC, tokenVars
  <2>5. QED
    BY <1>4, <2>1, <2>2, <2>3, <2>4 DEF RotateRead
<1>5. CASE RevokeFamily(r)
  <2>1. req[r].token \in 0..MaxTokens
    BY <1>1 DEF Request
  <2>2. OnlyMoves(r) /\ req'[r].pc = "answered" /\ req'[r].answer = "reuse"
    BY <1>1, <1>5, <2>1, AnswerType, AnswerAboutMeans DEF RevokeFamily, OnlyMoves, Answer
  <2>3. QED
    BY <1>5, <2>2 DEF RevokeFamily, RevokeRows, ServerMove, GivesUp, RowsKept
<1>6. CASE RotateInsert(r)
  <2>1. Adds(FamilyOf(req[r].token))
    BY <1>1, <1>6, InsertAdds DEF RotateInsert
  <2>2. req' = [req EXCEPT ![r].pc = "retire", ![r].child = minted + 1] /\ req[r].pc = "insertChild"
    BY <1>6 DEF RotateInsert
  <2>3. minted + 1 \in 0..MaxTokens
    BY <2>1, <1>1 DEF Adds, RowsOK
  <2>4. OnlyMoves(r) /\ req'[r].pc = "retire" /\ req'[r].token = req[r].token /\ req'[r].child = minted + 1
    BY <1>1, <2>2, <2>3 DEF OnlyMoves, Request, PC
  <2>5. QED
    BY <1>6, <2>1, <2>2, <2>4 DEF RotateInsert, ServerMove, Mints
<1>7. CASE RotateRetire(r)
  BY <1>1, <1>7, GotoType DEF RotateRetire, ServerMove, Retires, OnlyMoves, PC
<1>8. CASE Respond(r)
  <2>1. req[r].child \in 0..MaxTokens
    BY <1>1 DEF Request
  <2>2. QED
    BY <1>1, <1>8, <2>1, AnswerType, AnswerAboutMeans
    DEF Respond, ServerMove, Replies, Replied, SameRows, OnlyMoves, Answer, tokenVars
<1>9. CASE BoundReached(r) \/ Fail(r)
  BY <1>2, <1>9 DEF BoundReached, Fail, ServerMove, Answer
<1>11. CASE RevokeOne(r)
  <2>1. req[r].token \in 0..MaxTokens
    BY <1>1 DEF Request
  <2>2. OnlyMoves(r) /\ req'[r].pc = "answered" /\ req'[r].token = req[r].token
    BY <1>1, <1>11, <2>1, AnswerType, AnswerAboutMeans DEF RevokeOne, OnlyMoves, Answer
  <2>3. QED
    BY <1>11, <2>2 DEF RevokeOne, RevokeRows, ServerMove, Ends
<1>10. QED
  BY <1>3, <1>4, <1>5, <1>6, <1>7, <1>8, <1>9, <1>11
  DEF Serve, WritePassword, Tombstone, RevokeAll

(* What a step of the browser does.                                        *)
Begins(r) ==
    /\ call[r] = "none" /\ stored = NoToken /\ call'[r] = "signIn"
    /\ \/ req'[r].pc = "openSession"
       \/ req'[r].pc = "answered" /\ req'[r].answer # "ok"
    /\ SameRows /\ UNCHANGED <<stored, valid, left, ended>>
Meets401(r) ==
    /\ call[r] = "none" /\ call'[r] \in Refused
    /\ SameRows /\ UNCHANGED <<req, stored, valid, left, ended>>
Presents(r) ==
    /\ call[r] \in Refused /\ stored \in Minted /\ call'[r] \in Refreshing
    /\ req'[r].pc = "refresh" /\ req'[r].token = stored
    /\ SameRows /\ UNCHANGED <<stored, valid, left, ended>>
Abandons(r) ==
    /\ call[r] \in Refused /\ call'[r] = "none"
    /\ stored' \in {stored, NoToken} /\ valid' \in BOOLEAN
    /\ SameRows /\ UNCHANGED <<req, left, ended>>
Saves(r) ==
    /\ call[r] \in Refreshing \cup {"signIn"} /\ req[r].pc = "answered" /\ req[r].answer = "ok"
    /\ stored' = req[r].child /\ valid' \in BOOLEAN
    /\ call'[r] = "none" /\ req'[r].pc = "idle"
    /\ SameRows /\ UNCHANGED <<left, ended>>
IsTurnedDown(r) ==
    /\ \/ call[r] \in Refreshing \cup {"signOut", "signOutLost"} /\ stored' = NoToken
       \/ call[r] = "signIn" /\ stored' = stored
    /\ valid' \in BOOLEAN
    /\ call'[r] = "none" /\ req'[r].pc = "idle"
    /\ SameRows /\ UNCHANGED <<left, ended>>
SignsOut(r) ==
    /\ call[r] = "none" /\ stored \in Minted
    /\ \/ call'[r] = "signOut" /\ req'[r].pc = "revokeOne" /\ req'[r].token = stored
       \/ call'[r] = "signOut" /\ req'[r].pc = "answered" /\ req'[r].token = stored /\ Expired(stored)
       \/ call'[r] = "signOutLost" /\ req'[r].pc = "idle"
    /\ left' = left \cup {FamilyOf(stored)}
    /\ SameRows /\ UNCHANGED <<stored, valid, ended>>
IsSignedOut(r) ==
    /\ call[r] = "signOut" /\ req[r].pc = "answered" /\ req[r].answer = "ok"
    /\ stored' = NoToken /\ valid' \in BOOLEAN
    /\ call'[r] = "none" /\ req'[r].pc = "idle"
    /\ ended' = ended \cup {FamilyOf(req[r].token)}
    /\ SameRows /\ UNCHANGED left
LosesAnswer(r) ==
    /\ AnswerLost(r) /\ call[r] = "refreshing" /\ stored' = stored /\ valid' \in BOOLEAN
    /\ call'[r] = "none" /\ req'[r].pc = "idle"
    /\ SameRows /\ UNCHANGED <<left, ended>>

BrowserMove(r) ==
    \/ Begins(r) \/ Meets401(r) \/ Presents(r) \/ Abandons(r)
    \/ Saves(r) \/ IsTurnedDown(r) \/ SignsOut(r) \/ IsSignedOut(r) \/ LosesAnswer(r)
CallMoves(r) ==
    /\ call' \in [Requests -> Call]
    /\ \A s \in Requests : s # r => call'[s] = call[s]
Background ==
    /\ SameRows /\ UNCHANGED <<req, call, left, ended>> /\ now <= now'
    /\ stored' \in {stored, NoToken} /\ valid' \in BOOLEAN

LEMMA AwaitsMeans ==
    ASSUME ClientTypeOK, NEW r \in Requests, NEW kind \in Call, Awaits(r, kind)
    PROVE  CallMoves(r) /\ call'[r] = kind
BY DEF Awaits, CallMoves, ClientTypeOK

LEMMA FinishMeans ==
    ASSUME TypeOK, NEW r \in Requests, Finish(r)
    PROVE  /\ OnlyMoves(r) /\ SameRows /\ now' = now
           /\ req[r].pc = "answered" /\ req'[r].pc = "idle"
<1>1. Idle.pc = "idle" /\ Idle \in Request
  BY IdleType DEF Idle
<1>2. QED
  BY <1>1 DEF Finish, OnlyMoves, SameRows, TypeOK, RequestsOK, tokenVars

LEMMA BrowserMoves ==
    ASSUME ClientTypeOK, ClientShape, NEW r \in Requests, ClientStep(r)
    PROVE  OnlyMoves(r) /\ CallMoves(r) /\ BrowserMove(r) /\ now' = now
<1>1. /\ TypeOK /\ req \in [Requests -> Request] /\ RowsOK /\ valid \in BOOLEAN
      /\ stored \in Minted \cup {NoToken} /\ Minted \subseteq 0..MaxTokens
  BY DEF ClientTypeOK, TypeOK, RequestsOK, RowsOK, Minted
<1>2. ASSUME req' = req PROVE OnlyMoves(r)
  BY <1>1, <1>2 DEF OnlyMoves
<1>3. {"none", "signIn", "signOut", "signOutLost"} \subseteq Call /\ Refused \subseteq Call /\ Refreshing \subseteq Call
  BY DEF Call
<1> USE DEF BrowserMove
<1>4. CASE SignIn(r)
  <2>1. /\ call[r] = "none" /\ stored = NoToken /\ Awaits(r, "signIn") /\ UNCHANGED <<stored, valid, left, ended>>
        /\ Login(r, Visitor, password[Visitor])
    BY <1>4 DEF SignIn, SignedIn
  <2>2. CallMoves(r) /\ call'[r] = "signIn"
    BY <2>1, <1>3, AwaitsMeans
  <2>3. SameRows /\ now' = now
    BY <2>1 DEF Login, SameRows, tokenVars
  <2>4. CASE AnswerWith(r, "unauthorized")
    <3>1. OnlyMoves(r) /\ req'[r].pc = "answered" /\ req'[r].answer = "unauthorized"
      BY <1>1, <2>4, AnswerWithType, AnswerWithMeans DEF OnlyMoves, Answer
    <3>2. QED
      BY <2>1, <2>2, <2>3, <3>1 DEF Begins
  <2>5. CASE Enter(r, "openSession", Visitor, NoToken, password[Visitor])
    <3>1. Visitor \in Users \cup {NoUser} /\ password[Visitor] \in 0..MaxPasswords /\ "openSession" \in PC
      BY <1>1, SessionClientAssumption DEF TypeOK, UsersOK, PC
    <3>2. OnlyMoves(r) /\ req'[r].pc = "openSession"
      BY <1>1, <2>5, <3>1, EnterType DEF OnlyMoves
    <3>3. QED
      BY <2>1, <2>2, <2>3, <3>2 DEF Begins
  <2>6. QED
    BY <2>1, <2>4, <2>5 DEF Login
<1>5. CASE SignOut(r)
  <2>1. /\ call[r] = "none" /\ stored \in Minted
        /\ left' = left \cup {FamilyOf(stored)} /\ UNCHANGED <<stored, valid, ended>>
    BY <1>1, <1>5 DEF SignOut, SignedIn
  <2>2. CASE Logout(r, stored) /\ Awaits(r, "signOut")
    <3>1. CallMoves(r) /\ call'[r] = "signOut"
      BY <2>2, <1>3, AwaitsMeans
    <3>2. SameRows /\ now' = now
      BY <2>2 DEF Logout, SameRows, tokenVars
    <3>3. /\ stored \in 0..MaxTokens /\ NoToken \in 0..MaxTokens /\ 0 \in 0..MaxPasswords
          /\ "revokeOne" \in PC /\ "ok" \in Answer
      BY <1>1, <2>1 DEF PC, Answer
    <3>4. CASE Expired(stored)
      <4>1. AnswerAbout(r, "ok", stored, NoToken)
        BY <2>2, <3>4 DEF Logout
      <4>2. OnlyMoves(r) /\ req'[r].pc = "answered" /\ req'[r].token = stored
        BY <1>1, <3>3, <4>1, AnswerType, AnswerAboutMeans DEF OnlyMoves
      <4>3. QED
        BY <2>1, <3>1, <3>2, <3>4, <4>2 DEF SignsOut
    <3>5. CASE ~Expired(stored)
      <4>1. Enter(r, "revokeOne", NoUser, stored, 0)
        BY <2>2, <3>5 DEF Logout
      <4>2. OnlyMoves(r) /\ req'[r].pc = "revokeOne" /\ req'[r].token = stored
        BY <1>1, <3>3, <4>1, EnterType DEF OnlyMoves
      <4>3. QED
        BY <2>1, <3>1, <3>2, <4>2 DEF SignsOut
    <3>6. QED
      BY <3>4, <3>5
  <2>3. CASE req[r].pc = "idle" /\ Awaits(r, "signOutLost") /\ UNCHANGED vars
    <3>1. CallMoves(r) /\ call'[r] = "signOutLost"
      BY <2>3, <1>3, AwaitsMeans
    <3>2. SameRows /\ now' = now /\ req' = req
      BY <2>3 DEF SameRows, vars, tokenVars
    <3>3. QED
      BY <1>2, <2>1, <2>3, <3>1, <3>2 DEF SignsOut
  <2>4. QED
    BY <1>5, <2>2, <2>3 DEF SignOut
<1>6. ASSUME NEW kind \in Refused, Refuse(r, kind) PROVE OnlyMoves(r) /\ CallMoves(r) /\ Meets401(r) /\ now' = now
  <2>1. call[r] = "none" /\ Awaits(r, kind) /\ UNCHANGED <<vars, stored, valid, left, ended>>
    BY <1>6 DEF Refuse
  <2>2. CallMoves(r) /\ call'[r] = kind
    BY <2>1, <1>3, AwaitsMeans
  <2>3. QED
    BY <1>2, <2>1, <2>2 DEF Meets401, SameRows, vars, tokenVars
<1>7. CASE TryRefresh(r)
  <2>1. call[r] \in Refused /\ UNCHANGED <<stored, valid, left, ended>>
    BY <1>7 DEF TryRefresh
  <2>2. CASE stored = NoToken
    <3>1. Awaits(r, "none") /\ UNCHANGED vars
      BY <1>7, <2>2 DEF TryRefresh, SignedIn
    <3>2. CallMoves(r) /\ call'[r] = "none"
      BY <3>1, <1>3, AwaitsMeans
    <3>3. QED
      BY <1>1, <1>2, <2>1, <2>2, <3>1, <3>2 DEF Abandons, SameRows, vars, tokenVars
  <2>3. CASE stored # NoToken
    <3>1. PresentToken(r, stored) /\ \E kind \in Refreshing : Awaits(r, kind)
      BY <1>7, <2>3 DEF TryRefresh, SignedIn, Refreshing
    <3>2. CallMoves(r) /\ call'[r] \in Refreshing
      BY <3>1, <1>3, AwaitsMeans
    <3>3. stored \in Minted /\ stored \in 0..MaxTokens /\ "refresh" \in PC /\ 0 \in 0..MaxPasswords
      BY <1>1, <2>3 DEF PC
    <3>4. OnlyMoves(r) /\ req'[r].pc = "refresh" /\ req'[r].token = stored
      BY <1>1, <3>1, <3>3, EnterType DEF PresentToken, OnlyMoves
    <3>5. SameRows /\ now' = now
      BY <3>1 DEF PresentToken, SameRows, tokenVars
    <3>6. QED
      BY <2>1, <3>2, <3>3, <3>4, <3>5 DEF Presents
  <2>4. QED
    BY <2>2, <2>3
<1>8. ASSUME Finish(r), Awaits(r, "none")
      PROVE  /\ OnlyMoves(r) /\ CallMoves(r) /\ SameRows /\ now' = now
             /\ req[r].pc = "answered" /\ req'[r].pc = "idle" /\ call'[r] = "none"
  BY <1>1, <1>3, <1>8, AwaitsMeans, FinishMeans
<1>9. CASE Refreshed(r)
  <2>1. call[r] \in Refreshing /\ Finish(r) /\ Awaits(r, "none") /\ UNCHANGED <<left, ended>>
    BY <1>9 DEF Refreshed
  <2>2. CASE req[r].answer = "ok"
    BY <1>8, <1>9, <2>1, <2>2 DEF Refreshed, saveTokens, Saves
  <2>3. CASE req[r].answer # "ok"
    BY <1>8, <1>9, <2>1, <2>3 DEF Refreshed, clearSession, IsTurnedDown
  <2>4. QED
    BY <2>2, <2>3
<1>10. CASE SignedInAnswer(r)
  <2>1. call[r] = "signIn" /\ Finish(r) /\ Awaits(r, "none") /\ UNCHANGED <<left, ended>>
    BY <1>10 DEF SignedInAnswer
  <2>2. CASE req[r].answer = "ok"
    BY <1>8, <1>10, <2>1, <2>2 DEF SignedInAnswer, saveTokens, Saves
  <2>3. CASE req[r].answer # "ok"
    BY <1>1, <1>8, <1>10, <2>1, <2>3 DEF SignedInAnswer, IsTurnedDown
  <2>4. QED
    BY <2>2, <2>3
<1>11. CASE SignedOut(r)
  <2>1. /\ stored' = NoToken /\ valid' \in BOOLEAN /\ Awaits(r, "none") /\ left' = left
        /\ call[r] \in {"signOut", "signOutLost"}
    BY <1>11 DEF SignedOut, clearSession
  <2>2. CASE call[r] = "signOut"
    <3>1. /\ Finish(r)
          /\ ended' = IF req[r].answer = "ok" THEN ended \cup {FamilyOf(req[r].token)} ELSE ended
      BY <1>11, <2>2 DEF SignedOut
    <3>2. CASE req[r].answer = "ok"
      BY <1>8, <2>1, <2>2, <3>1, <3>2 DEF IsSignedOut
    <3>3. CASE req[r].answer # "ok"
      BY <1>8, <2>1, <2>2, <3>1, <3>3 DEF IsTurnedDown
    <3>4. QED
      BY <3>2, <3>3
  <2>3. CASE call[r] = "signOutLost"
    <3>1. UNCHANGED <<vars, ended>>
      BY <1>11, <2>3 DEF SignedOut
    <3>2. CallMoves(r) /\ call'[r] = "none"
      BY <2>1, <1>3, AwaitsMeans
    <3>3. req[r].pc = "idle" /\ req' = req /\ SameRows /\ now' = now
      BY <2>3, <3>1 DEF ClientTypeOK, SameRows, vars, tokenVars
    <3>4. QED
      BY <1>2, <2>1, <2>3, <3>1, <3>2, <3>3 DEF IsTurnedDown
  <2>4. QED
    BY <2>1, <2>2, <2>3
<1>12. CASE RequestLost(r)
  <2>1. call[r] \in Refused /\ Awaits(r, "none") /\ UNCHANGED <<vars, left, ended>>
    BY <1>12 DEF RequestLost
  <2>2. stored' \in {stored, NoToken} /\ valid' \in BOOLEAN
    BY <1>1, <1>12 DEF RequestLost, clearSession
  <2>3. CallMoves(r) /\ call'[r] = "none"
    BY <2>1, <1>3, AwaitsMeans
  <2>4. QED
    BY <1>2, <2>1, <2>2, <2>3 DEF Abandons, SameRows, vars, tokenVars
<1>13. CASE AnswerLost(r)
  <2>1. Finish(r) /\ Awaits(r, "none") /\ UNCHANGED <<left, ended>>
    BY <1>13 DEF AnswerLost
  <2>2. call[r] \in {"signIn", "signOut", "refreshing", "bootRefreshing"}
    BY <1>13 DEF AnswerLost, Refreshing
  <2>3. CASE call[r] \in {"signOut", "bootRefreshing"}
    <3>1. stored' = NoToken /\ valid' \in BOOLEAN
      BY <1>13, <2>3 DEF AnswerLost, clearSession
    <3>2. call[r] \in Refreshing \cup {"signOut", "signOutLost"}
      BY <2>3 DEF Refreshing
    <3>3. QED
      BY <1>8, <2>1, <3>1, <3>2 DEF IsTurnedDown
  <2>4. CASE call[r] \in {"signIn", "refreshing"}
    <3>1. UNCHANGED <<stored, valid>>
      BY <1>13, <2>4 DEF AnswerLost
    <3>2. QED
      BY <1>1, <1>8, <1>13, <2>1, <2>4, <3>1 DEF IsTurnedDown, LosesAnswer
  <2>5. QED
    BY <2>2, <2>3, <2>4
<1>14. QED
  BY <1>4, <1>5, <1>6, <1>7, <1>9, <1>10, <1>11, <1>12, <1>13 DEF ClientStep

LEMMA ClientSteps ==
    ASSUME ClientTypeOK, ClientShape, [ClientNext]_allVars
    PROVE  \/ \E r \in Requests : /\ OnlyMoves(r) /\ CallMoves(r) /\ now' = now
                                  /\ \/ BrowserMove(r)
                                     \/ /\ ServerMove(r) /\ UNCHANGED clientVars
                                        /\ call[r] \in {"signIn", "signOut"} \cup Refreshing
           \/ Background
<1>1. ASSUME NEW r \in Requests, ServerStep(r)
      PROVE  /\ OnlyMoves(r) /\ CallMoves(r) /\ ServerMove(r) /\ UNCHANGED clientVars /\ now' = now
             /\ call[r] \in {"signIn", "signOut"} \cup Refreshing
  <2>1. (Serve(r) \/ Fail(r)) /\ UNCHANGED clientVars /\ TypeOK
    BY <1>1 DEF ServerStep, ClientTypeOK
  <2>2. req[r].pc \notin {"idle", "answered"}
    BY <2>1 DEF Serve, Fail, OpenSession, RotateRead, RevokeFamily, RevokeOne, RotateInsert, RotateRetire,
                Respond, WritePassword, Tombstone, RevokeAll, BoundReached
  <2>3. call[r] \in {"signIn", "signOut"} \cup Refreshing
    BY <2>2 DEF ClientTypeOK, ClientShape, ShapeOf, Call
  <2>4. req[r].pc \notin {"writePassword", "tombstone", "revokeAll"}
    BY <2>3 DEF ClientShape, ShapeOf, TokenPC
  <2>5. CallMoves(r)
    BY <2>1 DEF clientVars, CallMoves, ClientTypeOK
  <2>6. QED
    BY <2>1, <2>3, <2>4, <2>5, ServerMoves
<1>2. TypeOK /\ now \in Nat /\ stored \in Minted \cup {NoToken} /\ valid \in BOOLEAN
  BY DEF ClientTypeOK, TypeOK, UsersOK
<1>3. AccessExpires \/ PageLoadFails \/ (Tick /\ UNCHANGED clientVars) \/ UNCHANGED allVars => Background
  <2>1. AccessExpires \/ PageLoadFails => Background
    <3>1. UNCHANGED vars => SameRows /\ UNCHANGED req /\ now <= now'
      BY <1>2 DEF vars, tokenVars, SameRows
    <3>2. AccessExpires => Background
      BY <3>1 DEF AccessExpires, Background
    <3>3. PageLoadFails => Background
      BY <3>1 DEF PageLoadFails, clearSession, Background
    <3>4. QED
      BY <3>2, <3>3
  <2>2. Tick /\ UNCHANGED clientVars => Background
    BY <1>2 DEF Tick, clientVars, Background, SameRows, tokenVars
  <2>3. UNCHANGED allVars => Background
    BY <1>2 DEF allVars, vars, clientVars, Background, SameRows, tokenVars
  <2>4. QED
    BY <2>1, <2>2, <2>3
<1>4. QED
  BY <1>1, <1>3, BrowserMoves DEF ClientNext

\* Seen from the server, the browser is one of its clients.
LEMMA ClientIsServer ==
    ASSUME ClientTypeOK, [ClientNext]_allVars
    PROVE  [Next]_vars
<1>1. ASSUME NEW r \in Requests, ClientStep(r) PROVE [Next]_vars
  <2>1. Visitor \in Users /\ password[Visitor] \in 0..MaxPasswords
    BY SessionClientAssumption DEF ClientTypeOK, TypeOK, UsersOK
  <2>2. SignIn(r) => Arrive(r)
    BY <2>1 DEF SignIn, Arrive
  <2>3. SignOut(r) => Arrive(r) \/ UNCHANGED vars
    BY DEF SignOut, SignedIn, Arrive, ClientTypeOK
  <2>4. TryRefresh(r) => Arrive(r) \/ UNCHANGED vars
    BY DEF TryRefresh, SignedIn, Arrive, ClientTypeOK
  <2>5. (\E kind \in Refused : Refuse(r, kind)) => UNCHANGED vars
    BY DEF Refuse
  <2>6. Refreshed(r) \/ SignedInAnswer(r) \/ SignedOut(r) \/ RequestLost(r) \/ AnswerLost(r)
           => Proceed(r) \/ UNCHANGED vars
    BY DEF Refreshed, SignedInAnswer, SignedOut, RequestLost, AnswerLost, Proceed
  <2>7. QED
    BY <1>1, <2>2, <2>3, <2>4, <2>5, <2>6 DEF ClientStep, Next
<1>2. ASSUME NEW r \in Requests, ServerStep(r) PROVE Next
  BY <1>2 DEF ServerStep, Next, Proceed
<1>3. AccessExpires \/ PageLoadFails \/ UNCHANGED allVars => UNCHANGED vars
  BY DEF AccessExpires, PageLoadFails, allVars
<1>4. Tick => Next
  BY DEF Next
<1>5. QED
  BY <1>1, <1>2, <1>3, <1>4 DEF ClientNext

\* The handler that moves, and its call, decide.
LEMMA ClientFrame ==
    ASSUME ClientTypeOK, ClientShape, TypeOK', NEW r \in Requests, OnlyMoves(r), CallMoves(r),
           Minted \subseteq Minted', \A t \in Minted : FamilyOf(t)' = FamilyOf(t), ShapeOf(r)',
           call'[r] \in {"none", "signOutLost"} \cup Refused <=> req'[r].pc = "idle",
           stored' \in Minted' \cup {NoToken}, valid' \in BOOLEAN,
           left' \subseteq Minted', left \subseteq left', ended' \subseteq left'
    PROVE  ClientTypeOK' /\ ClientShape'
<1>1. ASSUME NEW q \in Requests, q # r
      PROVE  ShapeOf(q)' /\ (call'[q] \in {"none", "signOutLost"} \cup Refused <=> req'[q].pc = "idle")
  <2>1. req'[q] = req[q] /\ call'[q] = call[q]
    BY <1>1 DEF OnlyMoves, CallMoves
  <2>2. PICK t : t = req[q].token
    OBVIOUS
  <2>3. t \in Minted /\ FamilyOf(t) \in left => t \in Minted' /\ FamilyOf(t)' \in left'
    OBVIOUS
  <2>4. ShapeOf(q)'
    <3>1. req'[q].token = t
      BY <2>1, <2>2
    <3>2. ShapeOf(q)
      BY DEF ClientShape
    <3>3. QED
      BY <2>1, <2>2, <2>3, <3>1, <3>2 DEF ShapeOf
  <2>5. QED
    BY <2>1, <2>4 DEF ClientTypeOK
<1>2. ClientShape'
  BY <1>1 DEF ClientShape
<1>3. call' \in [Requests -> Call]
  BY DEF CallMoves
<1>4. QED
  BY <1>1, <1>2, <1>3 DEF ClientTypeOK

LEMMA ClientInitInv == ClientInit => ClientTypeOK /\ ClientShape
<1> SUFFICES ASSUME ClientInit PROVE ClientTypeOK /\ ClientShape
  OBVIOUS
<1>1. TypeOK
  BY InitType DEF ClientInit
<1>2. \A r \in Requests : call[r] = "none" /\ req[r].pc = "idle"
  BY DEF ClientInit, Init, Idle
<1>3. call \in [Requests -> Call]
  BY DEF ClientInit, Call
<1>4. QED
  BY <1>1, <1>2, <1>3 DEF ClientInit, ClientTypeOK, ClientShape, ShapeOf, Refreshing, Refused

\* The kinds of a call exclude each other.
LEMMA CallKinds ==
    /\ "none" \notin Refused /\ "none" \notin Refreshing /\ "signIn" \notin Refused
    /\ "signIn" \notin Refreshing /\ "signOut" \notin Refused /\ "signOut" \notin Refreshing
    /\ "signOutLost" \notin Refused /\ "signOutLost" \notin Refreshing
    /\ Refused \cap Refreshing = {}
BY DEF Refused, Refreshing

LEMMA ClientNextInv ==
    ASSUME ClientTypeOK, ClientShape, [ClientNext]_allVars
    PROVE  ClientTypeOK' /\ ClientShape'
<1>1. TypeOK'
  BY ClientIsServer, NextType DEF ClientTypeOK
<1>2. /\ TypeOK /\ stored \in Minted \cup {NoToken} /\ valid \in BOOLEAN /\ left \subseteq Minted
      /\ ended \subseteq left /\ minted \in Nat /\ \A t \in Minted : FamilyOf(t) \in Minted
  BY DEF ClientTypeOK, TypeOK, RowsOK
<1> USE CallKinds
<1>3. ASSUME NEW r \in Requests, OnlyMoves(r), CallMoves(r), BrowserMove(r)
      PROVE  ClientTypeOK' /\ ClientShape'
  <2>1. Minted' = Minted /\ \A t \in Minted : FamilyOf(t)' = FamilyOf(t)
    BY <1>3 DEF BrowserMove, Begins, Meets401, Presents, Abandons, Saves, IsTurnedDown,
                SignsOut, IsSignedOut, LosesAnswer, SameRows, Minted, FamilyOf
  <2>2. stored' \in Minted' \cup {NoToken} /\ valid' \in BOOLEAN /\ left' \subseteq Minted'
        /\ left \subseteq left' /\ ended' \subseteq left'
    <3>1. Saves(r) => req[r].child \in Minted
      BY DEF Saves, ClientShape, ShapeOf
    <3>2. IsSignedOut(r) => FamilyOf(req[r].token) \in left
      BY DEF IsSignedOut, ClientShape, ShapeOf
    <3>3. QED
      BY <1>2, <1>3, <2>1, <3>1, <3>2
      DEF BrowserMove, Begins, Meets401, Presents, Abandons, Saves, IsTurnedDown, SignsOut, IsSignedOut, LosesAnswer
  <2>3. call'[r] \in {"none", "signOutLost"} \cup Refused <=> req'[r].pc = "idle"
    <3>1. (Meets401(r) \/ Abandons(r)) => req[r].pc = "idle" /\ req' = req
      BY DEF Meets401, Abandons, ClientTypeOK
    <3>2. QED
      BY <1>3, <3>1
      DEF BrowserMove, Begins, Meets401, Presents, Abandons, Saves, IsTurnedDown, SignsOut, IsSignedOut, LosesAnswer
  <2>4. ShapeOf(r)'
    <3>1. (Meets401(r) \/ Abandons(r)) => req[r].pc = "idle" /\ req' = req
      BY DEF Meets401, Abandons, ClientTypeOK
    <3>2. CASE SignsOut(r)
      <4>1. PICK t \in Minted : t = stored
        BY <3>2 DEF SignsOut
      <4>2. FamilyOf(t)' \in left' /\ t \in Minted'
        BY <2>1, <3>2, <4>1 DEF SignsOut
      <4>3. QED
        BY <3>2, <4>1, <4>2 DEF SignsOut, ShapeOf
    <3>3. QED
      BY <1>3, <3>1, <3>2
      DEF BrowserMove, Begins, Meets401, Presents, Abandons, Saves, IsTurnedDown,
          IsSignedOut, LosesAnswer, ShapeOf, TokenPC
  <2>5. QED
    BY <1>1, <1>3, <2>1, <2>2, <2>3, <2>4, ClientFrame
<1>4. ASSUME NEW r \in Requests, OnlyMoves(r), CallMoves(r), ServerMove(r), UNCHANGED clientVars,
             call[r] \in {"signIn", "signOut"} \cup Refreshing
      PROVE  ClientTypeOK' /\ ClientShape'
  <2>1. /\ Minted \subseteq Minted' /\ (Opens(r) \/ Mints(r) => minted + 1 \in Minted')
        /\ \A t \in Minted : FamilyOf(t)' = FamilyOf(t)
    BY <1>2, <1>4 DEF ServerMove, GivesUp, ReadsLive, ReadsRevoked, Opens, Mints, Retires, Replies, Ends,
                      RowsKept, SameRows, Adds, Minted, FamilyOf
  <2>2. UNCHANGED <<stored, valid, call, left, ended>>
    BY <1>4 DEF clientVars
  <2>3. call'[r] \in {"none", "signOutLost"} \cup Refused <=> req'[r].pc = "idle"
    BY <1>4, <2>2 DEF ServerMove, GivesUp, ReadsLive, ReadsRevoked, Opens, Mints, Retires, Replies, Ends, Replied
  <2>4. ShapeOf(r)'
    <3>1. /\ call[r] = "signIn" => req[r].pc \in {"openSession", "answered"}
          /\ call[r] = "signOut" => req[r].pc \in {"revokeOne", "answered"}
          /\ call[r] = "signOut" /\ req[r].pc = "revokeOne"
             => req[r].token \in Minted /\ FamilyOf(req[r].token) \in left
          /\ call[r] \in Refreshing => req[r].pc \in (TokenPC \ {"revokeOne"}) \cup {"answered"}
          /\ req[r].pc \in {"retire", "respond"} => req[r].child \in Minted
      BY DEF ClientShape, ShapeOf
    <3>2. CASE GivesUp(r)
      BY <1>4, <2>2, <3>2 DEF GivesUp, ShapeOf
    <3>3. CASE ReadsLive(r) \/ ReadsRevoked(r)
      BY <1>4, <2>2, <3>1, <3>3 DEF ReadsLive, ReadsRevoked, ShapeOf, TokenPC
    <3>4. CASE Opens(r)
      BY <1>4, <2>1, <2>2, <3>1, <3>4 DEF Opens, Replied, ShapeOf
    <3>5. CASE Mints(r)
      BY <1>4, <2>1, <2>2, <3>1, <3>5 DEF Mints, ShapeOf, TokenPC
    <3>6. CASE Retires(r)
      BY <1>4, <2>1, <2>2, <3>1, <3>6 DEF Retires, ShapeOf, TokenPC
    <3>7. CASE Replies(r)
      BY <1>4, <2>1, <2>2, <3>1, <3>7 DEF Replies, Replied, ShapeOf
    <3>8. CASE Ends(r)
      <4>1. PICK t : t = req[r].token
        OBVIOUS
      <4>2. call[r] = "signOut" => t \in Minted' /\ FamilyOf(t)' \in left'
        BY <2>1, <2>2, <3>1, <3>8, <4>1 DEF Ends
      <4>3. req'[r].pc = "answered" /\ req'[r].token = t /\ call[r] \notin Refreshing \cup {"signIn"}
        BY <3>1, <3>8, <4>1 DEF Ends
      <4>4. QED
        BY <2>2, <4>2, <4>3 DEF ShapeOf
    <3>9. QED
      BY <1>4, <3>2, <3>3, <3>4, <3>5, <3>6, <3>7, <3>8 DEF ServerMove
  <2>5. QED
    BY <1>1, <1>2, <1>4, <2>1, <2>2, <2>3, <2>4, ClientFrame
<1>5. CASE Background
  <2>1. ClientTypeOK'
    BY <1>1, <1>2, <1>5 DEF Background, SameRows, Minted, ClientTypeOK
  <2>2. ClientShape'
    BY <1>5 DEF Background, SameRows, Minted, FamilyOf, ClientShape, ShapeOf
  <2>3. QED
    BY <2>1, <2>2
<1>6. QED
  BY <1>3, <1>4, <1>5, ClientSteps

-----------------------------------------------------------------------------
(* While calls do not overlap and refreshes are answered: the token a call *)
(* works on, or that is stored while none is under way, is the only one    *)
(* left of a session the user is in; what the server ended is over.        *)
Usable(t) ==
    /\ t \in Live
    /\ FamilyMembers(FamilyOf(t)) \ {t} \subseteq revoked
    /\ FamilyOf(t) \notin left
\* A rotation between its two writes: the parent is about to go.
Handed(t, c) ==
    /\ c \in Live /\ c # t /\ FamilyOf(t) = FamilyOf(c)
    /\ FamilyMembers(FamilyOf(c)) \ {t, c} \subseteq revoked
    /\ FamilyOf(c) \notin left
Over(f) == \A t \in FamilyMembers(f) : t \in revoked \/ Expired(t)
SessionOver(t) == Over(FamilyOf(t))
\* The sign-out has read the token that is left of its session.
Last(t) == t \in Minted /\ FamilyMembers(FamilyOf(t)) \ {t} \subseteq revoked

CallOK(r) ==
    /\ call[r] = "signIn" => stored = NoToken
    /\ call[r] \in Refreshing =>
          /\ req[r].pc # "revokeFamily"
          /\ req[r].pc \in {"refresh", "insertChild"} => Usable(req[r].token)
          /\ req[r].pc = "retire" => Handed(req[r].token, req[r].child)
          /\ req[r].pc = "respond" => Usable(req[r].child)
    /\ /\ call[r] \in Refreshing \cup {"signIn"}
       /\ req[r].pc = "answered" /\ req[r].answer = "ok"
       => Usable(req[r].child)
    /\ call[r] = "signOut" =>
          /\ req[r].pc = "revokeOne" => Last(req[r].token)
          /\ req[r].pc = "answered" /\ req[r].answer = "ok" => SessionOver(req[r].token)

OrderlyOK ==
    /\ \A r, s \in Pending : r = s
    /\ \A f \in ended : Over(f)
    /\ (\A r \in Requests : call[r] \in {"none"} \cup Refused) /\ SignedIn => Usable(stored)
    /\ \A r \in Requests : CallOK(r)

OrderlyInv == ClientTypeOK /\ ClientShape /\ (orderly => OrderlyOK)

LEMMA OrderlyInit == ClientInit => OrderlyOK
<1> SUFFICES ASSUME ClientInit PROVE OrderlyOK
  OBVIOUS
<1>1. left = {} /\ ended = {} /\ stored = NoToken /\ \A r \in Requests : call[r] = "none"
  BY DEF ClientInit
<1>2. Pending = {}
  BY <1>1 DEF Pending
<1>3. \A r \in Requests : CallOK(r)
  BY <1>1, CallKinds DEF CallOK
<1>4. QED
  BY <1>1, <1>2, <1>3 DEF OrderlyOK, SignedIn

\* What holds of tokens and sessions as long as their rows do not change.
LEMMA UsableKept ==
    ASSUME SameRows, left' = left
    PROVE  /\ \A t : Usable(t) => Usable(t)'
           /\ \A t, c : Handed(t, c) => Handed(t, c)'
           /\ \A t : Last(t) => Last(t)'
           /\ \A t : FamilyOf(t)' = FamilyOf(t)
<1>1. Live' = Live /\ Minted' = Minted /\ grant' = grant /\ revoked' = revoked
  BY DEF SameRows, Live, Minted
<1>2. \A t : FamilyOf(t)' = FamilyOf(t)
  BY <1>1 DEF FamilyOf
<1>3. \A f : FamilyMembers(f)' = FamilyMembers(f)
  BY <1>1 DEF FamilyMembers, FamilyOf
<1>4. QED
  BY <1>1, <1>2, <1>3 DEF Usable, Handed, Last

LEMMA OverKept ==
    ASSUME TypeOK, UNCHANGED <<minted, grant>>, revoked \subseteq revoked', now \in Nat, now' \in Nat,
           now <= now', NEW f, Over(f)
    PROVE  Over(f)'
<1>1. ASSUME NEW t \in FamilyMembers(f)' PROVE t \in revoked' \/ Expired(t)'
  <2>1. t \in Minted /\ t \in FamilyMembers(f) /\ grant[t].expires \in Nat
    BY DEF FamilyMembers, FamilyOf, Minted, TypeOK, RowsOK, Token
  <2>2. t \in revoked \/ now >= grant[t].expires
    BY <2>1 DEF Over, Expired
  <2>3. QED
    BY <2>1, <2>2 DEF Expired
<1>2. QED
  BY <1>1 DEF Over

\* A new row belongs to one family and leaves the others as they are.
LEMMA RowAdded ==
    ASSUME TypeOK, NEW f, NEW n, n = minted + 1, Adds(f), now' = now
    PROVE  /\ n \notin Minted /\ n \in Live' /\ Minted' = Minted \cup {n}
           /\ FamilyOf(n)' = f
           /\ \A t \in Minted : FamilyOf(t)' = FamilyOf(t)
           /\ FamilyMembers(f)' = FamilyMembers(f) \cup {n}
           /\ \A g : g # f /\ Over(g) => Over(g)'
<1>1. minted \in Nat /\ revoked \subseteq Minted /\ minted' = minted + 1 /\ revoked' = revoked
  BY DEF TypeOK, RowsOK, Adds
<1>2. n \notin Minted /\ Minted' = Minted \cup {n}
  BY <1>1 DEF Minted
<1>3. n \in Live'
  BY <1>1, <1>2 DEF Live
<1>4. FamilyOf(n)' = f /\ \A t \in Minted : FamilyOf(t)' = FamilyOf(t)
  BY <1>1 DEF Adds, FamilyOf
<1>5. FamilyMembers(f)' = FamilyMembers(f) \cup {n}
  BY <1>2, <1>4 DEF FamilyMembers
<1>6. \A g : g # f => FamilyMembers(g)' = FamilyMembers(g)
  BY <1>2, <1>4 DEF FamilyMembers
<1>7. ASSUME NEW g, g # f, Over(g) PROVE Over(g)'
  <2>1. \A t \in FamilyMembers(g) : grant'[t] = grant[t]
    BY DEF FamilyMembers, Adds
  <2>2. FamilyMembers(g)' = FamilyMembers(g)
    BY <1>6, <1>7
  <2>3. ASSUME NEW t \in FamilyMembers(g) PROVE t \in revoked' \/ Expired(t)'
    BY <1>1, <1>7, <2>1, <2>3 DEF Over, Expired
  <2>4. QED
    BY <2>2, <2>3 DEF Over
<1>8. QED
  BY <1>2, <1>3, <1>4, <1>5, <1>7

\* One call moves and no other is under way: it decides.
LEMMA OrderlyMove ==
    ASSUME NEW r \in Requests, \A s \in Requests : s # r => call'[s] = "none",
           CallOK(r)', \A f \in ended' : Over(f)',
           call'[r] \in {"none"} \cup Refused /\ stored' # NoToken => Usable(stored)'
    PROVE  OrderlyOK'
<1>1. \A s \in Requests : CallOK(s)'
  BY CallKinds DEF CallOK
<1>2. \A s \in Pending' : s = r
  BY DEF Pending
<1>3. QED
  BY <1>1, <1>2 DEF OrderlyOK, SignedIn

\* The call that moves is the only one.
LEMMA OnlyOneCall ==
    ASSUME OrderlyOK, NEW r \in Requests, CallMoves(r), r \in Pending \cup Pending',
           \A p, q \in Pending' : p = q
    PROVE  \A s \in Requests : s # r => call[s] = "none" /\ call'[s] = "none"
<1> SUFFICES ASSUME NEW s \in Requests, s # r PROVE call[s] = "none" /\ call'[s] = "none"
  OBVIOUS
<1>1. call'[s] = call[s]
  BY DEF CallMoves
<1>2. CASE r \in Pending
  BY <1>1, <1>2 DEF OrderlyOK, Pending
<1>3. CASE r \in Pending'
  BY <1>1, <1>3 DEF Pending
<1>4. QED
  BY <1>1, <1>2, <1>3

\* The browser's steps.
LEMMA OrderlyBrowser ==
    ASSUME ClientTypeOK, ClientShape, OrderlyOK, TypeOK', NEW r \in Requests,
           OnlyMoves(r), CallMoves(r), now' = now, BrowserMove(r),
           \A p, q \in Pending' : p = q, ~\E p \in Requests : call[p] = "refreshing" /\ AnswerLost(p)
    PROVE  OrderlyOK'
<1>1. /\ TypeOK /\ now \in Nat /\ now' \in Nat /\ now <= now' /\ stored \in Minted \cup {NoToken}
      /\ NoToken \notin Minted
  BY DEF ClientTypeOK, TypeOK, UsersOK, Minted, NoToken
<1>2. r \in Pending \cup Pending'
  BY CallKinds DEF BrowserMove, Begins, Meets401, Presents, Abandons, Saves, IsTurnedDown, SignsOut,
                   IsSignedOut, LosesAnswer, Pending
<1>3. \A s \in Requests : s # r => call[s] = "none" /\ call'[s] = "none"
  BY <1>2, OnlyOneCall
<1>4. CallOK(r)
  BY DEF OrderlyOK
<1>5. call[r] \in {"none"} \cup Refused /\ stored # NoToken => Usable(stored)
  BY <1>3 DEF OrderlyOK, SignedIn
<1>6. ASSUME left' = left, SameRows
      PROVE  /\ ended' = ended => \A f \in ended' : Over(f)'
             /\ \A t : Usable(t) => Usable(t)'
             /\ \A f : Over(f) => Over(f)'
  <2>1. UNCHANGED <<minted, grant>> /\ revoked \subseteq revoked'
    BY <1>6 DEF SameRows
  <2>2. \A f : Over(f) => Over(f)'
    BY <1>1, <2>1, OverKept
  <2>3. QED
    BY <1>6, <2>2, UsableKept DEF OrderlyOK
<1> USE CallKinds
<1>7. CASE Begins(r)
  <2>1. call'[r] = "signIn" /\ stored' = NoToken /\ ~(req'[r].pc = "answered" /\ req'[r].answer = "ok")
    BY <1>7 DEF Begins
  <2>2. CallOK(r)'
    BY <2>1 DEF CallOK
  <2>3. QED
    BY <1>3, <1>6, <1>7, <2>1, <2>2, OrderlyMove DEF Begins
<1>8. CASE Meets401(r)
  <2>1. call'[r] \in Refused /\ stored' = stored /\ call[r] = "none"
    BY <1>8 DEF Meets401
  <2>2. CallOK(r)'
    BY <2>1 DEF CallOK
  <2>3. stored' # NoToken => Usable(stored)'
    <3>1. PICK t : t = stored
      OBVIOUS
    <3>2. t # NoToken => Usable(t)'
      BY <1>5, <1>6, <1>8, <2>1, <3>1 DEF Meets401
    <3>3. QED
      BY <2>1, <3>1, <3>2
  <2>4. QED
    BY <1>3, <1>6, <1>8, <2>2, <2>3, OrderlyMove DEF Meets401
<1>9. CASE Presents(r)
  <2>1. PICK t : t = stored
    OBVIOUS
  <2>2. call'[r] \in Refreshing /\ req'[r].pc = "refresh" /\ req'[r].token = t
    BY <1>9, <2>1 DEF Presents
  <2>3. Usable(t)'
    BY <1>1, <1>5, <1>6, <1>9, <2>1 DEF Presents
  <2>4. CallOK(r)'
    BY <2>2, <2>3 DEF CallOK
  <2>5. QED
    BY <1>3, <1>6, <1>9, <2>2, <2>4, OrderlyMove DEF Presents
<1>10. CASE Abandons(r)
  <2>1. call'[r] = "none" /\ stored' \in {stored, NoToken} /\ call[r] \in Refused
    BY <1>10 DEF Abandons
  <2>2. CallOK(r)'
    BY <2>1 DEF CallOK
  <2>3. stored' # NoToken => Usable(stored)'
    <3>1. PICK t : t = stored
      OBVIOUS
    <3>2. t # NoToken => Usable(t)'
      BY <1>5, <1>6, <1>10, <2>1, <3>1 DEF Abandons
    <3>3. QED
      BY <2>1, <3>1, <3>2
  <2>4. QED
    BY <1>3, <1>6, <1>10, <2>2, <2>3, OrderlyMove DEF Abandons
<1>11. CASE Saves(r)
  <2>1. PICK t : t = req[r].child
    OBVIOUS
  <2>2. call'[r] = "none" /\ stored' = t
    BY <1>11, <2>1 DEF Saves
  <2>3. Usable(t)'
    BY <1>4, <1>6, <1>11, <2>1 DEF Saves, CallOK
  <2>4. Usable(stored)' /\ CallOK(r)'
    BY <2>2, <2>3 DEF CallOK
  <2>5. QED
    BY <1>3, <1>6, <1>11, <2>4, OrderlyMove DEF Saves
<1>12. CASE IsTurnedDown(r)
  <2>1. call'[r] = "none" /\ stored' = NoToken
    BY <1>4, <1>12 DEF IsTurnedDown, CallOK
  <2>2. CallOK(r)'
    BY <2>1 DEF CallOK
  <2>3. QED
    BY <1>3, <1>6, <1>12, <2>1, <2>2, OrderlyMove DEF IsTurnedDown
<1>13. CASE SignsOut(r)
  <2>1. /\ call'[r] \in {"signOut", "signOutLost"} /\ call[r] = "none" /\ stored \in Minted
        /\ SameRows /\ ended' = ended
    BY <1>13 DEF SignsOut
  <2>2. PICK t \in Minted : t = stored
    BY <2>1
  <2>3. t \in Minted' /\ FamilyOf(t)' = FamilyOf(t)
        /\ FamilyMembers(FamilyOf(t))' = FamilyMembers(FamilyOf(t))
    BY <2>1 DEF SameRows, Minted, FamilyOf, FamilyMembers
  <2>4. Last(t)'
    <3>1. Usable(t)
      BY <1>1, <1>5, <2>1, <2>2
    <3>2. QED
      BY <2>1, <2>3, <3>1 DEF Usable, Last, SameRows
  <2>5. Expired(t) => Over(FamilyOf(t))'
    <3>1. Expired(t) => Expired(t)'
      BY <1>1, <2>1, <2>2 DEF Expired, SameRows
    <3>2. QED
      BY <2>3, <2>4, <3>1 DEF Last, Over
  <2>6. CASE call'[r] = "signOutLost"
    <3>1. CallOK(r)'
      BY <2>6 DEF CallOK
    <3>2. QED
      BY <1>1, <1>3, <2>1, <2>6, <3>1, OrderlyMove, OverKept DEF OrderlyOK, SameRows
  <2>7. CASE call'[r] = "signOut"
    <3>1. \/ req'[r].pc = "revokeOne" /\ req'[r].token = t
          \/ req'[r].pc = "answered" /\ req'[r].token = t /\ Expired(t)
      BY <1>13, <2>2, <2>7 DEF SignsOut
    <3>2. Expired(t) => SessionOver(t)'
      BY <2>3, <2>5 DEF SessionOver
    <3>3. CallOK(r)'
      BY <2>4, <2>7, <3>1, <3>2 DEF CallOK
    <3>4. QED
      BY <1>1, <1>3, <2>1, <2>7, <3>3, OrderlyMove, OverKept DEF OrderlyOK, SameRows
  <2>8. QED
    BY <2>1, <2>6, <2>7
<1>14. CASE IsSignedOut(r)
  <2>1. PICK f : f = FamilyOf(req[r].token)
    OBVIOUS
  <2>2. /\ call[r] = "signOut" /\ req[r].pc = "answered" /\ req[r].answer = "ok"
        /\ call'[r] = "none" /\ stored' = NoToken /\ SameRows /\ left' = left /\ ended' = ended \cup {f}
    BY <1>14, <2>1 DEF IsSignedOut
  <2>3. Over(f) /\ \A g \in ended : Over(g)
    BY <1>4, <2>1, <2>2 DEF CallOK, OrderlyOK, SessionOver
  <2>4. \A g \in ended' : Over(g)'
    BY <1>6, <2>2, <2>3
  <2>5. CallOK(r)'
    BY <2>2 DEF CallOK
  <2>6. QED
    BY <1>3, <2>2, <2>4, <2>5, OrderlyMove
<1>15. QED
  BY <1>7, <1>8, <1>9, <1>10, <1>11, <1>12, <1>13, <1>14 DEF BrowserMove, LosesAnswer

\* The server's steps for the call under way.
LEMMA OrderlyServer ==
    ASSUME ClientTypeOK, ClientShape, OrderlyOK, TypeOK', NEW r \in Requests,
           OnlyMoves(r), CallMoves(r), now' = now, ServerMove(r), UNCHANGED clientVars,
           call[r] \in {"signIn", "signOut"} \cup Refreshing, \A p, q \in Pending' : p = q
    PROVE  OrderlyOK'
<1>1. /\ TypeOK /\ now \in Nat /\ now' \in Nat /\ now <= now' /\ left \subseteq Minted
      /\ ended \subseteq left /\ \A t \in Minted : FamilyOf(t) \in Minted
  BY DEF ClientTypeOK, TypeOK, UsersOK, RowsOK
<1>2. UNCHANGED <<stored, call, left, ended>>
  BY DEF clientVars
<1>3. \A s \in Requests : s # r => call'[s] = "none"
  <2>1. r \in Pending
    BY CallKinds DEF Pending
  <2>2. QED
    BY <2>1, OnlyOneCall
<1>4. CallOK(r) /\ ShapeOf(r)
  BY DEF OrderlyOK, ClientShape
<1>5. SUFFICES CallOK(r)' /\ \A f \in ended' : Over(f)'
  BY <1>2, <1>3, CallKinds, OrderlyMove
<1>6. /\ call'[r] = "signIn" => stored' = NoToken
      /\ call'[r] = "signOut" => req[r].pc \in {"revokeOne", "answered"}
  BY <1>2, <1>4 DEF CallOK, ShapeOf
<1>7. ASSUME UNCHANGED <<minted, grant>>, revoked \subseteq revoked'
      PROVE  \A f \in ended' : Over(f)'
  BY <1>1, <1>2, <1>7, OverKept DEF OrderlyOK
<1>8. SameRows => \A f \in ended' : Over(f)'
  BY <1>7 DEF SameRows
<1> USE CallKinds
<1>9. CASE GivesUp(r)
  <2>1. req'[r].pc = "answered" /\ req'[r].answer # "ok"
    BY <1>9 DEF GivesUp
  <2>2. CallOK(r)'
    BY <1>6, <2>1 DEF CallOK
  <2>3. QED
    BY <1>7, <1>9, <2>2 DEF GivesUp, RowsKept
<1>10. CASE ReadsLive(r)
  <2>1. PICK t : t = req[r].token
    OBVIOUS
  <2>2. call[r] \in Refreshing /\ req[r].pc = "refresh"
    BY <1>4, <1>10 DEF ReadsLive, ShapeOf
  <2>3. Usable(t)'
    BY <1>2, <1>4, <1>10, <2>1, <2>2, UsableKept DEF ReadsLive, CallOK
  <2>4. req'[r].pc = "insertChild" /\ req'[r].token = t
    BY <1>10, <2>1 DEF ReadsLive
  <2>5. CallOK(r)'
    BY <1>6, <2>3, <2>4 DEF CallOK
  <2>6. QED
    BY <1>8, <1>10, <2>5 DEF ReadsLive
<1>11. CASE ReadsRevoked(r)
  <2>1. call[r] \in Refreshing /\ req[r].pc = "refresh"
    BY <1>4, <1>11 DEF ReadsRevoked, ShapeOf
  <2>2. QED
    BY <1>4, <1>11, <2>1 DEF ReadsRevoked, CallOK, Usable, Live
<1>12. CASE Opens(r)
  <2>1. PICK n : n = minted + 1
    OBVIOUS
  <2>2. Adds(n) /\ req'[r].pc = "answered" /\ req'[r].child = n
    BY <1>12, <2>1 DEF Opens, Replied
  <2>3. /\ n \notin Minted /\ n \in Live' /\ FamilyOf(n)' = n
        /\ FamilyMembers(n)' = FamilyMembers(n) \cup {n}
        /\ \A g : g # n /\ Over(g) => Over(g)'
    BY <1>1, <2>1, <2>2, RowAdded
  <2>4. FamilyMembers(n) = {}
    BY <1>1, <2>3 DEF FamilyMembers
  <2>5. Usable(n)'
    BY <1>1, <1>2, <2>3, <2>4 DEF Usable
  <2>6. call'[r] # "signOut"
    BY <1>6, <1>12 DEF Opens
  <2>7. CallOK(r)'
    BY <1>6, <2>2, <2>5, <2>6 DEF CallOK
  <2>8. QED
    BY <1>1, <1>2, <2>3, <2>7 DEF OrderlyOK
<1>13. CASE Mints(r)
  <2>1. PICK n : n = minted + 1
    OBVIOUS
  <2>2. PICK t : t = req[r].token
    OBVIOUS
  <2>3. PICK f : f = FamilyOf(t)
    OBVIOUS
  <2>4. /\ Adds(f) /\ req[r].pc = "insertChild"
        /\ req'[r].pc = "retire" /\ req'[r].token = t /\ req'[r].child = n
    BY <1>13, <2>1, <2>2, <2>3 DEF Mints
  <2>5. /\ n \notin Minted /\ n \in Live' /\ FamilyOf(n)' = f
        /\ FamilyMembers(f)' = FamilyMembers(f) \cup {n}
        /\ \A s \in Minted : FamilyOf(s)' = FamilyOf(s)
        /\ \A g : g # f /\ Over(g) => Over(g)'
    BY <1>1, <2>1, <2>4, RowAdded
  <2>6. call[r] \in Refreshing /\ Usable(t)
    BY <1>4, <2>2, <2>4 DEF ShapeOf, CallOK
  <2>7. t \in Minted /\ f \notin left /\ FamilyMembers(f) \ {t} \subseteq revoked /\ revoked' = revoked
    BY <2>3, <2>4, <2>6 DEF Usable, Live, Adds
  <2>8. FamilyOf(t)' = f
    BY <2>3, <2>5, <2>7
  <2>9. Handed(t, n)'
    BY <1>2, <2>5, <2>7, <2>8 DEF Handed
  <2>10. CallOK(r)'
    BY <1>6, <2>4, <2>9 DEF CallOK
  <2>11. QED
    BY <1>1, <1>2, <2>5, <2>7, <2>10 DEF OrderlyOK
<1>14. CASE Retires(r)
  <2>1. PICK t, c : t = req[r].token /\ c = req[r].child
    OBVIOUS
  <2>2. /\ UNCHANGED <<minted, grant>> /\ revoked' = revoked \cup {t}
        /\ req'[r].pc = "respond" /\ req'[r].child = c
    BY <1>14, <2>1 DEF Retires
  <2>3. Handed(t, c)
    BY <1>4, <1>14, <2>1 DEF Retires, ShapeOf, CallOK
  <2>4. \A g : FamilyOf(g)' = FamilyOf(g) /\ FamilyMembers(g)' = FamilyMembers(g)
    BY <2>2 DEF FamilyOf, FamilyMembers, Minted
  <2>5. Usable(c)'
    <3>1. c \in Live'
      BY <2>2, <2>3 DEF Handed, Live, Minted
    <3>2. PICK f : f = FamilyOf(c)
      OBVIOUS
    <3>3. FamilyMembers(f) \ {c} \subseteq revoked'
      BY <2>2, <2>3, <3>2 DEF Handed
    <3>4. FamilyOf(c)' = f /\ FamilyMembers(f)' = FamilyMembers(f) /\ f \notin left'
      BY <1>2, <2>3, <2>4, <3>2 DEF Handed
    <3>5. QED
      BY <3>1, <3>3, <3>4 DEF Usable
  <2>6. CallOK(r)'
    BY <1>6, <2>2, <2>5 DEF CallOK
  <2>7. QED
    BY <1>7, <2>2, <2>6
<1>15. CASE Replies(r)
  <2>1. PICK c : c = req[r].child
    OBVIOUS
  <2>2. SameRows /\ req[r].pc = "respond" /\ req'[r].pc = "answered" /\ req'[r].child = c
    BY <1>15, <2>1 DEF Replies, Replied
  <2>3. Usable(c)
    BY <1>4, <2>1, <2>2 DEF ShapeOf, CallOK
  <2>4. Usable(c)'
    BY <1>2, <2>2, <2>3, UsableKept
  <2>5. CallOK(r)'
    BY <1>6, <2>2, <2>4 DEF CallOK
  <2>6. QED
    BY <1>8, <2>2, <2>5
<1>16. CASE Ends(r)
  <2>1. PICK t : t = req[r].token
    OBVIOUS
  <2>2. /\ req[r].pc = "revokeOne" /\ UNCHANGED <<minted, grant>> /\ revoked' = revoked \cup {t}
        /\ req'[r].pc = "answered" /\ req'[r].token = t
    BY <1>16, <2>1 DEF Ends
  <2>3. call'[r] = "signOut" /\ Last(t)
    BY <1>2, <1>4, <2>1, <2>2 DEF ShapeOf, CallOK
  <2>4. PICK f : f = FamilyOf(t)
    OBVIOUS
  <2>5. FamilyOf(t)' = f /\ FamilyMembers(f)' = FamilyMembers(f)
    BY <2>2, <2>4 DEF FamilyOf, FamilyMembers, Minted
  <2>6. Over(f)'
    BY <2>2, <2>3, <2>4, <2>5 DEF Last, Over
  <2>7. SessionOver(t)'
    BY <2>5, <2>6 DEF SessionOver
  <2>8. CallOK(r)'
    BY <2>2, <2>3, <2>7 DEF CallOK
  <2>9. QED
    BY <1>7, <2>2, <2>8
<1>17. QED
  BY <1>9, <1>10, <1>11, <1>12, <1>13, <1>14, <1>15, <1>16 DEF ServerMove

\* The clock, the access token and a page that loads.
LEMMA OrderlyBackground ==
    ASSUME ClientTypeOK, OrderlyOK, TypeOK', Background
    PROVE  OrderlyOK'
<1>1. /\ TypeOK /\ now \in Nat /\ now' \in Nat /\ now <= now'
      /\ SameRows /\ UNCHANGED <<req, call, left, ended>> /\ stored' \in {stored, NoToken}
  BY DEF ClientTypeOK, TypeOK, UsersOK, Background
<1>2. Pending' = Pending
  BY <1>1 DEF Pending
<1>a. \A f : Over(f) => Over(f)'
  <2>1. UNCHANGED <<minted, grant>> /\ revoked \subseteq revoked'
    BY <1>1 DEF SameRows
  <2>2. QED
    BY <1>1, <2>1, OverKept
<1>3. \A f \in ended' : Over(f)'
  BY <1>1, <1>a DEF OrderlyOK
<1>4. /\ \A t : Usable(t) => Usable(t)'
      /\ \A t, c : Handed(t, c) => Handed(t, c)'
      /\ \A t : Last(t) => Last(t)'
      /\ \A t : FamilyOf(t)' = FamilyOf(t)
  BY <1>1, UsableKept
<1>5. ASSUME NEW r \in Requests PROVE CallOK(r)'
  <2>1. PICK t, c : t = req[r].token /\ c = req[r].child
    OBVIOUS
  <2>2. req'[r] = req[r] /\ call'[r] = call[r]
    BY <1>1
  <2>3. CallOK(r) /\ (call[r] = "signIn" => stored' = NoToken)
    BY <1>1 DEF OrderlyOK, CallOK
  <2>4. /\ Usable(t) => Usable(t)'
        /\ Usable(c) => Usable(c)'
        /\ Handed(t, c) => Handed(t, c)'
        /\ Last(t) => Last(t)'
        /\ SessionOver(t) => SessionOver(t)'
    BY <1>4, <1>a DEF SessionOver
  <2>5. req'[r].token = t /\ req'[r].child = c
    BY <2>1, <2>2
  <2>6. QED
    BY <2>1, <2>2, <2>3, <2>4, <2>5 DEF CallOK
<1>6. ASSUME \A r \in Requests : call[r] \in {"none"} \cup Refused, stored' # NoToken PROVE Usable(stored)'
  <2>1. PICK t : t = stored
    OBVIOUS
  <2>2. stored' = t /\ t # NoToken
    BY <1>1, <1>6, <2>1
  <2>3. Usable(t)'
    BY <1>4, <1>6, <2>1, <2>2 DEF OrderlyOK, SignedIn
  <2>4. QED
    BY <2>2, <2>3
<1>7. QED
  BY <1>1, <1>2, <1>3, <1>5, <1>6 DEF OrderlyOK, SignedIn

LEMMA OrderlyNext ==
    ASSUME ClientTypeOK, ClientShape, OrderlyOK, [ClientNext]_allVars,
           \A p, q \in Pending' : p = q, ~\E p \in Requests : call[p] = "refreshing" /\ AnswerLost(p)
    PROVE  OrderlyOK'
<1>1. TypeOK'
  BY ClientNextInv DEF ClientTypeOK
<1>2. CASE Background
  BY <1>1, <1>2, OrderlyBackground
<1>3. ASSUME NEW r \in Requests, OnlyMoves(r), CallMoves(r), now' = now,
             \/ BrowserMove(r)
             \/ /\ ServerMove(r) /\ UNCHANGED clientVars
                /\ call[r] \in {"signIn", "signOut"} \cup Refreshing
      PROVE  OrderlyOK'
  BY <1>1, <1>3, OrderlyBrowser, OrderlyServer
<1>4. QED
  BY <1>2, <1>3, ClientSteps

LEMMA OrderlyInvariance == MCClientSpec => []OrderlyInv
<1>1. MCClientInit => OrderlyInv
  BY ClientInitInv, OrderlyInit DEF MCClientInit, OrderlyInv
<1>2. OrderlyInv /\ [MCClientNext]_<<allVars, orderly>> => OrderlyInv'
  <2> SUFFICES ASSUME OrderlyInv, [MCClientNext]_<<allVars, orderly>> PROVE OrderlyInv'
    OBVIOUS
  <2>1. ClientTypeOK /\ ClientShape /\ [ClientNext]_allVars
    BY DEF OrderlyInv, MCClientNext
  <2>2. ClientTypeOK' /\ ClientShape'
    BY <2>1, ClientNextInv
  <2>3. CASE MCClientNext
    <3>1. orderly' => /\ orderly /\ \A p, q \in Pending' : p = q
                      /\ ~\E p \in Requests : call[p] = "refreshing" /\ AnswerLost(p)
      BY <2>3 DEF MCClientNext
    <3>2. orderly' => OrderlyOK'
      BY <2>1, <3>1, OrderlyNext DEF OrderlyInv
    <3>3. QED
      BY <2>2, <3>2 DEF OrderlyInv
  <2>4. CASE UNCHANGED <<allVars, orderly>>
    <3>1. OrderlyOK' = OrderlyOK
      BY <2>4 DEF allVars, vars, tokenVars, userVars, clientVars, OrderlyOK, Pending, Over, SessionOver, Expired, Usable,
                  Live, Minted, FamilyMembers, FamilyOf, SignedIn, CallOK, Handed, Last
    <3>2. QED
      BY <2>2, <2>4, <3>1 DEF OrderlyInv
  <2>5. QED
    BY <2>3, <2>4
<1>3. QED
  BY <1>1, <1>2, PTL DEF MCClientSpec

\* One call at a time, whose refreshes are answered: the stored token is the live one of
\* its session, a session that was signed out of is not stored, and when the server has
\* confirmed the sign-out none of its tokens is usable, though handlers may die half-way
\* through a refresh or a sign-out, requests get lost and the clock runs.
\* (http.ts tryRefresh, token.service.ts:97-104, frontend/src/api/auth.ts:55-71)
THEOREM StoreAgrees == MCClientSpec => []OrderlyStoreAgrees
<1>1. OrderlyInv => OrderlyStoreAgrees
  <2> SUFFICES ASSUME OrderlyInv, orderly PROVE StoredTokenIsLive /\ SignOutEndsSession
    BY DEF OrderlyInv, OrderlyStoreAgrees
  <2>1. OrderlyOK
    BY DEF OrderlyInv
  <2>2. NothingPending /\ SignedIn => Usable(stored)
    BY <2>1 DEF OrderlyOK, NothingPending
  <2>3. StoredTokenIsLive
    BY <2>2 DEF StoredTokenIsLive, Usable, Live
  <2>4. \A f \in ended : Over(f)
    BY <2>1 DEF OrderlyOK
  <2>5. SignOutEndsSession
    BY <2>2, <2>4 DEF SignOutEndsSession, Over, Usable
  <2>6. QED
    BY <2>3, <2>5
<1>2. QED
  BY <1>1, OrderlyInvariance, PTL

\* In the same behaviours the browser presents no revoked token, so the session of an
\* honest user is never taken for a thief's and closed.  (token.service.ts:68)
THEOREM HonestClient == MCClientSpec => []OrderlyClientNeverReplays
<1>1. OrderlyInv => OrderlyClientNeverReplays
  <2> SUFFICES ASSUME OrderlyInv, orderly, NEW r \in Requests, req[r].pc = "revokeFamily"
               PROVE  FALSE
    BY DEF OrderlyClientNeverReplays, HonestClientNeverReplays
  <2>1. call[r] \in Refreshing
    BY DEF OrderlyInv, ClientTypeOK, ClientShape, ShapeOf, Call
  <2>2. CallOK(r)
    BY DEF OrderlyInv, OrderlyOK
  <2>3. QED
    BY <2>1, <2>2 DEF CallOK
<1>2. QED
  BY <1>1, OrderlyInvariance, PTL

=============================================================================
