--------------------------- MODULE EmailVerification ---------------------------
(***************************************************************************)
(* The e-mail confirmation of a new account: AuthService.register          *)
(* (auth/auth.service.ts), EmailVerificationService                        *)
(* (auth/services/email-verification.service.ts) and the mail it sends     *)
(* (mail/mail.service.ts).                                                 *)
(*                                                                         *)
(* A handler is a sequence of database statements, each committed by       *)
(* itself; other handlers of the same account run between two of them: a   *)
(* double click on "resend", guesses sent in parallel, a resend while a    *)
(* code is being checked.  Accounts do not interact, so one is enough.     *)
(*                                                                         *)
(* Abstracted: the digits.  A code is the number of its row in the order of*)
(* createdAt; what a user types is a code he was mailed or NoCode, digits  *)
(* that match no row.  (Two codes have equal digits once in a million.)    *)
(***************************************************************************)
EXTENDS Integers, FiniteSets

CONSTANTS
    Requests,     \* slots for concurrently running HTTP handlers
    MaxAttempts,  \* MAX_ATTEMPTS
    Ttl,          \* lifetime of a code in clock units
    MaxCodes,     \* bound: rows that can be created; no resend starts at it
    MaxTime,      \* bound: value the clock stops at
    CanFail       \* TRUE: a handler may die at an await, the mail may be refused

ASSUME EmailVerificationAssumption ==
    /\ IsFiniteSet(Requests)
    /\ MaxAttempts \in Nat \ {0}
    /\ Ttl \in Nat /\ MaxCodes \in Nat /\ MaxTime \in Nat
    /\ CanFail \in BOOLEAN

VARIABLES
    registered,  \* the User row exists
    verified,    \* User.emailVerifiedAt is set
    created,     \* number of codes created so far: the codes are 1..created
    rows,        \* the codes whose row is in the table
    attempts,    \* the attempts column
    consumed,    \* the codes whose consumedAt is set
    expires,     \* the expiresAt column
    mailed,      \* the codes that reached the inbox
    lastMail,    \* the code of the newest mail
    now,         \* Date.now()
    req          \* the handlers in progress

account == <<registered, verified>>
codeVars == <<created, rows, attempts, consumed, expires>>
mailVars == <<mailed, lastMail>>
vars == <<account, codeVars, mailVars, now, req>>

Code == 1..MaxCodes
NoCode == 0

Idle == [pc |-> "idle", code |-> NoCode]
PC == {"idle", "issue", "deleteCodes", "createCode", "sendMail", "countWrong",
       "consume", "answered"}
Request == [pc : PC, code : 0..MaxCodes]

Expired(c) == expires[c] < now
Outstanding == rows \ consumed
IsNewest(c) == c \in Outstanding /\ \A d \in Outstanding : d <= c

-----------------------------------------------------------------------------
Init ==
    /\ registered = FALSE
    /\ verified = FALSE
    /\ created = 0
    /\ rows = {}
    /\ attempts = [c \in Code |-> 0]
    /\ consumed = {}
    /\ expires = [c \in Code |-> 0]
    /\ mailed = {}
    /\ lastMail = NoCode
    /\ now = 0
    /\ req = [r \in Requests |-> Idle]

At(r, pc) == req[r].pc = pc
GotoWith(r, pc, c) == req' = [req EXCEPT ![r] = [pc |-> pc, code |-> c]]
Goto(r, pc) == GotoWith(r, pc, NoCode)
Answer(r) == Goto(r, "answered")

(* register(): the account is one insert; a second one is P2002.           *)
Register(r) ==
    /\ At(r, "idle")
    /\ registered' = TRUE
    /\ IF registered THEN Answer(r) ELSE Goto(r, "issue")
    /\ UNCHANGED <<verified, codeVars, mailVars, now>>

(* POST /auth/resend-code.                                                 *)
ResendCode(r) ==
    /\ At(r, "idle") /\ registered /\ created < MaxCodes
    /\ Goto(r, "issue")
    /\ UNCHANGED <<account, codeVars, mailVars, now>>

(* issue(): nothing to do for a verified account.                          *)
Issue(r) ==
    /\ At(r, "issue")
    /\ IF verified THEN Answer(r) ELSE Goto(r, "deleteCodes")
    /\ UNCHANGED <<account, codeVars, mailVars, now>>

\* Faulty variant: the previous codes stay.
DeleteCodes_Keep(r) ==
    /\ At(r, "deleteCodes")
    /\ Goto(r, "createCode")
    /\ UNCHANGED <<account, codeVars, mailVars, now>>

(* "Invalidate any previous outstanding codes": deleteMany.                *)
DeleteCodes(r) ==
    /\ At(r, "deleteCodes")
    /\ rows' = {}
    /\ Goto(r, "createCode")
    /\ UNCHANGED <<account, created, attempts, consumed, expires, mailVars, now>>

(* The new row.                                                            *)
CreateCode(r) ==
    /\ At(r, "createCode") /\ created < MaxCodes
    /\ created' = created + 1
    /\ rows' = rows \cup {created + 1}
    /\ expires' = [expires EXCEPT ![created + 1] = now + Ttl]
    /\ GotoWith(r, "sendMail", created + 1)
    /\ UNCHANGED <<account, attempts, consumed, mailVars, now>>

(* sendVerificationCode(); register() then issues the first token pair     *)
(* (module RefreshTokens).                                                 *)
SendMail(r) ==
    /\ At(r, "sendMail")
    /\ mailed' = mailed \cup {req[r].code}
    /\ lastMail' = req[r].code
    /\ Answer(r)
    /\ UNCHANGED <<account, codeVars, now>>

-----------------------------------------------------------------------------
\* Faulty variant: one attempt too many.
Exhausted_OffByOne(c) == attempts[c] > MaxAttempts

Exhausted(c) == attempts[c] >= MaxAttempts

\* Faulty variant: expiresAt is not looked at.
Submit_Expired(r, digits) ==
    /\ At(r, "idle") /\ registered
    /\ IF \E c \in Outstanding : IsNewest(c) /\ ~Exhausted(c)
         THEN \E c \in Outstanding :
                /\ IsNewest(c)
                /\ GotoWith(r, IF digits = c THEN "consume" ELSE "countWrong", c)
         ELSE Answer(r)
    /\ UNCHANGED <<account, codeVars, mailVars, now>>

(* verify(): the newest outstanding row is read, and the digits are judged *)
(* by it.                                                                  *)
Submit(r, digits) ==
    /\ At(r, "idle") /\ registered
    /\ IF \E c \in Outstanding : IsNewest(c) /\ ~Expired(c) /\ ~Exhausted(c)
         THEN \E c \in Outstanding :
                /\ IsNewest(c)
                /\ GotoWith(r, IF digits = c THEN "consume" ELSE "countWrong", c)
         ELSE Answer(r)
    /\ UNCHANGED <<account, codeVars, mailVars, now>>

(* Wrong digits: one more attempt on the row, if it is still there (P2025).*)
CountWrong(r) ==
    LET c == req[r].code IN
    /\ At(r, "countWrong")
    /\ attempts' = IF c \in rows THEN [attempts EXCEPT ![c] = @ + 1] ELSE attempts
    /\ Answer(r)
    /\ UNCHANGED <<account, created, rows, consumed, expires, mailVars, now>>

(* Right digits: one transaction, rolled back when the row is gone.        *)
Consume(r) ==
    LET c == req[r].code IN
    /\ At(r, "consume")
    /\ IF c \in rows THEN consumed' = consumed \cup {c} /\ verified' = TRUE
                     ELSE UNCHANGED <<consumed, verified>>
    /\ Answer(r)
    /\ UNCHANGED <<registered, created, rows, attempts, expires, mailVars, now>>

-----------------------------------------------------------------------------
Fail(r) ==
    /\ CanFail
    /\ req[r].pc \notin {"idle", "answered"}
    /\ Answer(r)
    /\ UNCHANGED <<account, codeVars, mailVars, now>>

Finish(r) ==
    /\ At(r, "answered")
    /\ Goto(r, "idle")
    /\ UNCHANGED <<account, codeVars, mailVars, now>>

Tick ==
    /\ now < MaxTime
    /\ now' = now + 1
    /\ UNCHANGED <<account, codeVars, mailVars, req>>

Handle(r) ==
    \/ Register(r) \/ ResendCode(r)
    \/ Issue(r) \/ DeleteCodes(r) \/ CreateCode(r) \/ SendMail(r)
    \/ \E digits \in mailed \cup {NoCode} : Submit(r, digits)
    \/ CountWrong(r) \/ Consume(r)
    \/ Fail(r) \/ Finish(r)

Next == (\E r \in Requests : Handle(r)) \/ Tick

Spec == Init /\ [][Next]_vars

-----------------------------------------------------------------------------
(* Properties                                                              *)

Created == 1..created
Judging == {"countWrong", "consume"}

\* Every variable keeps its type; a handler that judges a code holds one.
TypeOK ==
    /\ registered \in BOOLEAN /\ verified \in BOOLEAN
    /\ created \in 0..MaxCodes
    /\ rows \subseteq Created /\ consumed \subseteq Created /\ mailed \subseteq Created
    /\ lastMail \in 0..MaxCodes
    /\ attempts \in [Code -> Nat]
    /\ expires \in [Code -> Nat]
    /\ now \in 0..MaxTime
    /\ req \in [Requests -> Request]
    /\ \A r \in Requests : req[r].pc \in Judging \cup {"sendMail"} => req[r].code \in Created

Counting(c) == {r \in Requests : At(r, "countWrong") /\ req[r].code = c}

\* MAX_ATTEMPTS is overrun by parallel guesses only, and by no more of them than
\* run at once: each of the others read the row before the last one counted.
\* (email-verification.service.ts:73-81)
AttemptsBounded ==
    \A c \in Code :
        attempts[c] + Cardinality(Counting(c)) < MaxAttempts + Cardinality(Requests)

\* A code that can no longer be accepted, nor is about to be.
Dead(c) ==
    /\ c \in Created
    /\ c \notin rows \/ c \in consumed \/ Expired(c) \/ Exhausted(c)
    /\ ~\E r \in Requests : At(r, "consume") /\ req[r].code = c

\* A code that was replaced, used, outlived or guessed at too often never confirms
\* the address any more, once the handlers that had accepted it have ended.
DeadCodeStaysDead == [][\A c \in Code : Dead(c) => Dead(c)']_vars

=============================================================================
