---------------------------- MODULE AccountsProofs ----------------------------
(***************************************************************************)
(* Proofs about what an account goes through: EmailVerification, for any   *)
(* number of handlers, codes and attempts; AccountLinking, for any         *)
(* accounts, addresses, identities, browsers and flows; Subscriptions, for *)
(* any number of handlers.                                                 *)
(*                                                                         *)
(* The bound on the attempts is inductive by itself: a guess is let        *)
(* through only while the column is below MAX_ATTEMPTS, and at most all    *)
(* other slots hold guesses that were let through before.                  *)
(***************************************************************************)
EXTENDS MCAccounts, FiniteSetTheorems, TLAPS

-----------------------------------------------------------------------------
(* EmailVerification: type correctness                                     *)

LEMMA TypeInit == Init => TypeOK
<1> SUFFICES ASSUME Init PROVE TypeOK
  OBVIOUS
<1> USE EmailVerificationAssumption
<1>1. Idle \in Request /\ Idle.pc \notin Judging \cup {"sendMail"}
  BY DEF Idle, Request, PC, NoCode, Judging
<1>2. req \in [Requests -> Request]
  BY <1>1 DEF Init
<1>3. \A r \in Requests : req[r].pc \in Judging \cup {"sendMail"} => req[r].code \in Created
  BY <1>1 DEF Init
<1>4. attempts \in [Code -> Nat] /\ expires \in [Code -> Nat]
  BY DEF Init
<1>5. created \in 0..MaxCodes /\ now \in 0..MaxTime /\ lastMail \in 0..MaxCodes
  BY DEF Init, NoCode
<1>6. QED
  BY <1>2, <1>3, <1>4, <1>5 DEF Init, TypeOK

\* The record a handler continues with is well typed, and so is req.
LEMMA MoveType ==
  ASSUME TypeOK, NEW r \in Requests, NEW pc \in PC, NEW c \in 0..MaxCodes,
         GotoWith(r, pc, c), created' \in created..MaxCodes,
         pc \in Judging \cup {"sendMail"} => c \in Created'
  PROVE  /\ req' \in [Requests -> Request]
         /\ \A s \in Requests :
               req'[s].pc \in Judging \cup {"sendMail"} => req'[s].code \in Created'
<1>1. [pc |-> pc, code |-> c] \in Request
  BY DEF Request
<1>2. req \in [Requests -> Request] /\ created \in 0..MaxCodes
  BY DEF TypeOK
<1>3. req' \in [Requests -> Request]
  BY <1>1, <1>2 DEF GotoWith
<1>4. ASSUME NEW s \in Requests, req'[s].pc \in Judging \cup {"sendMail"}
      PROVE  req'[s].code \in Created'
  <2>1. CASE s = r
    BY <2>1, <1>2, <1>4 DEF GotoWith
  <2>2. CASE s # r
    <3>1. req[s].code \in Created
      BY <2>2, <1>2, <1>4 DEF GotoWith, TypeOK
    <3>2. QED
      BY <3>1, <2>2, <1>2, EmailVerificationAssumption DEF GotoWith, Created
  <2>3. QED
    BY <2>1, <2>2
<1>5. QED
  BY <1>3, <1>4

LEMMA TypeNext == TypeOK /\ [Next]_vars => TypeOK'
<1> SUFFICES ASSUME TypeOK, [Next]_vars PROVE TypeOK'
  OBVIOUS
<1> USE EmailVerificationAssumption
<1>1. ASSUME NEW r \in Requests, Register(r) PROVE TypeOK'
  <2>1. GotoWith(r, IF registered THEN "answered" ELSE "issue", NoCode)
    BY <1>1 DEF Register, Answer, Goto
  <2>2. /\ req' \in [Requests -> Request]
        /\ \A s \in Requests :
              req'[s].pc \in Judging \cup {"sendMail"} => req'[s].code \in Created'
    BY <2>1, <1>1, MoveType DEF Register, codeVars, PC, NoCode, Judging, TypeOK
  <2>3. QED
    BY <2>2, <1>1 DEF Register, codeVars, mailVars, TypeOK, Created
<1>2. ASSUME NEW r \in Requests,
             ResendCode(r) \/ Issue(r) \/ Fail(r) \/ Finish(r)
      PROVE TypeOK'
  <2>1. PICK pc \in PC \ (Judging \cup {"sendMail"}) : GotoWith(r, pc, NoCode)
    BY <1>2 DEF ResendCode, Issue, Fail, Finish, Answer, Goto, PC, Judging
  <2>2. UNCHANGED <<account, codeVars, mailVars, now>>
    BY <1>2 DEF ResendCode, Issue, Fail, Finish
  <2>3. /\ req' \in [Requests -> Request]
        /\ \A s \in Requests :
              req'[s].pc \in Judging \cup {"sendMail"} => req'[s].code \in Created'
    BY <2>1, <2>2, MoveType DEF codeVars, NoCode, TypeOK
  <2>4. QED
    BY <2>2, <2>3 DEF account, codeVars, mailVars, TypeOK, Created
<1>3. ASSUME NEW r \in Requests, DeleteCodes(r) PROVE TypeOK'
  <2>1. /\ req' \in [Requests -> Request]
        /\ \A s \in Requests :
              req'[s].pc \in Judging \cup {"sendMail"} => req'[s].code \in Created'
    BY <1>3, MoveType DEF DeleteCodes, Goto, PC, NoCode, Judging, TypeOK
  <2>2. QED
    BY <2>1, <1>3 DEF DeleteCodes, account, mailVars, TypeOK, Created
<1>4. ASSUME NEW r \in Requests, CreateCode(r) PROVE TypeOK'
  <2>1. created + 1 \in Code /\ created' = created + 1 /\ created \in 0..MaxCodes
    BY <1>4 DEF CreateCode, TypeOK, Code
  <2>2. /\ req' \in [Requests -> Request]
        /\ \A s \in Requests :
              req'[s].pc \in Judging \cup {"sendMail"} => req'[s].code \in Created'
    BY <2>1, <1>4, MoveType DEF CreateCode, PC, Judging, Created, Code
  <2>3. rows' \subseteq Created' /\ consumed' \subseteq Created' /\ mailed' \subseteq Created'
    BY <2>1, <1>4 DEF CreateCode, mailVars, TypeOK, Created
  <2>4. expires' \in [Code -> Nat]
    <3>1. now + Ttl \in Nat /\ expires \in [Code -> Nat]
      BY DEF TypeOK
    <3>2. QED
      BY <3>1, <1>4 DEF CreateCode
  <2>5. QED
    BY <2>1, <2>2, <2>3, <2>4, <1>4 DEF CreateCode, account, mailVars, TypeOK
<1>5. ASSUME NEW r \in Requests, SendMail(r) PROVE TypeOK'
  <2>1. /\ req' \in [Requests -> Request]
        /\ \A s \in Requests :
              req'[s].pc \in Judging \cup {"sendMail"} => req'[s].code \in Created'
    BY <1>5, MoveType DEF SendMail, Answer, Goto, codeVars, PC, NoCode, Judging, TypeOK
  <2>2. req[r].code \in Created /\ req[r].code \in 0..MaxCodes
    BY <1>5 DEF SendMail, At, TypeOK, Request
  <2>3. QED
    BY <2>1, <2>2, <1>5 DEF SendMail, account, codeVars, TypeOK, Created
<1>6. ASSUME NEW r \in Requests, NEW digits \in mailed \cup {NoCode}, Submit(r, digits)
      PROVE  TypeOK'
  <2>1. UNCHANGED <<account, codeVars, mailVars, now>>
    BY <1>6 DEF Submit
  <2>2. /\ req' \in [Requests -> Request]
        /\ \A s \in Requests :
              req'[s].pc \in Judging \cup {"sendMail"} => req'[s].code \in Created'
    <3>1. CASE Answer(r)
      BY <3>1, <2>1, MoveType DEF Answer, Goto, codeVars, PC, NoCode, Judging, TypeOK
    <3>2. CASE \E c \in Outstanding :
                 GotoWith(r, IF digits = c THEN "consume" ELSE "countWrong", c)
      <4>1. PICK c \in Outstanding :
              GotoWith(r, IF digits = c THEN "consume" ELSE "countWrong", c)
        BY <3>2
      <4>2. c \in Created /\ c \in 0..MaxCodes
        BY DEF Outstanding, TypeOK, Created
      <4>3. QED
        BY <4>1, <4>2, <2>1, MoveType DEF codeVars, PC, TypeOK, Created
    <3>3. QED
      BY <3>1, <3>2, <1>6 DEF Submit
  <2>3. QED
    BY <2>1, <2>2 DEF account, codeVars, mailVars, TypeOK, Created
<1>7. ASSUME NEW r \in Requests, CountWrong(r) PROVE TypeOK'
  <2>1. /\ req' \in [Requests -> Request]
        /\ \A s \in Requests :
              req'[s].pc \in Judging \cup {"sendMail"} => req'[s].code \in Created'
    BY <1>7, MoveType DEF CountWrong, Answer, Goto, PC, NoCode, Judging, TypeOK
  <2>2. attempts' \in [Code -> Nat]
    <3>1. attempts \in [Code -> Nat] /\ rows \subseteq Code
      BY DEF TypeOK, Created, Code
    <3>2. CASE req[r].code \in rows
      <4>1. attempts[req[r].code] + 1 \in Nat
        BY <3>1, <3>2
      <4>2. attempts' = [attempts EXCEPT ![req[r].code] = attempts[req[r].code] + 1]
        BY <3>2, <1>7 DEF CountWrong
      <4>3. QED
        BY <3>1, <4>1, <4>2
    <3>3. CASE req[r].code \notin rows
      BY <3>1, <3>3, <1>7 DEF CountWrong
    <3>4. QED
      BY <3>2, <3>3
  <2>3. QED
    BY <2>1, <2>2, <1>7 DEF CountWrong, account, mailVars, TypeOK, Created
<1>8. ASSUME NEW r \in Requests, Consume(r) PROVE TypeOK'
  <2>1. /\ req' \in [Requests -> Request]
        /\ \A s \in Requests :
              req'[s].pc \in Judging \cup {"sendMail"} => req'[s].code \in Created'
    BY <1>8, MoveType DEF Consume, Answer, Goto, PC, NoCode, Judging, TypeOK
  <2>2. consumed' \subseteq Created /\ verified' \in BOOLEAN
    BY <1>8 DEF Consume, TypeOK
  <2>3. QED
    BY <2>1, <2>2, <1>8 DEF Consume, mailVars, TypeOK, Created
<1>9. CASE Tick
  BY <1>9 DEF Tick, account, codeVars, mailVars, TypeOK, Created
<1>10. CASE UNCHANGED vars
  BY <1>10 DEF vars, account, codeVars, mailVars, TypeOK, Created
<1>11. QED
  BY <1>1, <1>2, <1>3, <1>4, <1>5, <1>6, <1>7, <1>8, <1>9, <1>10 DEF Next, Handle

\* Every variable keeps its type; a handler that judges a code, or mails one, holds
\* one that was created.  (EmailVerificationService, AuthService.register)
THEOREM TypeCorrect == Spec => []TypeOK
  BY TypeInit, TypeNext, PTL DEF Spec

-----------------------------------------------------------------------------
(* The bound on the attempts                                               *)

Sum(c) == attempts[c] + Cardinality(Counting(c))

LEMMA CountingFinite ==
  ASSUME NEW c \in Code
  PROVE  /\ IsFiniteSet(Counting(c))
         /\ Cardinality(Counting(c)) \in Nat
         /\ Cardinality(Counting(c)) <= Cardinality(Requests)
         /\ Cardinality(Requests) \in Nat
<1>1. Counting(c) \subseteq Requests /\ IsFiniteSet(Requests)
  BY EmailVerificationAssumption DEF Counting
<1>2. QED
  BY <1>1, FS_Subset, FS_CardinalityType

\* A step that lets no guess through and leaves the column alone only shrinks Sum.
LEMMA SumShrinks ==
  ASSUME TypeOK, NEW c \in Code, Counting(c)' \subseteq Counting(c), attempts'[c] = attempts[c]
  PROVE  Sum(c)' <= Sum(c)
<1>1. /\ Cardinality(Counting(c)') <= Cardinality(Counting(c))
      /\ Cardinality(Counting(c)') \in Nat
  BY CountingFinite, FS_Subset, FS_CardinalityType
<1>2. attempts[c] \in Nat
  BY DEF TypeOK
<1>3. Sum(c)' = attempts[c] + Cardinality(Counting(c)')
  BY DEF Sum
<1>4. QED
  BY <1>1, <1>2, <1>3, CountingFinite DEF Sum

\* Handler r moves on, and not to countWrong.
LEMMA CountingShrinks ==
  ASSUME TypeOK, NEW r \in Requests, NEW pc, NEW d, GotoWith(r, pc, d), pc # "countWrong",
         NEW c \in Code
  PROVE  Counting(c)' = Counting(c) \ {r}
<1>1. req \in [Requests -> Request]
  BY DEF TypeOK
<1>2. \A s \in Requests : req'[s] = IF s = r THEN [pc |-> pc, code |-> d] ELSE req[s]
  BY <1>1 DEF GotoWith
<1>3. QED
  BY <1>2 DEF Counting, At

LEMMA AttemptsInit == Init => AttemptsBounded
<1> SUFFICES ASSUME Init, NEW c \in Code
             PROVE  Sum(c) < MaxAttempts + Cardinality(Requests)
  BY DEF AttemptsBounded, Sum
<1>1. Counting(c) = {}
  BY DEF Init, Idle, Counting, At
<1>2. Cardinality(Counting(c)) = 0
  BY <1>1, FS_EmptySet
<1>3. QED
  BY <1>2, CountingFinite, EmailVerificationAssumption DEF Init, Sum

LEMMA AttemptsNext == TypeOK /\ AttemptsBounded /\ [Next]_vars => AttemptsBounded'
<1> SUFFICES ASSUME TypeOK, AttemptsBounded, [Next]_vars, NEW c \in Code
             PROVE  Sum(c)' < MaxAttempts + Cardinality(Requests)
  BY DEF AttemptsBounded, Sum
<1>1. /\ Sum(c) < MaxAttempts + Cardinality(Requests)
      /\ Sum(c) \in Nat /\ attempts[c] \in Nat /\ MaxAttempts \in Nat
  BY CountingFinite, EmailVerificationAssumption DEF AttemptsBounded, Sum, TypeOK
<1>2. ASSUME Counting(c)' \subseteq Counting(c), attempts'[c] = attempts[c]
      PROVE  Sum(c)' < MaxAttempts + Cardinality(Requests)
  <2>1. Sum(c)' <= Sum(c)
    BY <1>2, SumShrinks
  <2>2. Sum(c)' \in Nat
    <3>1. Counting(c)' \subseteq Requests /\ IsFiniteSet(Requests)
      BY EmailVerificationAssumption DEF Counting
    <3>2. Cardinality(Counting(c)') \in Nat
      BY <3>1, FS_Subset, FS_CardinalityType
    <3>3. Sum(c)' = attempts'[c] + Cardinality(Counting(c)')
      BY DEF Sum
    <3>4. QED
      BY <3>2, <3>3, <1>1, <1>2
  <2>3. QED
    BY <2>1, <2>2, <1>1, CountingFinite
<1>3. ASSUME NEW r \in Requests,
             \/ Register(r) \/ ResendCode(r) \/ Issue(r) \/ DeleteCodes(r) \/ CreateCode(r)
             \/ SendMail(r) \/ Consume(r) \/ Fail(r) \/ Finish(r)
      PROVE  Counting(c)' \subseteq Counting(c) /\ attempts'[c] = attempts[c]
  <2>1. attempts' = attempts
    BY <1>3 DEF Register, ResendCode, Issue, DeleteCodes, CreateCode, SendMail, Consume,
                Fail, Finish, codeVars
  <2>2. PICK pc \in PC \ {"countWrong"}, d \in 0..MaxCodes : GotoWith(r, pc, d)
    <3>1. created + 1 \in 0..MaxCodes \/ ~CreateCode(r)
      BY EmailVerificationAssumption DEF CreateCode, TypeOK
    <3>2. NoCode \in 0..MaxCodes
      BY EmailVerificationAssumption DEF NoCode
    <3>3. QED
      BY <3>1, <3>2, <1>3
      DEF Register, ResendCode, Issue, DeleteCodes, CreateCode, SendMail, Consume, Fail,
          Finish, Answer, Goto, PC
  <2>3. QED
    BY <2>1, <2>2, CountingShrinks
<1>4. ASSUME NEW r \in Requests, NEW digits, Submit(r, digits)
      PROVE  Sum(c)' < MaxAttempts + Cardinality(Requests)
  <2>1. attempts' = attempts
    BY <1>4 DEF Submit, codeVars
  <2>2. CASE Answer(r)
    BY <2>1, <2>2, <1>2, CountingShrinks DEF Answer, Goto
  <2>3. CASE \E d \in Outstanding :
               /\ ~Exhausted(d)
               /\ GotoWith(r, IF digits = d THEN "consume" ELSE "countWrong", d)
    <3>1. PICK d \in Outstanding :
             /\ ~Exhausted(d)
             /\ GotoWith(r, IF digits = d THEN "consume" ELSE "countWrong", d)
      BY <2>3
    <3>2. CASE digits = d
      <4>1. GotoWith(r, "consume", d)
        BY <3>1, <3>2
      <4>2. QED
        BY <4>1, <2>1, <1>2, CountingShrinks
    <3>3. CASE c # d
      <4>1. req \in [Requests -> Request]
        BY DEF TypeOK
      <4>2. \A s \in Requests : req'[s] = IF s = r THEN [pc |-> IF digits = d THEN "consume" ELSE "countWrong", code |-> d]
                                                  ELSE req[s]
        BY <3>1, <4>1 DEF GotoWith
      <4>3. Counting(c)' \subseteq Counting(c)
        BY <4>2, <3>3 DEF Counting, At
      <4>4. QED
        BY <4>3, <2>1, <1>2
    <3>4. CASE c = d
      <4>1. attempts[c] < MaxAttempts
        BY <3>1, <3>4, <1>1 DEF Exhausted
      <4>2. Counting(c)' \subseteq Requests /\ IsFiniteSet(Requests)
        BY EmailVerificationAssumption DEF Counting
      <4>3. /\ Cardinality(Counting(c)') <= Cardinality(Requests)
            /\ Cardinality(Counting(c)') \in Nat
        BY <4>2, FS_Subset, FS_CardinalityType
      <4>4. Sum(c)' = attempts[c] + Cardinality(Counting(c)')
        BY <2>1 DEF Sum
      <4>5. QED
        BY <4>1, <4>3, <4>4, <1>1, CountingFinite
    <3>5. QED
      BY <3>2, <3>3, <3>4
  <2>4. QED
    <3>1. ASSUME NEW e \in Outstanding, NEW d \in Outstanding, IsNewest(d), IsNewest(e)
          PROVE  d = e
      <4>1. d \in Nat /\ e \in Nat
        BY DEF Outstanding, TypeOK, Created
      <4>2. d <= e /\ e <= d
        BY <3>1 DEF IsNewest
      <4>3. QED
        BY <4>1, <4>2
    <3>2. QED
      BY <3>1, <2>2, <2>3, <1>4 DEF Submit
<1>5. ASSUME NEW r \in Requests, CountWrong(r)
      PROVE  Sum(c)' < MaxAttempts + Cardinality(Requests)
  <2>1. Counting(c)' = Counting(c) \ {r}
    BY <1>5, CountingShrinks DEF CountWrong, Answer, Goto
  <2>2. CASE attempts'[c] = attempts[c]
    BY <2>1, <2>2, <1>2
  <2>3. CASE req[r].code = c /\ attempts'[c] = attempts[c] + 1
    <3>1. r \in Counting(c)
      BY <2>3, <1>5 DEF CountWrong, Counting
    <3>2. Cardinality(Counting(c)') = Cardinality(Counting(c)) - 1
      BY <3>1, <2>1, CountingFinite, FS_RemoveElement
    <3>3. Sum(c)' = attempts'[c] + Cardinality(Counting(c)')
      BY DEF Sum
    <3>4. Sum(c)' = Sum(c)
      BY <3>2, <3>3, <2>3, <1>1, CountingFinite DEF Sum
    <3>5. QED
      BY <3>4, <1>1
  <2>4. QED
    <3>1. attempts \in [Code -> Nat]
      BY DEF TypeOK
    <3>2. QED
      BY <3>1, <2>2, <2>3, <1>5 DEF CountWrong
<1>6. CASE Tick \/ UNCHANGED vars
  <2>1. req' = req /\ attempts' = attempts
    BY <1>6 DEF Tick, vars, codeVars
  <2>2. Counting(c)' = Counting(c)
    BY <2>1 DEF Counting, At
  <2>3. QED
    BY <2>1, <2>2, <1>2
<1>7. QED
  BY <1>2, <1>3, <1>4, <1>5, <1>6 DEF Next, Handle

\* MAX_ATTEMPTS is overrun by at most the number of guesses that run in parallel,
\* whatever MAX_ATTEMPTS and the parallelism are.
\* (email-verification.service.ts:73-81)
THEOREM AttemptsCapped == Spec => []AttemptsBounded
  BY TypeInit, TypeNext, AttemptsInit, AttemptsNext, PTL DEF Spec

-----------------------------------------------------------------------------
(* Dead codes                                                              *)

Spent(c) == c \notin rows \/ c \in consumed \/ Expired(c) \/ Exhausted(c)
Accepted(c) == \E r \in Requests : At(r, "consume") /\ req[r].code = c

\* Rows are not inserted again, marks and attempts are not taken back, the clock
\* does not turn back.
LEMMA SpentStays ==
  ASSUME TypeOK, [Next]_vars, NEW c \in Created, Spent(c)
  PROVE  c \in Created' /\ Spent(c)'
<1> USE EmailVerificationAssumption
<1>1. /\ created \in Nat /\ created <= MaxCodes /\ c \in Code /\ now \in Nat
      /\ expires \in [Code -> Nat] /\ attempts \in [Code -> Nat]
  BY DEF TypeOK, Created, Code
<1>2. ASSUME created' = created \/ created' = created + 1,
             rows' \subseteq rows \cup {created + 1}, consumed \subseteq consumed',
             expires'[c] = expires[c], attempts'[c] >= attempts[c], attempts'[c] \in Nat,
             now' >= now, now' \in Nat
      PROVE  c \in Created' /\ Spent(c)'
  <2>1. c \in Created' /\ c # created + 1
    BY <1>1, <1>2 DEF Created
  <2>2. CASE Expired(c)
    BY <2>1, <2>2, <1>1, <1>2 DEF Spent, Expired
  <2>3. CASE Exhausted(c)
    BY <2>1, <2>3, <1>1, <1>2 DEF Spent, Exhausted
  <2>4. CASE c \notin rows \/ c \in consumed
    BY <2>1, <2>4, <1>2 DEF Spent
  <2>5. QED
    BY <2>2, <2>3, <2>4 DEF Spent
<1>3. ASSUME NEW r \in Requests,
             \/ Register(r) \/ ResendCode(r) \/ Issue(r) \/ DeleteCodes(r) \/ SendMail(r)
             \/ Consume(r) \/ Fail(r) \/ Finish(r)
             \/ \E digits \in mailed \cup {NoCode} : Submit(r, digits)
      PROVE  c \in Created' /\ Spent(c)'
  <2>1. UNCHANGED <<created, expires, attempts, now>> /\ rows' \subseteq rows
    BY <1>3 DEF Register, ResendCode, Issue, DeleteCodes, SendMail, Consume, Fail, Finish,
                Submit, codeVars
  <2>2. consumed \subseteq consumed'
    BY <1>3 DEF Register, ResendCode, Issue, DeleteCodes, SendMail, Consume, Fail, Finish,
                Submit, codeVars
  <2>3. QED
    BY <2>1, <2>2, <1>1, <1>2
<1>4. ASSUME NEW r \in Requests, CreateCode(r) PROVE c \in Created' /\ Spent(c)'
  <2>1. expires'[c] = expires[c]
    BY <1>1, <1>4 DEF CreateCode, Created
  <2>2. QED
    BY <2>1, <1>1, <1>2, <1>4 DEF CreateCode
<1>5. ASSUME NEW r \in Requests, CountWrong(r) PROVE c \in Created' /\ Spent(c)'
  <2>1. attempts'[c] = attempts[c] \/ attempts'[c] = attempts[c] + 1
    BY <1>1, <1>5 DEF CountWrong
  <2>2. attempts'[c] >= attempts[c] /\ attempts'[c] \in Nat
    BY <2>1, <1>1
  <2>3. QED
    BY <2>2, <1>1, <1>2, <1>5 DEF CountWrong
<1>6. CASE Tick
  <2>1. now' = now + 1 /\ UNCHANGED <<created, rows, consumed, expires, attempts>>
    BY <1>6 DEF Tick, codeVars
  <2>2. QED
    BY <2>1, <1>1, <1>2
<1>7. CASE UNCHANGED vars
  <2>1. UNCHANGED <<created, rows, consumed, expires, attempts, now>>
    BY <1>7 DEF vars, codeVars
  <2>2. QED
    BY <2>1, <1>1, <1>2
<1>8. QED
  BY <1>3, <1>4, <1>5, <1>6, <1>7 DEF Next, Handle

\* Only verify() accepts a code, and never a spent one.
LEMMA SpentNotAccepted ==
  ASSUME TypeOK, [Next]_vars, NEW c \in Created, Spent(c), ~Accepted(c)
  PROVE  ~Accepted(c)'
<1>0. req \in [Requests -> Request]
  BY DEF TypeOK
<1>1. ASSUME NEW r \in Requests, NEW pc, NEW d, GotoWith(r, pc, d), pc # "consume" \/ d # c
      PROVE  ~Accepted(c)'
  <2>1. \A s \in Requests : req'[s] = IF s = r THEN [pc |-> pc, code |-> d] ELSE req[s]
    BY <1>0, <1>1 DEF GotoWith
  <2>2. QED
    BY <2>1, <1>1 DEF Accepted, At
<1>2. ASSUME NEW r \in Requests,
             \/ Register(r) \/ ResendCode(r) \/ Issue(r) \/ DeleteCodes(r) \/ CreateCode(r)
             \/ SendMail(r) \/ CountWrong(r) \/ Consume(r) \/ Fail(r) \/ Finish(r)
      PROVE  ~Accepted(c)'
  <2>1. PICK pc \in PC \ {"consume"}, d \in Int : GotoWith(r, pc, d)
    <3>1. created + 1 \in Int /\ NoCode \in Int
      BY DEF TypeOK, NoCode
    <3>2. QED
      BY <3>1, <1>2
      DEF Register, ResendCode, Issue, DeleteCodes, CreateCode, SendMail, CountWrong,
          Consume, Fail, Finish, Answer, Goto, PC
  <2>2. QED
    BY <2>1, <1>1
<1>3. ASSUME NEW r \in Requests, NEW digits, Submit(r, digits)
      PROVE  ~Accepted(c)'
  <2>1. CASE Answer(r)
    BY <2>1, <1>1 DEF Answer, Goto
  <2>2. CASE ~Answer(r)
    <3>1. PICK e \in Outstanding : IsNewest(e) /\ ~Expired(e) /\ ~Exhausted(e)
      BY <2>2, <1>3 DEF Submit
    <3>2. PICK d \in Outstanding :
             /\ IsNewest(d)
             /\ GotoWith(r, IF digits = d THEN "consume" ELSE "countWrong", d)
      BY <2>2, <1>3 DEF Submit
    <3>3. d = e
      <4>1. d \in Nat /\ e \in Nat
        BY DEF Outstanding, TypeOK, Created
      <4>2. d <= e /\ e <= d
        BY <3>1, <3>2 DEF IsNewest
      <4>3. QED
        BY <4>1, <4>2
    <3>4. d # c
      BY <3>1, <3>3 DEF Spent, Outstanding
    <3>5. QED
      BY <3>2, <3>4, <1>1
  <2>3. QED
    BY <2>1, <2>2
<1>4. CASE Tick \/ UNCHANGED vars
  BY <1>4 DEF Tick, vars, Accepted, At
<1>5. QED
  BY <1>2, <1>3, <1>4 DEF Next, Handle

\* A code that was replaced, used, outlived or guessed at too often never confirms the
\* address any more, for any number of concurrent handlers and any schedule.
\* (email-verification.service.ts:31-96)
THEOREM DeadCodes == Spec => DeadCodeStaysDead
<1>1. TypeOK /\ [Next]_vars => [\A c \in Code : Dead(c) => Dead(c)']_vars
  <2> SUFFICES ASSUME TypeOK, [Next]_vars, NEW c \in Code, Dead(c)
               PROVE  Dead(c)'
    OBVIOUS
  <2>1. c \in Created /\ Spent(c) /\ ~Accepted(c)
    BY DEF Dead, Spent, Accepted
  <2>2. c \in Created' /\ Spent(c)' /\ ~Accepted(c)'
    BY <2>1, SpentStays, SpentNotAccepted
  <2>3. QED
    BY <2>2 DEF Dead, Spent, Accepted
<1>2. QED
  BY <1>1, TypeCorrect, PTL DEF Spec, DeadCodeStaysDead

-----------------------------------------------------------------------------
(* The newest mail: what holds while handlers run one at a time            *)

\* Between handlers: the one outstanding code is the one that was mailed last.
OneCodeMailed ==
    /\ \A c, d \in Outstanding : c = d
    /\ verified => Outstanding = {}
    /\ ~verified /\ lastMail # NoCode => lastMail \in Outstanding

\* What the one handler in progress has done so far.
HandlerSees(r) ==
    /\ req[r].pc \in {"deleteCodes", "createCode", "sendMail", "countWrong", "consume"} => ~verified
    /\ req[r].pc = "createCode" => rows = {}
    /\ req[r].pc = "sendMail" => Outstanding = {req[r].code}
    /\ req[r].pc \in Judging => req[r].code \in Outstanding

CalmInv ==
    calm => /\ \A r, s \in InProgress : r = s
            /\ \A r \in Requests : HandlerSees(r)
            /\ (\A r \in Requests : req[r].pc \notin {"createCode", "sendMail"}) => OneCodeMailed

LEMMA OneAtATime ==
    ASSUME NEW S \in SUBSET Requests, Cardinality(S) <= 1
    PROVE  \A r, s \in S : r = s
<1>1. IsFiniteSet(S)
  BY EmailVerificationAssumption, FS_Subset
<1>2. Cardinality(S) = 0 \/ Cardinality(S) = 1
  BY <1>1, FS_CardinalityType
<1>3. QED BY <1>1, <1>2, FS_EmptySet, FS_Singleton

LEMMA CalmInit == MCInit => CalmInv
<1> SUFFICES ASSUME MCInit PROVE CalmInv
  OBVIOUS
<1>1. \A r \in Requests : req[r] = Idle /\ Idle.pc = "idle"
  BY DEF MCInit, Init, Idle
<1>2. InProgress = {} /\ Outstanding = {} /\ lastMail = NoCode
  BY <1>1 DEF InProgress, Outstanding, MCInit, Init
<1>3. \A r \in Requests : HandlerSees(r)
  BY <1>1 DEF HandlerSees, Judging
<1>4. OneCodeMailed
  BY <1>2 DEF OneCodeMailed
<1>5. QED BY <1>2, <1>3, <1>4 DEF CalmInv

\* The step of a handler, as long as no two overlap and none dies.
LEMMA CalmHandler ==
    ASSUME TypeOK, calm, CalmInv, NEW r \in Requests, Handle(r), ~Fail(r),
           \A s, t \in InProgress' : s = t
    PROVE  /\ \A s \in Requests : HandlerSees(s)'
           /\ (\A s \in Requests : req'[s].pc \notin {"createCode", "sendMail"}) => OneCodeMailed'
<1>1. /\ req \in [Requests -> Request] /\ created \in Nat
      /\ rows \subseteq 1..created /\ consumed \subseteq 1..created
  BY EmailVerificationAssumption DEF TypeOK, Created
<1>2. /\ HandlerSees(r)
      /\ (\A s \in Requests : req[s].pc \notin {"createCode", "sendMail"}) => OneCodeMailed
      /\ \A s, t \in InProgress : s = t
  BY DEF CalmInv
<1>3. ASSUME NEW pc \in PC, NEW c, GotoWith(r, pc, c)
      PROVE  /\ req'[r].pc = pc /\ req'[r].code = c
             /\ \A s \in Requests : s # r => req'[s] = req[s]
  BY <1>1, <1>3 DEF GotoWith
\* The others do not move; if r is under way before or after, they are at rest.
<1>4. ASSUME \/ req[r].pc \notin {"idle", "answered"}
             \/ req'[r].pc \notin {"idle", "answered"},
             \A s \in Requests : s # r => req'[s] = req[s]
      PROVE  \A s \in Requests : s # r => req[s].pc \in {"idle", "answered"} /\ HandlerSees(s)'
  BY <1>2, <1>4 DEF InProgress, HandlerSees, Judging
<1>5. CASE \/ Register(r) \/ ResendCode(r) \/ Issue(r)
           \/ \E digits \in mailed \cup {NoCode} : Submit(r, digits)
  <2>1. \E pc \in {"answered", "issue", "deleteCodes", "consume", "countWrong"},
             c \in rows \cup {NoCode} : GotoWith(r, pc, c)
    BY <1>5 DEF Register, ResendCode, Issue, Submit, Goto, Answer, Outstanding
  <2>2. PICK pc \in {"answered", "issue", "deleteCodes", "consume", "countWrong"},
             c \in rows \cup {NoCode} : GotoWith(r, pc, c)
    BY <2>1
  <2>3. /\ req'[r].pc = pc /\ req'[r].code = c
        /\ \A s \in Requests : s # r => req'[s] = req[s]
    BY <1>3, <2>2 DEF PC
  <2>4. req[r].pc \in {"idle", "issue"} /\ UNCHANGED <<verified, codeVars, mailVars>>
    BY <1>5 DEF Register, ResendCode, Issue, Submit, At, account
  <2>5. Outstanding' = Outstanding
    BY <2>4 DEF Outstanding, codeVars
  <2>6. CASE pc = "answered"
    <3>1. HandlerSees(r)'
      BY <2>3, <2>6 DEF HandlerSees, Judging
    <3>2. \A s \in Requests : s # r => HandlerSees(s)'
      BY <2>3, <2>4, <2>5 DEF CalmInv, HandlerSees, Judging, codeVars
    <3>3. (\A s \in Requests : req'[s].pc \notin {"createCode", "sendMail"}) => OneCodeMailed'
      BY <1>2, <2>3, <2>4, <2>5 DEF OneCodeMailed, mailVars
    <3>4. QED BY <3>1, <3>2, <3>3
  <2>7. CASE pc # "answered"
    <3>1. \A s \in Requests : s # r => req[s].pc \in {"idle", "answered"} /\ HandlerSees(s)'
      BY <1>4, <2>2, <2>3, <2>7
    <3>2. OneCodeMailed
      BY <1>2, <2>4, <3>1
    <3>3. OneCodeMailed'
      BY <2>4, <2>5, <3>2 DEF OneCodeMailed, mailVars
    <3>4. pc = "deleteCodes" => ~verified
      BY <1>3, <1>5, <2>2, <2>3 DEF Register, ResendCode, Issue, Submit, Goto, Answer, PC
    <3>5. pc \in Judging => c \in Outstanding
      BY <1>3, <1>5, <2>2, <2>3 DEF Register, ResendCode, Issue, Submit, Goto, Answer, PC, Judging
    <3>6. HandlerSees(r)'
      BY <2>2, <2>3, <2>4, <2>5, <3>2, <3>4, <3>5 DEF HandlerSees, OneCodeMailed, Judging
    <3>7. QED BY <3>1, <3>3, <3>6
  <2>8. QED BY <2>6, <2>7
<1>6. CASE DeleteCodes(r)
  <2>1. /\ req'[r].pc = "createCode" /\ \A s \in Requests : s # r => req'[s] = req[s]
        /\ req[r].pc = "deleteCodes" /\ rows' = {} /\ verified' = verified
    BY <1>3, <1>6 DEF DeleteCodes, Goto, At, PC, account
  <2>2. \A s \in Requests : s # r => HandlerSees(s)'
    BY <1>4, <2>1
  <2>3. HandlerSees(r)'
    BY <1>2, <2>1 DEF HandlerSees, Judging
  <2>4. QED BY <2>1, <2>2, <2>3
<1>7. CASE CreateCode(r)
  <2>1. /\ req'[r].pc = "sendMail" /\ req'[r].code = created + 1
        /\ \A s \in Requests : s # r => req'[s] = req[s]
        /\ req[r].pc = "createCode" /\ rows' = rows \cup {created + 1} /\ verified' = verified
        /\ consumed' = consumed
    BY <1>3, <1>7 DEF CreateCode, At, PC, account
  <2>2. \A s \in Requests : s # r => HandlerSees(s)'
    BY <1>4, <2>1
  <2>3. rows = {} /\ created + 1 \notin consumed
    BY <1>1, <1>2, <2>1 DEF HandlerSees
  <2>4. Outstanding' = {created + 1}
    BY <2>1, <2>3 DEF Outstanding
  <2>5. HandlerSees(r)'
    BY <1>2, <2>1, <2>4 DEF HandlerSees, Judging
  <2>6. QED BY <2>1, <2>2, <2>5
<1>8. CASE SendMail(r)
  <2>1. /\ req'[r].pc = "answered" /\ \A s \in Requests : s # r => req'[s] = req[s]
        /\ req[r].pc = "sendMail" /\ UNCHANGED <<verified, codeVars>> /\ lastMail' = req[r].code
    BY <1>3, <1>8 DEF SendMail, Answer, Goto, At, PC, account
  <2>2. \A s \in Requests : s # r => HandlerSees(s)'
    BY <1>4, <2>1
  <2>3. HandlerSees(r)'
    BY <2>1 DEF HandlerSees, Judging
  <2>4. Outstanding' = Outstanding /\ Outstanding = {req[r].code} /\ ~verified
    BY <1>2, <2>1 DEF HandlerSees, Outstanding, codeVars
  <2>5. OneCodeMailed'
    BY <2>1, <2>4 DEF OneCodeMailed
  <2>6. QED BY <2>2, <2>3, <2>5
<1>9. CASE CountWrong(r) \/ Consume(r)
  <2>1. /\ req'[r].pc = "answered" /\ \A s \in Requests : s # r => req'[s] = req[s]
        /\ req[r].pc \in Judging /\ UNCHANGED mailVars /\ rows' = rows
    BY <1>3, <1>9 DEF CountWrong, Consume, Answer, Goto, At, PC, account, Judging
  <2>2. \A s \in Requests : s # r => req[s].pc \in {"idle", "answered"} /\ HandlerSees(s)'
    BY <1>4, <2>1 DEF Judging
  <2>3. HandlerSees(r)'
    BY <2>1 DEF HandlerSees, Judging
  <2>4. OneCodeMailed /\ req[r].code \in Outstanding /\ ~verified
    BY <1>2, <2>1, <2>2 DEF HandlerSees, Judging
  <2>5. CASE CountWrong(r)
    <3>1. Outstanding' = Outstanding /\ verified' = verified
      BY <2>1, <2>5 DEF CountWrong, Outstanding, account
    <3>2. OneCodeMailed'
      BY <2>1, <2>4, <3>1 DEF OneCodeMailed, mailVars
    <3>3. QED BY <2>2, <2>3, <3>2
  <2>6. CASE Consume(r)
    <3>1. consumed' = consumed \cup {req[r].code} /\ verified' = TRUE
      BY <2>4, <2>6 DEF Consume, Outstanding
    <3>2. Outstanding' = {}
      BY <2>1, <2>4, <3>1 DEF Outstanding, OneCodeMailed
    <3>3. OneCodeMailed'
      BY <3>1, <3>2 DEF OneCodeMailed
    <3>4. QED BY <2>2, <2>3, <3>3
  <2>7. QED BY <1>9, <2>5, <2>6
<1>10. CASE Finish(r)
  <2>1. /\ req'[r].pc = "idle" /\ \A s \in Requests : s # r => req'[s] = req[s]
        /\ req[r].pc = "answered" /\ UNCHANGED <<verified, codeVars, mailVars>>
    BY <1>3, <1>10 DEF Finish, Goto, At, PC, account
  <2>2. Outstanding' = Outstanding
    BY <2>1 DEF Outstanding, codeVars
  <2>3. \A s \in Requests : HandlerSees(s)'
    BY <2>1, <2>2 DEF CalmInv, HandlerSees, Judging, codeVars
  <2>4. (\A s \in Requests : req'[s].pc \notin {"createCode", "sendMail"}) => OneCodeMailed'
    BY <1>2, <2>1, <2>2 DEF OneCodeMailed, mailVars
  <2>5. QED BY <2>3, <2>4
<1>11. QED BY <1>5, <1>6, <1>7, <1>8, <1>9, <1>10 DEF Handle

LEMMA CalmNext == TypeOK /\ CalmInv /\ [MCNext]_all => CalmInv'
<1> SUFFICES ASSUME TypeOK, CalmInv, [MCNext]_all, calm' PROVE CalmInv'
  BY DEF CalmInv
<1>1. CASE UNCHANGED <<vars, calm>>
  BY <1>1 DEF CalmInv, InProgress, HandlerSees, OneCodeMailed, Outstanding, vars, account, codeVars,
              mailVars
<1>2. CASE Next /\ calm' = (calm /\ Cardinality(InProgress') <= 1 /\ ~\E r \in Requests : Fail(r))
  <2>1. calm /\ Cardinality(InProgress') <= 1 /\ ~\E r \in Requests : Fail(r)
    BY <1>2
  <2>2. InProgress' \in SUBSET Requests
    BY DEF InProgress
  <2>3. \A s, t \in InProgress' : s = t
    BY <2>1, <2>2, OneAtATime
  <2>4. CASE Tick
    <3>1. UNCHANGED <<account, codeVars, mailVars, req>>
      BY <2>4 DEF Tick
    <3>2. QED BY <2>1, <3>1 DEF CalmInv, InProgress, HandlerSees, OneCodeMailed, Outstanding, account,
                                codeVars, mailVars
  <2>5. ASSUME NEW r \in Requests, Handle(r)
        PROVE  CalmInv'
    BY <2>1, <2>3, <2>5, CalmHandler DEF CalmInv
  <2>6. QED BY <1>2, <2>4, <2>5 DEF Next
<1>3. QED BY <1>1, <1>2 DEF MCNext, all

(* While resends and guesses do not overlap and none dies, the code of the *)
(* newest mail is the one that verify() will compare with, and a confirmed *)
(* account keeps no outstanding code: for any number of resends, guesses,  *)
(* wrong guesses and expiries.                                             *)
THEOREM NewestMailWorks == MCSpec => []CalmNewestMailWorks
<1>1. TypeOK /\ CalmInv => CalmNewestMailWorks
  <2> SUFFICES ASSUME TypeOK, CalmInv, calm, InProgress = {}
               PROVE  /\ CalmOneActiveCode
                      /\ IF verified THEN Outstanding = {} ELSE lastMail # NoCode => IsNewest(lastMail)
    BY DEF CalmNewestMailWorks
  <2>1. OneCodeMailed
    BY DEF CalmInv, InProgress
  <2>2. Outstanding \subseteq 1..created /\ created \in Nat
    BY EmailVerificationAssumption DEF TypeOK, Created, Outstanding
  <2>3. CalmOneActiveCode
    <3>1. CASE Outstanding = {}
      BY <3>1, FS_EmptySet DEF CalmOneActiveCode
    <3>2. CASE \E c : Outstanding = {c}
      <4>1. PICK c : Outstanding = {c}
        BY <3>2
      <4>2. Cardinality(Outstanding) = 1
        BY <4>1, FS_Singleton
      <4>3. QED BY <4>2 DEF CalmOneActiveCode
    <3>3. Outstanding # {} => \E c : Outstanding = {c}
      BY <2>1 DEF OneCodeMailed
    <3>4. QED BY <3>1, <3>2, <3>3
  <2>4. IF verified THEN Outstanding = {} ELSE lastMail # NoCode => IsNewest(lastMail)
    <3>1. \A c \in Outstanding : c <= c
      BY <2>2
    <3>2. QED BY <2>1, <3>1 DEF OneCodeMailed, IsNewest
  <2>5. QED BY <2>3, <2>4
<1>2. TypeOK /\ [MCNext]_all => TypeOK'
  <2>1. [MCNext]_all => [Next]_vars
    BY DEF MCNext, all
  <2>2. QED BY <2>1, TypeNext
<1>3. MCInit => TypeOK /\ CalmInv
  BY TypeInit, CalmInit DEF MCInit
<1>4. QED BY <1>1, <1>2, <1>3, CalmNext, PTL DEF MCSpec

-----------------------------------------------------------------------------
(* Subscriptions                                                           *)
SubIInv ==
    /\ SubTypeOK /\ SubscriptionIsLastWord
    /\ \A r \in Calls : call[r] = "cancel" => sub # None

LEMMA SubInitIInv == SubInit => SubIInv
<1> SUFFICES ASSUME SubInit PROVE SubIInv
  OBVIOUS
<1>1. Row("FREE") \in [tier : Tiers, paid : BOOLEAN, canceled : BOOLEAN]
  BY DEF Row, Tiers
<1>2. SubTypeOK
  BY <1>1 DEF SubInit, SubTypeOK
<1>3. SubscriptionIsLastWord /\ \A r \in Calls : call[r] # "cancel"
  BY DEF SubInit, SubscriptionIsLastWord
<1>4. QED BY <1>2, <1>3 DEF SubIInv

LEMMA SubNextIInv == SubIInv /\ [SubNext]_subVars => SubIInv'
<1> SUFFICES ASSUME SubIInv, [SubNext]_subVars PROVE SubIInv'
  OBVIOUS
<1> DEFINE Rec == [tier : Tiers, paid : BOOLEAN, canceled : BOOLEAN]
<1>1. None \notin Rec
  BY DEF None, Tiers
<1>2. \A t \in Tiers : Row(t) \in Rec
  BY DEF Row, Tiers
<1>3. sub \in {None} \cup Rec /\ word \in {None} \cup Rec /\ "FREE" \in Tiers
  BY DEF SubIInv, SubTypeOK, Tiers
<1>4. ASSUME NEW r \in Calls, NEW pc \in {"idle", "create", "cancel"}, GotoCall(r, pc)
      PROVE  call' \in [Calls -> {"idle", "create", "cancel"}] /\ call'[r] = pc
             /\ \A s \in Calls : s # r => call'[s] = call[s]
  BY <1>4 DEF GotoCall, SubIInv, SubTypeOK
<1>5. CASE UNCHANGED subVars
  BY <1>5 DEF subVars, SubIInv, SubTypeOK, SubscriptionIsLastWord
<1>6. ASSUME NEW r \in Calls, GetMine(r) \/ Cancel(r) \/ CallFails(r)
      PROVE  SubIInv'
  <2>1. PICK pc \in {"idle", "create", "cancel"} : GotoCall(r, pc) /\ (pc = "cancel" => sub # None)
    BY <1>6 DEF GetMine, Cancel, CallFails
  <2>2. UNCHANGED <<sub, word>>
    BY <1>6 DEF GetMine, Cancel, CallFails
  <2>3. QED BY <1>3, <1>4, <2>1, <2>2 DEF SubIInv, SubTypeOK, SubscriptionIsLastWord
<1>7. ASSUME NEW r \in Calls, CreateFree(r)
      PROVE  SubIInv'
  <2>1. GotoCall(r, "idle") /\ word' = word /\ sub' = IF sub = None THEN Row("FREE") ELSE sub
    BY <1>7 DEF CreateFree
  <2>2. sub' \in Rec
    BY <1>2, <1>3, <2>1
  <2>3. SubscriptionIsLastWord'
    BY <1>1, <1>3, <2>1 DEF SubIInv, SubscriptionIsLastWord
  <2>4. \A s \in Calls : call'[s] = "cancel" => sub' # None
    BY <1>1, <2>2
  <2>5. SubTypeOK'
    BY <1>3, <1>4, <2>1, <2>2 DEF SubTypeOK
  <2>6. QED BY <2>3, <2>4, <2>5 DEF SubIInv
<1>8. ASSUME NEW r \in Calls, NEW t \in Tiers, ChangeTier(r, t)
      PROVE  SubIInv'
  <2>1. sub' = Row(t) /\ word' = Row(t) /\ call' = call /\ Row(t) \in Rec
    BY <1>2, <1>8 DEF ChangeTier
  <2>2. QED BY <1>1, <2>1 DEF SubIInv, SubTypeOK, SubscriptionIsLastWord
<1>9. ASSUME NEW r \in Calls, SetCanceled(r)
      PROVE  SubIInv'
  <2>1. sub \in Rec
    BY <1>3, <1>9 DEF SetCanceled, CallAt, SubIInv
  <2>2. sub' \in Rec /\ word' = sub' /\ GotoCall(r, "idle")
    BY <1>9, <2>1 DEF SetCanceled
  <2>3. QED BY <1>1, <1>4, <2>2 DEF SubIInv, SubTypeOK, SubscriptionIsLastWord
<1>10. QED BY <1>5, <1>6, <1>7, <1>8, <1>9 DEF SubNext

(* A tier that was chosen, and a cancellation, are not undone by a read    *)
(* that heals a missing row, whichever handlers overlap or die.            *)
THEOREM SubscriptionKeepsLastWord == SubSpec => []SubscriptionIsLastWord
<1>1. SubIInv => SubscriptionIsLastWord
  BY DEF SubIInv
<1>2. QED BY <1>1, SubInitIInv, SubNextIInv, PTL DEF SubSpec

-----------------------------------------------------------------------------
(* AccountLinking                                                          *)

\* An account that is confirmed, linked, signed in to, or on its way to it, is
\* the holder's: nobody else has set its password.
HeldByHolder ==
    \A a \in Rows :
        \/ acct[a].verified \/ acct[a].google # NoGoogle
        \/ \E b \in Browsers : session[b] = a
        \/ \E n \in Flows : flow[n].acct = a
        => acct[a].password # "other"

\* A flow that will need its account has one.
FlowsHaveAccounts == \A n \in Flows : flow[n].pc \in {"link", "issue"} => flow[n].acct # NoAccount

\* A flow nothing has disturbed finds its own cookie; flows of one browser that
\* are both under way have disturbed one another.
CookiesOK ==
    /\ \A n \in Flows : flow[n].pc \in {"consent", "callback"} /\ n \notin disturbed
                            => cookie[flow[n].at] = n
    /\ \A m, n \in Flows : m # n /\ Running(m) /\ Running(n) /\ flow[m].at = flow[n].at
                            => m \in disturbed /\ n \in disturbed

(* The inductive invariant.                                                *)
LinkIInv ==
    LinkTypeOK /\ HeldByHolder /\ FlowsHaveAccounts /\ CookiesOK /\ LoneSignInIsNotRefused

LEMMA NewFlow == New \in Flow /\ New.acct = NoAccount /\ New.pc = "new" /\ New.why = "none"
<1>1. (CHOOSE b \in Browsers : TRUE) \in Browsers
  BY AccountLinkingAssumption
<1>2. (CHOOSE p \in Profiles : TRUE) \in Profiles
  BY AccountLinkingAssumption
<1>3. QED BY <1>1, <1>2 DEF New, Flow

LEMMA LinkInitIInv == LinkInit => LinkIInv
<1> SUFFICES ASSUME LinkInit PROVE LinkIInv
  OBVIOUS
<1>1. Absent \in Account /\ Absent.status = "absent" /\ Absent.email = NoEmail
  BY DEF Absent, Account
<1>2. Rows = {}
  BY <1>1 DEF LinkInit, Rows
<1>3. \A n \in Flows : flow[n] = New
  BY DEF LinkInit
<1>4. LinkTypeOK
  BY <1>1, <1>3, NewFlow, AccountLinkingAssumption DEF LinkInit, LinkTypeOK
<1>5. HeldByHolder
  BY <1>2 DEF HeldByHolder
<1>6. FlowsHaveAccounts /\ CookiesOK /\ LoneSignInIsNotRefused
  BY <1>3, NewFlow DEF FlowsHaveAccounts, CookiesOK, LoneSignInIsNotRefused, Running
<1>7. QED BY <1>4, <1>5, <1>6 DEF LinkIInv

(* The forms in which a flow moves on.                                     *)
LEMMA FlowForms ==
    ASSUME LinkTypeOK, NEW n \in Flows
    PROVE  /\ flow[n] \in Flow
           /\ \A pc \in {"byGoogle", "byEmail", "probe", "respond"} : GotoFlow(n, pc) =>
                 \E f \in Flow : /\ flow' = [flow EXCEPT ![n] = f] /\ f.pc = pc
                                 /\ f.at = flow[n].at /\ f.acct = flow[n].acct /\ f.why = flow[n].why
           /\ \A pc \in {"link", "issue"}, a \in Accounts : With(n, pc, a) =>
                 \E f \in Flow : /\ flow' = [flow EXCEPT ![n] = f] /\ f.pc = pc
                                 /\ f.at = flow[n].at /\ f.acct = a /\ f.why = flow[n].why
           /\ \A w \in {"invalid_state", "inactive", "unverified", "conflict", "error"} : Refuse(n, w) =>
                 \E f \in Flow : /\ flow' = [flow EXCEPT ![n] = f] /\ f.pc = "respond"
                                 /\ f.at = flow[n].at /\ f.acct = NoAccount /\ f.why = w
           /\ \A pc \in {"landed", "refused"}, w \in {flow[n].why, "denied"} : End(n, pc, w) =>
                 \E f \in Flow : /\ flow' = [flow EXCEPT ![n] = f] /\ f.pc = pc
                                 /\ f.acct = NoAccount /\ f.why = w
<1>1. flow \in [Flows -> Flow] /\ flow[n] \in Flow
  BY DEF LinkTypeOK
<1>2. ASSUME NEW pc \in {"byGoogle", "byEmail", "probe", "respond"}, GotoFlow(n, pc)
      PROVE  \E f \in Flow : /\ flow' = [flow EXCEPT ![n] = f] /\ f.pc = pc
                             /\ f.at = flow[n].at /\ f.acct = flow[n].acct /\ f.why = flow[n].why
  <2> DEFINE f == [flow[n] EXCEPT !.pc = pc]
  <2>1. f \in Flow /\ f.pc = pc /\ f.at = flow[n].at /\ f.acct = flow[n].acct /\ f.why = flow[n].why
    BY <1>1 DEF Flow
  <2>2. flow' = [flow EXCEPT ![n] = f]
    BY <1>1, <1>2 DEF GotoFlow
  <2>3. QED BY <2>1, <2>2
<1>3. ASSUME NEW pc \in {"link", "issue"}, NEW a \in Accounts, With(n, pc, a)
      PROVE  \E f \in Flow : /\ flow' = [flow EXCEPT ![n] = f] /\ f.pc = pc
                             /\ f.at = flow[n].at /\ f.acct = a /\ f.why = flow[n].why
  <2> DEFINE f == [flow[n] EXCEPT !.pc = pc, !.acct = a]
  <2>1. f \in Flow /\ f.pc = pc /\ f.at = flow[n].at /\ f.acct = a /\ f.why = flow[n].why
    BY <1>1 DEF Flow
  <2>2. flow' = [flow EXCEPT ![n] = f]
    BY <1>1, <1>3 DEF With
  <2>3. QED BY <2>1, <2>2
<1>4. ASSUME NEW w \in {"invalid_state", "inactive", "unverified", "conflict", "error"}, Refuse(n, w)
      PROVE  \E f \in Flow : /\ flow' = [flow EXCEPT ![n] = f] /\ f.pc = "respond"
                             /\ f.at = flow[n].at /\ f.acct = NoAccount /\ f.why = w
  <2> DEFINE f == [flow[n] EXCEPT !.pc = "respond", !.why = w, !.acct = NoAccount]
  <2>1. f \in Flow /\ f.pc = "respond" /\ f.at = flow[n].at /\ f.acct = NoAccount /\ f.why = w
    BY <1>1 DEF Flow
  <2>2. flow' = [flow EXCEPT ![n] = f]
    BY <1>1, <1>4 DEF Refuse
  <2>3. QED BY <2>1, <2>2
<1>5. ASSUME NEW pc \in {"landed", "refused"}, NEW w \in {flow[n].why, "denied"},
             End(n, pc, w)
      PROVE  \E f \in Flow : /\ flow' = [flow EXCEPT ![n] = f] /\ f.pc = pc
                             /\ f.acct = NoAccount /\ f.why = w
  <2> DEFINE f == [New EXCEPT !.pc = pc, !.why = w]
  <2>0. w \in {"none", "denied", "invalid_state", "inactive", "unverified", "conflict", "error"}
    BY <1>1, <1>5 DEF Flow
  <2>1. f \in Flow /\ f.pc = pc /\ f.acct = NoAccount /\ f.why = w
    BY <2>0, NewFlow DEF Flow
  <2>2. flow' = [flow EXCEPT ![n] = f]
    BY <1>5 DEF End
  <2>3. QED BY <2>1, <2>2
<1>6. QED BY <1>1, <1>2, <1>3, <1>4, <1>5

(* A flow moves on; a row may be created or written, but never with        *)
(* somebody else's password.                                               *)
LEMMA FlowStep ==
    ASSUME LinkIInv, NEW n \in Flows, NEW f \in Flow, flow' = [flow EXCEPT ![n] = f],
           UNCHANGED <<cookie, session, disturbed>>,
           acct' \in [Accounts -> Account],
           \A a \in Accounts :
              \/ acct'[a] = acct[a]
              \/ /\ acct'[a].password # "other" /\ acct'[a].status # "absent"
                 /\ acct'[a].status = "active" <=> acct'[a].email # NoEmail,
           f.acct \in Rows' \cup {NoAccount},
           f.acct # NoAccount => acct'[f.acct].password # "other",
           f.pc \in {"link", "issue"} => f.acct # NoAccount,
           f.pc \notin {"new", "landed", "refused"} => Running(n) /\ f.at = flow[n].at,
           f.pc \in {"consent", "callback"} => flow[n].pc \in {"consent", "callback"},
           f.why = "invalid_state" => n \in disturbed
    PROVE  LinkIInv'
<1>1. /\ flow' \in [Flows -> Flow] /\ flow'[n] = f
      /\ \A m \in Flows : m # n => flow'[m] = flow[m]
  BY DEF LinkIInv, LinkTypeOK
<1>2. Rows \subseteq Rows'
  BY DEF Rows
<1>3. \A a \in Rows' : acct'[a].password # "other" \/ (a \in Rows /\ acct'[a] = acct[a])
  BY DEF Rows
<1>4. LinkTypeOK'
  <2>1. \A a \in Accounts : acct'[a].status = "active" <=> acct'[a].email # NoEmail
    BY DEF LinkIInv, LinkTypeOK
  <2>2. \A m \in Flows : flow'[m].acct \in Rows' \cup {NoAccount}
    BY <1>1, <1>2 DEF LinkIInv, LinkTypeOK
  <2>3. \A b \in Browsers : session'[b] \in Rows' \cup {NoAccount}
    BY <1>2 DEF LinkIInv, LinkTypeOK
  <2>4. QED BY <1>1, <2>1, <2>2, <2>3 DEF LinkIInv, LinkTypeOK
<1>5. HeldByHolder'
  <2>1. SUFFICES ASSUME NEW a \in Rows', acct'[a].password = "other",
                        \/ acct'[a].verified \/ acct'[a].google # NoGoogle
                        \/ \E b \in Browsers : session'[b] = a
                        \/ \E m \in Flows : flow'[m].acct = a
                 PROVE  FALSE
    BY DEF HeldByHolder
  <2>2. a \in Rows /\ acct'[a] = acct[a] /\ a # NoAccount
    BY <1>3, <2>1, AccountLinkingAssumption DEF Rows
  <2>3. f.acct # a
    BY <2>1, <2>2
  <2>4. QED BY <1>1, <2>1, <2>2, <2>3 DEF LinkIInv, HeldByHolder
<1>6. FlowsHaveAccounts'
  BY <1>1 DEF LinkIInv, FlowsHaveAccounts
<1>7. CookiesOK'
  <2>1. \A m \in Flows : Running(m)' => Running(m) /\ flow'[m].at = flow[m].at
    BY <1>1 DEF Running
  <2>2. \A m \in Flows : flow'[m].pc \in {"consent", "callback"} =>
                             flow[m].pc \in {"consent", "callback"} /\ flow'[m].at = flow[m].at
    BY <1>1
  <2>3. QED BY <2>1, <2>2 DEF LinkIInv, CookiesOK
<1>8. LoneSignInIsNotRefused'
  BY <1>1 DEF LinkIInv, LoneSignInIsNotRefused
<1>9. QED BY <1>4, <1>5, <1>6, <1>7, <1>8 DEF LinkIInv

(* A row is written outside the flows.                                     *)
LEMMA RowStep ==
    ASSUME LinkIInv, NEW a \in Accounts, NEW row \in Account, acct' = [acct EXCEPT ![a] = row],
           UNCHANGED <<flow, cookie, session, disturbed>>,
           row.status # "absent", row.status = "active" <=> row.email # NoEmail,
           row.password = "other" => a \notin Rows /\ ~row.verified /\ row.google = NoGoogle
    PROVE  LinkIInv'
<1>1. /\ acct' \in [Accounts -> Account] /\ acct'[a] = row
      /\ \A o \in Accounts : o # a => acct'[o] = acct[o]
  BY DEF LinkIInv, LinkTypeOK
<1>2. Rows' = Rows \cup {a}
  BY <1>1 DEF Rows
<1>3. LinkTypeOK'
  BY <1>1, <1>2 DEF LinkIInv, LinkTypeOK
<1>4. HeldByHolder'
  <2>1. SUFFICES ASSUME NEW o \in Rows', acct'[o].password = "other",
                        \/ acct'[o].verified \/ acct'[o].google # NoGoogle
                        \/ \E b \in Browsers : session'[b] = o
                        \/ \E m \in Flows : flow'[m].acct = o
                 PROVE  FALSE
    BY DEF HeldByHolder
  <2>2. CASE o = a
    <3>1. a \notin Rows /\ a # NoAccount
      BY <1>1, <2>1, <2>2, AccountLinkingAssumption
    <3>2. /\ \A b \in Browsers : session'[b] # a
          /\ \A m \in Flows : flow'[m].acct # a
      BY <3>1 DEF LinkIInv, LinkTypeOK
    <3>3. QED BY <1>1, <2>1, <2>2, <3>2
  <2>3. CASE o # a
    BY <1>1, <1>2, <2>1, <2>3 DEF LinkIInv, HeldByHolder
  <2>4. QED BY <2>2, <2>3
<1>5. FlowsHaveAccounts' /\ CookiesOK' /\ LoneSignInIsNotRefused'
  BY DEF LinkIInv, FlowsHaveAccounts, CookiesOK, LoneSignInIsNotRefused, Running
<1>6. QED BY <1>3, <1>4, <1>5 DEF LinkIInv

LEMMA RowActions ==
    ASSUME LinkIInv,
           \/ \E e \in Emails, name \in Flows, by \in {"holder", "other"} : RegisterAccount(e, name, by)
           \/ \E a \in Accounts : VerifyEmail(a) \/ DeleteAccount(a)
    PROVE  LinkIInv'
<1>0. acct \in [Accounts -> Account] /\ \A a \in Accounts : acct[a] \in Account
  BY DEF LinkIInv, LinkTypeOK
<1>1. ASSUME NEW e \in Emails, NEW name \in Flows, NEW by \in {"holder", "other"},
             RegisterAccount(e, name, by)
      PROVE  LinkIInv'
  <2> DEFINE row == [email |-> e, name |-> name, google |-> NoGoogle, verified |-> FALSE,
                     password |-> by, status |-> "active"]
  <2>1. row \in Account
    BY AccountLinkingAssumption DEF Account
  <2>2. PICK a \in Accounts \ Rows : acct' = [acct EXCEPT ![a] = row]
    BY <1>1 DEF RegisterAccount, Insert
  <2>3. /\ row.status = "active" /\ row.email # NoEmail /\ ~row.verified /\ row.google = NoGoogle
    BY AccountLinkingAssumption
  <2> HIDE DEF row
  <2>4. QED BY <1>1, <2>1, <2>2, <2>3, RowStep DEF RegisterAccount
<1>2. ASSUME NEW a \in Accounts, VerifyEmail(a)
      PROVE  LinkIInv'
  <2> DEFINE row == [acct[a] EXCEPT !.verified = TRUE]
  <2>1. /\ row \in Account /\ row.status = "active" /\ row.email = acct[a].email
        /\ row.password = "holder"
    BY <1>0, <1>2 DEF VerifyEmail, Account
  <2>2. acct' = [acct EXCEPT ![a] = row]
    BY <1>0, <1>2 DEF VerifyEmail
  <2>3. row.email # NoEmail
    BY <1>2, <2>1 DEF VerifyEmail, LinkIInv, LinkTypeOK
  <2> HIDE DEF row
  <2>4. QED BY <1>2, <2>1, <2>2, <2>3, RowStep DEF VerifyEmail
<1>3. ASSUME NEW a \in Accounts, DeleteAccount(a)
      PROVE  LinkIInv'
  <2> DEFINE row == [acct[a] EXCEPT !.email = NoEmail, !.name = 0, !.password = "none",
                                    !.status = "deleted"]
  <2>1. /\ row \in Account /\ row.status = "deleted" /\ row.email = NoEmail
        /\ row.password = "none"
    BY <1>0 DEF Account
  <2>2. acct' = [acct EXCEPT ![a] = row]
    BY <1>3 DEF DeleteAccount
  <2> HIDE DEF row
  <2>3. QED BY <1>3, <2>1, <2>2, RowStep DEF DeleteAccount
<1>4. QED BY <1>1, <1>2, <1>3

\* A step that only moves flow n on.
LEMMA MoveOn ==
    ASSUME LinkIInv, NEW n \in Flows, NEW f \in Flow, flow' = [flow EXCEPT ![n] = f],
           UNCHANGED <<acct, cookie, session, disturbed>>,
           f.acct \in Rows \cup {NoAccount},
           f.acct # NoAccount => acct[f.acct].password # "other",
           f.pc \in {"link", "issue"} => f.acct # NoAccount,
           f.pc \notin {"new", "landed", "refused"} => Running(n) /\ f.at = flow[n].at,
           f.pc \in {"consent", "callback"} => flow[n].pc \in {"consent", "callback"},
           f.why = "invalid_state" => n \in disturbed
    PROVE  LinkIInv'
<1>1. Rows' = Rows /\ acct' \in [Accounts -> Account]
  BY DEF Rows, LinkIInv, LinkTypeOK
<1>2. QED BY <1>1, FlowStep

\* What is known of the account and the outcome a flow has at any point.
LEMMA FlowFacts ==
    ASSUME LinkIInv, NEW n \in Flows
    PROVE  /\ flow[n] \in Flow /\ flow[n].who \in Profiles
           /\ flow[n].who.googleId \in GoogleIds /\ flow[n].who.email \in Emails
           /\ flow[n].acct \in Rows \cup {NoAccount}
           /\ flow[n].acct # NoAccount => acct[flow[n].acct].password # "other"
           /\ flow[n].why = "invalid_state" => n \in disturbed
<1>1. flow[n] \in Flow /\ flow[n].acct \in Rows \cup {NoAccount}
  BY DEF LinkIInv, LinkTypeOK
<1>2. flow[n].who \in Profiles
  BY <1>1 DEF Flow
<1>3. flow[n].who \in [googleId : GoogleIds, email : Emails, verified : BOOLEAN]
  BY <1>2, AccountLinkingAssumption
<1>4. flow[n].acct # NoAccount => acct[flow[n].acct].password # "other"
  BY <1>1 DEF LinkIInv, HeldByHolder
<1>5. flow[n].why = "invalid_state" => n \in disturbed
  BY DEF LinkIInv, LoneSignInIsNotRefused
<1>6. QED BY <1>1, <1>2, <1>3, <1>4, <1>5

\* A refusal at a step of loginWithGoogle().
LEMMA Refused ==
    ASSUME LinkIInv, NEW n \in Flows, Running(n),
           NEW w \in {"invalid_state", "inactive", "unverified", "conflict", "error"},
           Refuse(n, w), w = "invalid_state" => n \in disturbed,
           UNCHANGED <<acct, cookie, session, disturbed>>
    PROVE  LinkIInv'
<1>1. PICK f \in Flow : /\ flow' = [flow EXCEPT ![n] = f] /\ f.pc = "respond"
                        /\ f.at = flow[n].at /\ f.acct = NoAccount /\ f.why = w
  BY FlowForms DEF LinkIInv
<1>2. QED BY <1>1, MoveOn

\* The search goes on.
LEMMA GoneOn ==
    ASSUME LinkIInv, NEW n \in Flows, Running(n), NEW pc \in {"byGoogle", "byEmail", "probe", "respond"},
           GotoFlow(n, pc), UNCHANGED <<acct, cookie, session, disturbed>>
    PROVE  LinkIInv'
<1>1. PICK f \in Flow : /\ flow' = [flow EXCEPT ![n] = f] /\ f.pc = pc
                        /\ f.at = flow[n].at /\ f.acct = flow[n].acct /\ f.why = flow[n].why
  BY FlowForms DEF LinkIInv
<1>2. QED BY <1>1, FlowFacts, MoveOn

\* A row was found that is the holder's.
LEMMA Found ==
    ASSUME LinkIInv, NEW n \in Flows, Running(n), NEW pc \in {"link", "issue"}, NEW a \in Rows,
           acct[a].password # "other", With(n, pc, a),
           UNCHANGED <<acct, cookie, session, disturbed>>
    PROVE  LinkIInv'
<1>0. a \in Accounts /\ a # NoAccount
  BY AccountLinkingAssumption DEF Rows
<1>1. PICK f \in Flow : /\ flow' = [flow EXCEPT ![n] = f] /\ f.pc = pc
                        /\ f.at = flow[n].at /\ f.acct = a /\ f.why = flow[n].why
  BY <1>0, FlowForms DEF LinkIInv
<1>2. QED BY <1>0, <1>1, FlowFacts, MoveOn

LEMMA EndStep ==
    ASSUME LinkIInv, NEW n \in Flows, End(n, "refused", "denied"),
           UNCHANGED <<acct, cookie, session, disturbed>>
    PROVE  LinkIInv'
<1>1. PICK f \in Flow : /\ flow' = [flow EXCEPT ![n] = f] /\ f.pc = "refused"
                        /\ f.acct = NoAccount /\ f.why = "denied"
  BY FlowForms DEF LinkIInv
<1>2. QED BY <1>1, MoveOn

LEMMA ConsentStep ==
    ASSUME LinkIInv, NEW n \in Flows, NEW p \in Profiles, Consent(n, p)
    PROVE  LinkIInv'
<1>1. flow[n] \in Flow /\ flow \in [Flows -> Flow]
  BY DEF LinkIInv, LinkTypeOK
<1> DEFINE f == [flow[n] EXCEPT !.pc = "callback", !.who = p]
<1>2. /\ f \in Flow /\ f.pc = "callback" /\ f.at = flow[n].at /\ f.acct = flow[n].acct
      /\ f.why = flow[n].why
  BY <1>1 DEF Flow
<1>3. flow' = [flow EXCEPT ![n] = f]
  BY <1>1 DEF Consent
<1> HIDE DEF f
<1>4. Running(n) /\ flow[n].pc = "consent" /\ UNCHANGED <<acct, cookie, session, disturbed>>
  BY DEF Consent, Running
<1>5. /\ f.acct \in Rows \cup {NoAccount}
      /\ f.acct # NoAccount => acct[f.acct].password # "other"
      /\ f.why = "invalid_state" => n \in disturbed
  BY <1>2, FlowFacts
<1>6. QED BY <1>2, <1>3, <1>4, <1>5, MoveOn

LEMMA CallbackStep ==
    ASSUME LinkIInv, NEW n \in Flows, Callback(n)
    PROVE  LinkIInv'
<1>1. Running(n) /\ UNCHANGED <<acct, cookie, session, disturbed>>
  BY DEF Callback, Running
<1>2. CASE End(n, "refused", "denied")
  BY <1>1, <1>2, EndStep
<1>3. CASE GotoFlow(n, "byGoogle")
  BY <1>1, <1>3, GoneOn
<1>4. CASE Refuse(n, "invalid_state") /\ ~StatesMatch(n)
  <2>1. n \in disturbed
    BY <1>4 DEF Callback, StatesMatch, LinkIInv, CookiesOK
  <2>2. QED BY <1>1, <1>4, <2>1, Refused
<1>5. QED BY <1>2, <1>3, <1>4 DEF Callback

LEMMA FindStep ==
    ASSUME LinkIInv, NEW n \in Flows, FindByGoogle(n) \/ FindByEmail(n)
    PROVE  LinkIInv'
<1>1. Running(n) /\ UNCHANGED <<acct, cookie, session, disturbed>>
  BY DEF FindByGoogle, FindByEmail, Running
<1>2. CASE FindByGoogle(n) /\ \E a \in Rows : acct[a].google = flow[n].who.googleId /\ SignInAs(n, a)
  <2>1. PICK a \in Rows : acct[a].google = flow[n].who.googleId /\ SignInAs(n, a)
    BY <1>2
  <2>2. acct[a].google # NoGoogle
    BY <2>1, FlowFacts, AccountLinkingAssumption
  <2>3. acct[a].password # "other"
    BY <2>2 DEF LinkIInv, HeldByHolder
  <2>4. QED BY <1>1, <2>1, <2>3, Found, Refused DEF SignInAs
<1>3. CASE FindByEmail(n) /\ \E a \in Rows : acct[a].verified /\ With(n, "link", a)
  <2>1. PICK a \in Rows : acct[a].verified /\ With(n, "link", a)
    BY <1>3
  <2>2. acct[a].password # "other"
    BY <2>1 DEF LinkIInv, HeldByHolder
  <2>3. QED BY <1>1, <2>1, <2>2, Found
<1>4. CASE Refuse(n, "unverified")
  BY <1>1, <1>4, Refused
<1>5. CASE GotoFlow(n, "byEmail") \/ GotoFlow(n, "probe")
  BY <1>1, <1>5, GoneOn
<1>6. QED BY <1>2, <1>3, <1>4, <1>5 DEF FindByGoogle, FindByEmail

LEMMA LinkStep ==
    ASSUME LinkIInv, NEW n \in Flows, Link(n)
    PROVE  LinkIInv'
<1>1. Running(n) /\ UNCHANGED <<cookie, session, disturbed>>
  BY DEF Link, Running
<1>2. PICK a \in Rows : a = flow[n].acct /\ acct[a].password # "other" /\ a \in Accounts /\ a # NoAccount
  BY FlowFacts, AccountLinkingAssumption DEF Link, LinkIInv, FlowsHaveAccounts, Rows
<1>3. CASE Refuse(n, "conflict") /\ UNCHANGED acct
  BY <1>1, <1>3, Refused
<1>4. CASE acct' = [acct EXCEPT ![a].google = flow[n].who.googleId] /\ SignInAs(n, a)
  <2>1. acct \in [Accounts -> Account] /\ acct[a] \in Account /\ flow[n].who.googleId \in GoogleIds
    BY <1>2, FlowFacts DEF LinkIInv, LinkTypeOK
  <2> DEFINE row == [acct[a] EXCEPT !.google = flow[n].who.googleId]
  <2>2. /\ row \in Account /\ row.status = acct[a].status /\ row.email = acct[a].email
        /\ row.password = acct[a].password
    BY <2>1 DEF Account
  <2>3. acct' = [acct EXCEPT ![a] = row]
    BY <1>4, <2>1
  <2>4. /\ acct' \in [Accounts -> Account] /\ acct'[a] = row
        /\ \A o \in Accounts : o # a => acct'[o] = acct[o]
    BY <1>2, <2>1, <2>2, <2>3
  <2> HIDE DEF row
  <2>5. /\ acct'[a].password # "other" /\ acct'[a].status # "absent"
        /\ acct'[a].status = "active" <=> acct'[a].email # NoEmail
    BY <1>2, <2>2, <2>4 DEF LinkIInv, LinkTypeOK, Rows
  <2>6. \E f \in Flow : /\ flow' = [flow EXCEPT ![n] = f] /\ f.pc \in {"issue", "respond"}
                        /\ f.at = flow[n].at /\ f.acct \in {a, NoAccount}
                        /\ f.pc = "issue" => f.acct = a
                        /\ f.why \in {flow[n].why, "inactive"}
    <3>1. With(n, "issue", a) \/ Refuse(n, "inactive")
      BY <1>4 DEF SignInAs
    <3>2. CASE With(n, "issue", a)
      <4>1. \E f \in Flow : /\ flow' = [flow EXCEPT ![n] = f] /\ f.pc = "issue"
                            /\ f.at = flow[n].at /\ f.acct = a /\ f.why = flow[n].why
        BY <1>2, <3>2, FlowForms DEF LinkIInv
      <4>2. QED BY <4>1
    <3>3. CASE Refuse(n, "inactive")
      <4>1. \E f \in Flow : /\ flow' = [flow EXCEPT ![n] = f] /\ f.pc = "respond"
                            /\ f.at = flow[n].at /\ f.acct = NoAccount /\ f.why = "inactive"
        BY <3>3, FlowForms DEF LinkIInv
      <4>2. QED BY <4>1
    <3>4. QED BY <3>1, <3>2, <3>3
  <2>7. a \in Rows'
    BY <1>2, <2>5 DEF Rows
  <2>8. PICK f \in Flow : /\ flow' = [flow EXCEPT ![n] = f] /\ f.pc \in {"issue", "respond"}
                          /\ f.at = flow[n].at /\ f.acct \in {a, NoAccount}
                          /\ f.pc = "issue" => f.acct = a
                          /\ f.why \in {flow[n].why, "inactive"}
    BY <2>6
  <2>9. /\ f.acct \in Rows' \cup {NoAccount}
        /\ f.acct # NoAccount => acct'[f.acct].password # "other"
        /\ f.pc \in {"link", "issue"} => f.acct # NoAccount
        /\ f.why = "invalid_state" => n \in disturbed
    BY <1>2, <2>5, <2>7, <2>8, FlowFacts
  <2>10. QED BY <1>1, <2>4, <2>5, <2>8, <2>9, FlowStep
<1>5. QED BY <1>2, <1>3, <1>4 DEF Link

LEMMA ProbeStep ==
    ASSUME LinkIInv, NEW n \in Flows, ProbeUsername(n)
    PROVE  LinkIInv'
<1>1. flow[n] \in Flow /\ flow \in [Flows -> Flow]
  BY DEF LinkIInv, LinkTypeOK
<1>2. Running(n) /\ UNCHANGED <<acct, cookie, session, disturbed>>
  BY DEF ProbeUsername, Running
<1>3. \E f \in Flow : /\ flow' = [flow EXCEPT ![n] = f] /\ f.pc \in {"probe", "create"}
                      /\ f.at = flow[n].at /\ f.acct = flow[n].acct /\ f.why = flow[n].why
  <2>1. flow[n].name + 1 \in Nat
    BY <1>1 DEF Flow
  <2>2. CASE flow' = [flow EXCEPT ![n].name = flow[n].name + 1]
    <3> DEFINE f == [flow[n] EXCEPT !.name = flow[n].name + 1]
    <3>1. f \in Flow /\ f.at = flow[n].at /\ f.acct = flow[n].acct /\ f.why = flow[n].why
          /\ f.pc = "probe"
      BY <1>1, <2>1 DEF Flow, ProbeUsername
    <3>2. flow' = [flow EXCEPT ![n] = f]
      BY <1>1, <2>2
    <3>3. QED BY <3>1, <3>2
  <2>3. CASE flow' = [flow EXCEPT ![n].name = flow[n].name + 1, ![n].pc = "create"]
    <3> DEFINE f == [flow[n] EXCEPT !.name = flow[n].name + 1, !.pc = "create"]
    <3>1. f \in Flow /\ f.at = flow[n].at /\ f.acct = flow[n].acct /\ f.why = flow[n].why
          /\ f.pc = "create"
      BY <1>1, <2>1 DEF Flow
    <3>2. flow' = [flow EXCEPT ![n] = f]
      BY <1>1, <2>3
    <3>3. QED BY <3>1, <3>2
  <2>4. QED BY <2>2, <2>3 DEF ProbeUsername
<1>4. PICK f \in Flow : /\ flow' = [flow EXCEPT ![n] = f] /\ f.pc \in {"probe", "create"}
                        /\ f.at = flow[n].at /\ f.acct = flow[n].acct /\ f.why = flow[n].why
  BY <1>3
<1>5. /\ f.acct \in Rows \cup {NoAccount}
      /\ f.acct # NoAccount => acct[f.acct].password # "other"
      /\ f.why = "invalid_state" => n \in disturbed
  BY <1>4, FlowFacts
<1>6. QED BY <1>2, <1>4, <1>5, MoveOn

LEMMA CreateStep ==
    ASSUME LinkIInv, NEW n \in Flows, CreateAccount(n)
    PROVE  LinkIInv'
<1>1. Running(n) /\ UNCHANGED <<cookie, session, disturbed>>
  BY DEF CreateAccount, Running
<1>2. CASE Refuse(n, "conflict") /\ UNCHANGED acct
  BY <1>1, <1>2, Refused
<1>3. CASE \E a \in Accounts \ Rows :
             /\ acct' = [acct EXCEPT ![a] =
                  [email |-> flow[n].who.email, name |-> flow[n].name, google |-> flow[n].who.googleId,
                   verified |-> TRUE, password |-> "none", status |-> "active"]]
             /\ With(n, "issue", a)
  <2> DEFINE row == [email |-> flow[n].who.email, name |-> flow[n].name,
                     google |-> flow[n].who.googleId, verified |-> TRUE, password |-> "none",
                     status |-> "active"]
  <2>1. PICK a \in Accounts \ Rows : acct' = [acct EXCEPT ![a] = row] /\ With(n, "issue", a)
    BY <1>3
  <2>2. /\ acct \in [Accounts -> Account] /\ flow[n].name \in Nat /\ flow[n].who.email \in Emails
        /\ flow[n].who.googleId \in GoogleIds
    BY FlowFacts DEF LinkIInv, LinkTypeOK, Flow
  <2>3. /\ row \in Account /\ row.status = "active" /\ row.email # NoEmail /\ row.password = "none"
    BY <2>2, AccountLinkingAssumption DEF Account
  <2> HIDE DEF row
  <2>4. /\ acct' \in [Accounts -> Account] /\ acct'[a] = row
        /\ \A o \in Accounts : o # a => acct'[o] = acct[o]
    BY <2>1, <2>2, <2>3
  <2>5. PICK f \in Flow : /\ flow' = [flow EXCEPT ![n] = f] /\ f.pc = "issue"
                          /\ f.at = flow[n].at /\ f.acct = a /\ f.why = flow[n].why
    BY <2>1, FlowForms DEF LinkIInv
  <2>6. /\ f.acct \in Rows' \cup {NoAccount} /\ f.acct # NoAccount
        /\ acct'[f.acct].password # "other"
        /\ f.why = "invalid_state" => n \in disturbed
    BY <2>1, <2>3, <2>4, <2>5, FlowFacts, AccountLinkingAssumption DEF Rows
  <2>7. \A o \in Accounts :
           \/ acct'[o] = acct[o]
           \/ /\ acct'[o].password # "other" /\ acct'[o].status # "absent"
              /\ acct'[o].status = "active" <=> acct'[o].email # NoEmail
    BY <2>3, <2>4
  <2>8. QED BY <1>1, <2>4, <2>5, <2>6, <2>7, FlowStep
<1>4. QED BY <1>2, <1>3 DEF CreateAccount

\* The cookie goes, and the page takes the account; what the flow becomes is over.
LEMMA LandStep ==
    ASSUME LinkIInv, NEW n \in Flows, Land(n)
    PROVE  LinkIInv'
<1>1. PICK b \in Browsers, a \in Rows \cup {NoAccount} :
         /\ b = flow[n].at /\ a = flow[n].acct /\ (a # NoAccount => acct[a].password # "other")
  BY FlowFacts DEF Flow
<1>2. /\ cookie' = [cookie EXCEPT ![b] = 0] /\ UNCHANGED <<acct, disturbed>> /\ Running(n)
      /\ session' = IF a = NoAccount THEN session ELSE [session EXCEPT ![b] = a]
      /\ flow[n].pc = "respond"
  BY <1>1 DEF Land, Running
<1>3. PICK f \in Flow : /\ flow' = [flow EXCEPT ![n] = f] /\ f.pc \in {"landed", "refused"}
                        /\ f.acct = NoAccount /\ f.why = flow[n].why
  <2>1. \E pc \in {"landed", "refused"} : End(n, pc, flow[n].why)
    BY DEF Land
  <2>2. QED BY <2>1, FlowForms DEF LinkIInv
<1>4. /\ flow' \in [Flows -> Flow] /\ flow'[n] = f
      /\ \A m \in Flows : m # n => flow'[m] = flow[m]
  BY <1>3 DEF LinkIInv, LinkTypeOK
<1>5. Rows' = Rows /\ Rows \subseteq Accounts
  BY <1>2 DEF Rows
<1>6. /\ cookie' \in [Browsers -> Flows \cup {0}]
      /\ \A c \in Browsers : cookie'[c] = IF c = b THEN 0 ELSE cookie[c]
  BY <1>2 DEF LinkIInv, LinkTypeOK
<1>7. /\ session' \in [Browsers -> Accounts \cup {NoAccount}]
      /\ \A c \in Browsers : session'[c] \in {session[c], a} /\ session'[c] \in Rows \cup {NoAccount}
      /\ \A c \in Browsers : session'[c] = session[c] \/ (session'[c] = a /\ a # NoAccount)
  BY <1>1, <1>2, <1>5 DEF LinkIInv, LinkTypeOK
<1>8. LinkTypeOK'
  BY <1>2, <1>3, <1>4, <1>5, <1>6, <1>7 DEF LinkIInv, LinkTypeOK
<1>9. HeldByHolder'
  <2>1. SUFFICES ASSUME NEW o \in Rows, acct[o].password = "other",
                        \/ acct[o].verified \/ acct[o].google # NoGoogle
                        \/ \E c \in Browsers : session'[c] = o
                        \/ \E m \in Flows : flow'[m].acct = o
                 PROVE  FALSE
    BY <1>2, <1>5 DEF HeldByHolder
  <2>2. o # NoAccount
    BY <1>5, AccountLinkingAssumption
  <2>3. \A c \in Browsers : session'[c] # o
    BY <1>1, <1>7, <2>1 DEF LinkIInv, HeldByHolder
  <2>4. \A m \in Flows : flow'[m].acct # o
    BY <1>3, <1>4, <2>1, <2>2 DEF LinkIInv, HeldByHolder
  <2>5. QED BY <2>1, <2>3, <2>4 DEF LinkIInv, HeldByHolder
<1>10. FlowsHaveAccounts'
  BY <1>3, <1>4 DEF LinkIInv, FlowsHaveAccounts
<1>11. CookiesOK'
  <2>1. \A m \in Flows : Running(m)' => m # n /\ Running(m) /\ flow'[m] = flow[m]
    BY <1>3, <1>4 DEF Running
  <2>2. ASSUME NEW m \in Flows, flow'[m].pc \in {"consent", "callback"}, m \notin disturbed'
        PROVE  cookie'[flow'[m].at] = m
    <3>1. m # n /\ flow'[m] = flow[m] /\ Running(m) /\ m \notin disturbed
      BY <1>2, <2>1, <2>2 DEF Running
    <3>2. cookie[flow[m].at] = m /\ flow[m].at # b
      BY <1>1, <1>2, <2>2, <3>1 DEF LinkIInv, CookiesOK
    <3>3. flow[m].at \in Browsers
      BY DEF LinkIInv, LinkTypeOK, Flow
    <3>4. QED BY <1>6, <3>1, <3>2, <3>3
  <2>3. QED BY <1>2, <2>1, <2>2 DEF LinkIInv, CookiesOK
<1>12. LoneSignInIsNotRefused'
  BY <1>2, <1>3, <1>4 DEF LinkIInv, LoneSignInIsNotRefused
<1>13. QED BY <1>8, <1>9, <1>10, <1>11, <1>12 DEF LinkIInv

LEMMA StartStep ==
    ASSUME LinkIInv, NEW n \in Flows, NEW b \in Browsers, StartGoogle(n, b)
    PROVE  LinkIInv'
<1> DEFINE others == {m \in Flows : Running(m) /\ flow[m].at = b}
<1>1. /\ flow[n].pc = "new" /\ ~Running(n) /\ flow[n] \in Flow /\ flow \in [Flows -> Flow]
      /\ cookie' = [cookie EXCEPT ![b] = n] /\ UNCHANGED <<acct, session>>
      /\ disturbed' = disturbed \cup others \cup (IF others = {} THEN {} ELSE {n})
  BY DEF StartGoogle, FlowStarts, Running, LinkIInv, LinkTypeOK
<1>2. PICK f \in Flow : /\ flow' = [flow EXCEPT ![n] = f] /\ f.pc = "consent" /\ f.at = b
                        /\ f.acct = flow[n].acct /\ f.why = flow[n].why
  <2> DEFINE f == [flow[n] EXCEPT !.pc = "consent", !.at = b]
  <2>1. f \in Flow /\ f.pc = "consent" /\ f.at = b /\ f.acct = flow[n].acct /\ f.why = flow[n].why
    BY <1>1 DEF Flow
  <2>2. flow' = [flow EXCEPT ![n] = f]
    BY <1>1 DEF StartGoogle, FlowStarts
  <2>3. QED BY <2>1, <2>2
<1>3. /\ flow' \in [Flows -> Flow] /\ flow'[n] = f
      /\ \A m \in Flows : m # n => flow'[m] = flow[m]
  BY <1>1, <1>2
<1>4. Rows' = Rows
  BY <1>1 DEF Rows
<1>5. /\ cookie' \in [Browsers -> Flows \cup {0}] /\ cookie'[b] = n
      /\ \A c \in Browsers : c # b => cookie'[c] = cookie[c]
  BY <1>1 DEF LinkIInv, LinkTypeOK
<1>6. disturbed \subseteq disturbed' /\ others \subseteq disturbed' /\ disturbed' \subseteq Flows
      /\ (others # {} => n \in disturbed')
  BY <1>1 DEF LinkIInv, LinkTypeOK
<1>7. LinkTypeOK'
  BY <1>1, <1>2, <1>3, <1>4, <1>5, <1>6 DEF LinkIInv, LinkTypeOK
<1>8. HeldByHolder'
  <2>1. \A m \in Flows : flow'[m].acct = flow[m].acct
    BY <1>2, <1>3
  <2>2. QED BY <1>1, <1>4, <2>1 DEF LinkIInv, HeldByHolder
<1>9. FlowsHaveAccounts'
  BY <1>2, <1>3 DEF LinkIInv, FlowsHaveAccounts
<1> HIDE DEF others
<1>10. CookiesOK'
  <2>1. \A m \in Flows : m # n => /\ flow'[m] = flow[m] /\ (Running(m)' <=> Running(m))
                                  /\ (Running(m) /\ flow[m].at = b => m \in disturbed' /\ n \in disturbed')
    BY <1>3, <1>6 DEF Running, others
  <2>2. ASSUME NEW m \in Flows, flow'[m].pc \in {"consent", "callback"}, m \notin disturbed'
        PROVE  cookie'[flow'[m].at] = m
    <3>1. CASE m = n
      BY <1>2, <1>3, <1>5, <3>1
    <3>2. CASE m # n
      <4>1. flow'[m] = flow[m] /\ m \notin disturbed /\ Running(m) /\ flow[m].at # b
        BY <1>6, <2>1, <2>2, <3>2 DEF Running
      <4>2. cookie[flow[m].at] = m /\ flow[m].at \in Browsers
        BY <2>2, <4>1 DEF LinkIInv, CookiesOK, LinkTypeOK, Flow
      <4>3. QED BY <1>5, <4>1, <4>2
    <3>3. QED BY <3>1, <3>2
  <2>3. ASSUME NEW m \in Flows, NEW o \in Flows, m # o, Running(m)', Running(o)',
               flow'[m].at = flow'[o].at
        PROVE  m \in disturbed' /\ o \in disturbed'
    <3>1. CASE m # n /\ o # n
      BY <1>6, <2>1, <2>3, <3>1 DEF LinkIInv, CookiesOK
    <3>2. CASE m = n /\ o # n
      BY <1>2, <1>3, <2>1, <2>3, <3>2
    <3>3. CASE m # n /\ o = n
      BY <1>2, <1>3, <2>1, <2>3, <3>3
    <3>4. QED BY <2>3, <3>1, <3>2, <3>3
  <2>4. QED BY <2>2, <2>3 DEF CookiesOK
<1>11. LoneSignInIsNotRefused'
  <2>1. \A m \in Flows : flow'[m].why = flow[m].why
    BY <1>2, <1>3
  <2>2. QED BY <1>6, <2>1 DEF LinkIInv, LoneSignInIsNotRefused
<1>12. QED BY <1>7, <1>8, <1>9, <1>10, <1>11 DEF LinkIInv

LEMMA ExpiryStep ==
    ASSUME LinkIInv, NEW b \in Browsers, CookieExpires(b)
    PROVE  LinkIInv'
<1>1. /\ cookie' = [cookie EXCEPT ![b] = 0] /\ UNCHANGED <<acct, flow, session>>
      /\ disturbed' = disturbed \cup {cookie[b]} /\ cookie[b] \in Flows /\ Rows' = Rows
  BY DEF CookieExpires, LinkIInv, LinkTypeOK, Rows
<1>2. /\ cookie' \in [Browsers -> Flows \cup {0}]
      /\ \A c \in Browsers : c # b => cookie'[c] = cookie[c]
  BY <1>1 DEF LinkIInv, LinkTypeOK
<1>3. LinkTypeOK'
  BY <1>1, <1>2 DEF LinkIInv, LinkTypeOK
<1>4. HeldByHolder' /\ FlowsHaveAccounts' /\ LoneSignInIsNotRefused'
  BY <1>1 DEF LinkIInv, HeldByHolder, FlowsHaveAccounts, LoneSignInIsNotRefused
<1>5. CookiesOK'
  <2>1. ASSUME NEW m \in Flows, flow[m].pc \in {"consent", "callback"}, m \notin disturbed'
        PROVE  cookie'[flow[m].at] = m
    <3>1. m \notin disturbed /\ m # cookie[b] /\ flow[m].at \in Browsers
      BY <1>1, <2>1 DEF LinkIInv, LinkTypeOK, Flow
    <3>2. cookie[flow[m].at] = m
      BY <2>1, <3>1 DEF LinkIInv, CookiesOK
    <3>3. QED BY <1>2, <3>1, <3>2
  <2>2. QED BY <1>1, <2>1 DEF LinkIInv, CookiesOK, Running
<1>6. QED BY <1>3, <1>4, <1>5 DEF LinkIInv

LEMMA OtherSteps ==
    ASSUME LinkIInv, NEW n \in Flows, Deny(n) \/ IssuePair(n) \/ FlowFails(n)
    PROVE  LinkIInv'
<1>1. CASE Deny(n)
  BY <1>1, EndStep DEF Deny
<1>2. CASE IssuePair(n)
  BY <1>2, GoneOn DEF IssuePair, Running
<1>3. CASE FlowFails(n)
  BY <1>3, Refused DEF FlowFails, Running
<1>4. QED BY <1>1, <1>2, <1>3

LEMMA LinkNextIInv == LinkIInv /\ [LinkNext]_linkVars => LinkIInv'
<1> SUFFICES ASSUME LinkIInv, [LinkNext]_linkVars PROVE LinkIInv'
  OBVIOUS
<1>1. CASE UNCHANGED linkVars
  BY <1>1 DEF linkVars, LinkIInv, LinkTypeOK, HeldByHolder, FlowsHaveAccounts, CookiesOK,
              LoneSignInIsNotRefused, Rows, Running
<1>2. ASSUME NEW n \in Flows, Step(n)
      PROVE  LinkIInv'
  BY <1>2, ConsentStep, CallbackStep, FindStep, LinkStep, ProbeStep, CreateStep, LandStep, OtherSteps
     DEF Step
<1>3. CASE LinkNext
  BY <1>2, <1>3, StartStep, ExpiryStep, RowActions DEF LinkNext
<1>4. QED BY <1>1, <1>3

THEOREM LinkInvariance == LinkSpec => []LinkIInv
<1>1. QED BY LinkInitIInv, LinkNextIInv, PTL DEF LinkSpec

(* Nobody gets, by signing in with Google, into an account whose password  *)
(* somebody else than the holder of its address has set, whatever is       *)
(* registered, confirmed and deleted between the statements of a sign-in;  *)
(* flows and sessions name rows there are, and just the active accounts    *)
(* have an address.                                                        *)
THEOREM OnlyTheHolderIsLinked == LinkSpec => []LinkedByHolder
<1>1. LinkIInv => LinkedByHolder
  BY DEF LinkIInv, HeldByHolder, LinkedByHolder
<1>2. QED BY <1>1, LinkInvariance, PTL

(* A sign-in whose cookie has not expired and that met no other flow of    *)
(* its browser is not refused for its state.                               *)
THEOREM AloneMeansAccepted == LinkSpec => []LoneSignInIsNotRefused
<1>1. LinkIInv => LoneSignInIsNotRefused
  BY DEF LinkIInv
<1>2. QED BY <1>1, LinkInvariance, PTL

=============================================================================
