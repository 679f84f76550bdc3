-------------------------- MODULE SocialGraphProofs --------------------------
(***************************************************************************)
(* Proofs about SocialGraph for any finite sets of users and of handlers,  *)
(* any routes, with or without failing handlers.                           *)
(***************************************************************************)
EXTENDS SocialGraph, FiniteSetTheorems, TLAPS

USE SocialGraphAssumption

-----------------------------------------------------------------------------
\* Only handler r moves, to a record nr.
Moves(r, nr) == req' = [req EXCEPT ![r] = nr]

LEMMA MovesType ==
    ASSUME TypeOK, NEW r \in Requests, NEW nr \in Request, Moves(r, nr),
           nr.pc \in UserPC => nr.actor \in Users /\ nr.target \in Users
    PROVE  /\ req' \in [Requests -> Request] /\ req'[r] = nr
           /\ \A s \in Requests : s # r => req'[s] = req[s]
           /\ \A s \in Requests : req'[s].pc \in UserPC =>
                 req'[s].actor \in Users /\ req'[s].target \in Users
BY DEF TypeOK, Moves

LEMMA AnswerMoves ==
    ASSUME TypeOK, NEW r \in Requests, NEW a \in {"ok", "error"}, Answer(r, a)
    PROVE  /\ req' \in [Requests -> Request] /\ req'[r].pc = a
           /\ \A s \in Requests : s # r => req'[s] = req[s]
           /\ \A s \in Requests : req'[s].pc \in UserPC =>
                 req'[s].actor \in Users /\ req'[s].target \in Users
<1> DEFINE nr == [pc |-> a, op |-> "follow", actor |-> NoUser, target |-> NoUser]
<1>1. nr \in Request /\ nr.pc = a /\ a \notin UserPC
  BY DEF Request, PC, Routes, UserPC
<1>2. Moves(r, nr)
  BY DEF Answer, Moves
<1> HIDE DEF nr
<1>3. QED BY <1>1, <1>2, MovesType

LEMMA FinishMoves ==
    ASSUME TypeOK, NEW r \in Requests, req' = [req EXCEPT ![r] = Idle]
    PROVE  /\ req' \in [Requests -> Request] /\ req'[r].pc = "idle"
           /\ \A s \in Requests : s # r => req'[s] = req[s]
           /\ \A s \in Requests : req'[s].pc \in UserPC =>
                 req'[s].actor \in Users /\ req'[s].target \in Users
<1>1. Idle \in Request /\ Idle.pc = "idle" /\ "idle" \notin UserPC
  BY DEF Idle, Request, PC, Routes, UserPC
<1>2. Moves(r, Idle)
  BY DEF Moves
<1>3. QED BY <1>1, <1>2, MovesType

LEMMA EnterMoves ==
    ASSUME TypeOK, NEW r \in Requests, NEW op \in Routes, NEW a \in Users,
           NEW b \in Users, NEW pc \in UserPC, Enter(r, op, a, b, pc)
    PROVE  /\ req' \in [Requests -> Request] /\ req'[r].pc = pc /\ req'[r].op = op
           /\ req'[r].actor = a /\ req'[r].target = b
           /\ \A s \in Requests : s # r => req'[s] = req[s]
           /\ \A s \in Requests : req'[s].pc \in UserPC =>
                 req'[s].actor \in Users /\ req'[s].target \in Users
<1> DEFINE nr == [pc |-> pc, op |-> op, actor |-> a, target |-> b]
<1>1. /\ nr \in Request /\ nr.actor \in Users /\ nr.target \in Users
      /\ nr.pc = pc /\ nr.op = op /\ nr.actor = a /\ nr.target = b
  BY DEF Request, UserPC
<1>2. Moves(r, nr)
  BY DEF Enter, Moves
<1> HIDE DEF nr
<1>3. QED BY <1>1, <1>2, MovesType

LEMMA GotoMoves ==
    ASSUME TypeOK, NEW r \in Requests, req[r].pc \in UserPC, NEW pc \in PC, Goto(r, pc)
    PROVE  /\ req' \in [Requests -> Request] /\ req'[r].pc = pc
           /\ req'[r].op = req[r].op
           /\ req'[r].actor = req[r].actor /\ req'[r].target = req[r].target
           /\ \A s \in Requests : s # r => req'[s] = req[s]
           /\ \A s \in Requests : req'[s].pc \in UserPC =>
                 req'[s].actor \in Users /\ req'[s].target \in Users
<1> DEFINE nr == [req[r] EXCEPT !.pc = pc]
<1>1. req[r] \in Request /\ req[r].actor \in Users /\ req[r].target \in Users
  BY DEF TypeOK
<1>2. /\ nr \in Request /\ nr.pc = pc /\ nr.op = req[r].op
      /\ nr.actor = req[r].actor /\ nr.target = req[r].target
  BY <1>1 DEF Request
<1>3. Moves(r, nr)
  BY DEF Goto, Moves
<1> HIDE DEF nr
<1>4. QED BY <1>1, <1>2, <1>3, MovesType

-----------------------------------------------------------------------------
(* Finite sets behind the counters                                         *)

LEMMA Finite ==
    ASSUME TypeOK, NEW u
    PROVE  /\ IsFiniteSet(FollowersOf(u)) /\ IsFiniteSet(FollowedBy(u))
           /\ IsFiniteSet(OwingTarget(u)) /\ IsFiniteSet(OwingActor(u))
           /\ Cardinality(FollowersOf(u)) \in Nat /\ Cardinality(FollowedBy(u)) \in Nat
           /\ Cardinality(OwingTarget(u)) \in Nat /\ Cardinality(OwingActor(u)) \in Nat
<1>1. IsFiniteSet(Users \X Users)
  BY FS_Product
<1>2. FollowersOf(u) \in SUBSET (Users \X Users) /\ FollowedBy(u) \in SUBSET (Users \X Users)
  BY DEF TypeOK, FollowersOf, FollowedBy
<1>3. OwingTarget(u) \in SUBSET Requests /\ OwingActor(u) \in SUBSET Requests
  BY DEF OwingTarget, OwingActor, Owing
<1>4. /\ IsFiniteSet(FollowersOf(u)) /\ IsFiniteSet(FollowedBy(u))
      /\ IsFiniteSet(OwingTarget(u)) /\ IsFiniteSet(OwingActor(u))
  BY <1>1, <1>2, <1>3, FS_Subset
<1>5. QED BY <1>4, FS_CardinalityType

\* What a step leaves behind: types, and counters that still cover their rows.
Good == TypeOK' /\ CountersNeverUndercount'

\* A step that adds no follow, moves no counter and lets nobody owe more.
LEMMA Shrinks ==
    ASSUME TypeOK, CountersNeverUndercount,
           follows' \subseteq follows, blocks' \subseteq Users \X Users,
           UNCHANGED counters,
           req' \in [Requests -> Request],
           \A s \in Requests : req'[s].pc \in UserPC =>
              req'[s].actor \in Users /\ req'[s].target \in Users,
           \A s \in Owing' : /\ s \in Owing /\ req'[s].target = req[s].target
                             /\ req'[s].actor = req[s].actor
    PROVE  Good
<1>1. TypeOK'
  BY DEF TypeOK, counters
<1>2. ASSUME NEW u \in Users
      PROVE  /\ followers'[u] >= Cardinality(FollowersOf(u)') + Cardinality(OwingTarget(u)')
             /\ following'[u] >= Cardinality(FollowedBy(u)') + Cardinality(OwingActor(u)')
  <2>1. /\ FollowersOf(u)' \in SUBSET FollowersOf(u)
        /\ FollowedBy(u)' \in SUBSET FollowedBy(u)
        /\ OwingTarget(u)' \in SUBSET OwingTarget(u)
        /\ OwingActor(u)' \in SUBSET OwingActor(u)
    BY DEF FollowersOf, FollowedBy, OwingTarget, OwingActor
  <2>2. /\ IsFiniteSet(FollowersOf(u)) /\ IsFiniteSet(FollowedBy(u))
        /\ IsFiniteSet(OwingTarget(u)) /\ IsFiniteSet(OwingActor(u))
        /\ Cardinality(FollowersOf(u)) \in Nat /\ Cardinality(FollowedBy(u)) \in Nat
        /\ Cardinality(OwingTarget(u)) \in Nat /\ Cardinality(OwingActor(u)) \in Nat
    BY Finite
  <2>3. /\ Cardinality(FollowersOf(u)') <= Cardinality(FollowersOf(u))
        /\ Cardinality(FollowedBy(u)') <= Cardinality(FollowedBy(u))
        /\ Cardinality(OwingTarget(u)') <= Cardinality(OwingTarget(u))
        /\ Cardinality(OwingActor(u)') <= Cardinality(OwingActor(u))
        /\ IsFiniteSet(FollowersOf(u)') /\ IsFiniteSet(FollowedBy(u)')
        /\ IsFiniteSet(OwingTarget(u)') /\ IsFiniteSet(OwingActor(u)')
    BY <2>1, <2>2, FS_Subset
  <2>4. /\ Cardinality(FollowersOf(u)') \in Nat /\ Cardinality(FollowedBy(u)') \in Nat
        /\ Cardinality(OwingTarget(u)') \in Nat /\ Cardinality(OwingActor(u)') \in Nat
    BY <2>3, FS_CardinalityType
  <2>5. /\ followers[u] >= Cardinality(FollowersOf(u)) + Cardinality(OwingTarget(u))
        /\ following[u] >= Cardinality(FollowedBy(u)) + Cardinality(OwingActor(u))
        /\ followers'[u] = followers[u] /\ following'[u] = following[u]
        /\ followers[u] \in Int /\ following[u] \in Int
    BY DEF CountersNeverUndercount, TypeOK, counters
  <2>6. QED BY <2>2, <2>3, <2>4, <2>5
<1>3. CountersNeverUndercount'
  BY <1>2 DEF CountersNeverUndercount
<1>4. QED BY <1>1, <1>3 DEF Good

\* A handler that answers owes nothing any more.
LEMMA AnswerShrinks ==
    ASSUME TypeOK, CountersNeverUndercount, NEW r \in Requests,
           NEW a \in {"ok", "error"}, Answer(r, a),
           follows' \subseteq follows, blocks' \subseteq Users \X Users,
           UNCHANGED counters
    PROVE  Good
<1>1. /\ req' \in [Requests -> Request] /\ req'[r].pc = a
      /\ \A s \in Requests : s # r => req'[s] = req[s]
      /\ \A s \in Requests : req'[s].pc \in UserPC =>
            req'[s].actor \in Users /\ req'[s].target \in Users
  BY AnswerMoves
<1>2. \A s \in Owing' : s \in Owing /\ req'[s].target = req[s].target
                                    /\ req'[s].actor = req[s].actor
  BY <1>1 DEF Owing, InCounterTx
<1>3. QED BY <1>1, <1>2, Shrinks

\* A handler that goes on, and does not start to owe.
LEMMA GotoShrinks ==
    ASSUME TypeOK, CountersNeverUndercount, NEW r \in Requests,
           NEW pc \in PC, req[r].pc \in UserPC, Goto(r, pc),
           InCounterTx(r) \/ req[r].op # "unfollow" \/ pc \in {"insert", "notify"},
           UNCHANGED <<follows, blocks, counters>>
    PROVE  Good
<1>1. /\ req' \in [Requests -> Request] /\ req'[r].pc = pc
      /\ req'[r].op = req[r].op
      /\ req'[r].actor = req[r].actor /\ req'[r].target = req[r].target
      /\ \A s \in Requests : s # r => req'[s] = req[s]
      /\ \A s \in Requests : req'[s].pc \in UserPC =>
            req'[s].actor \in Users /\ req'[s].target \in Users
  BY GotoMoves
<1>2. \A s \in Owing' : s \in Owing /\ req'[s].target = req[s].target
                                    /\ req'[s].actor = req[s].actor
  BY <1>1 DEF Owing, InCounterTx
<1>3. follows' \subseteq follows /\ blocks' \subseteq Users \X Users
  BY DEF TypeOK
<1>4. QED BY <1>1, <1>2, <1>3, Shrinks

-----------------------------------------------------------------------------
\* An unfollow takes the row away and owes the counters one.
LEMMA DeleteGood ==
    ASSUME TypeOK, CountersNeverUndercount, NEW r \in Requests, DeleteFollow(r)
    PROVE  Good
<1> DEFINE a == req[r].actor
           b == req[r].target
<1>1. a \in Users /\ b \in Users /\ req[r].pc \in UserPC /\ r \notin Owing
  BY DEF DeleteFollow, TypeOK, UserPC, PC, Owing, InCounterTx
<1>2. CASE Pair(r) \notin follows
  BY <1>2, AnswerShrinks DEF DeleteFollow, TypeOK
<1>3. CASE Pair(r) \in follows
  <2>1. /\ req' \in [Requests -> Request] /\ req'[r].pc = "lockTarget"
        /\ req'[r].op = req[r].op /\ req'[r].actor = a /\ req'[r].target = b
        /\ \A s \in Requests : s # r => req'[s] = req[s]
        /\ \A s \in Requests : req'[s].pc \in UserPC =>
              req'[s].actor \in Users /\ req'[s].target \in Users
    BY <1>1, <1>3, GotoMoves DEF DeleteFollow, PC
  <2>2. TypeOK'
    BY <2>1 DEF DeleteFollow, TypeOK, counters
  <2>3. \A s \in Owing' : /\ s \in Requests
                          /\ s = r => req'[s].actor = a /\ req'[s].target = b
                          /\ s # r => s \in Owing /\ req'[s] = req[s]
    BY <2>1 DEF Owing, InCounterTx
  <2>4. ASSUME NEW u \in Users
        PROVE  /\ followers'[u] >= Cardinality(FollowersOf(u)') + Cardinality(OwingTarget(u)')
               /\ following'[u] >= Cardinality(FollowedBy(u)') + Cardinality(OwingActor(u)')
    <3>1. /\ FollowersOf(u)' = FollowersOf(u) \ {Pair(r)}
          /\ FollowedBy(u)' = FollowedBy(u) \ {Pair(r)}
          /\ Pair(r) \in FollowersOf(u) <=> u = b
          /\ Pair(r) \in FollowedBy(u) <=> u = a
      BY <1>3 DEF DeleteFollow, FollowersOf, FollowedBy, Pair
    <3>2. /\ OwingTarget(u)' \in SUBSET (OwingTarget(u) \cup {r})
          /\ OwingActor(u)' \in SUBSET (OwingActor(u) \cup {r})
          /\ u # b => OwingTarget(u)' \in SUBSET OwingTarget(u)
          /\ u # a => OwingActor(u)' \in SUBSET OwingActor(u)
          /\ r \notin OwingTarget(u) /\ r \notin OwingActor(u)
      <4>1. r \notin OwingTarget(u) /\ r \notin OwingActor(u)
        BY <1>1 DEF OwingTarget, OwingActor
      <4>2. \A s \in OwingTarget(u)' : s \in OwingTarget(u) \/ (s = r /\ u = b)
        BY <2>3 DEF OwingTarget
      <4>3. \A s \in OwingActor(u)' : s \in OwingActor(u) \/ (s = r /\ u = a)
        BY <2>3 DEF OwingActor
      <4>4. QED BY <4>1, <4>2, <4>3
    <3>3. /\ IsFiniteSet(FollowersOf(u)) /\ IsFiniteSet(FollowedBy(u))
          /\ IsFiniteSet(OwingTarget(u)) /\ IsFiniteSet(OwingActor(u))
          /\ Cardinality(FollowersOf(u)) \in Nat /\ Cardinality(FollowedBy(u)) \in Nat
          /\ Cardinality(OwingTarget(u)) \in Nat /\ Cardinality(OwingActor(u)) \in Nat
      BY Finite
    <3>4. /\ Cardinality(FollowersOf(u)') = IF u = b THEN Cardinality(FollowersOf(u)) - 1
                                                     ELSE Cardinality(FollowersOf(u))
          /\ Cardinality(FollowedBy(u)') = IF u = a THEN Cardinality(FollowedBy(u)) - 1
                                                    ELSE Cardinality(FollowedBy(u))
      BY <3>1, <3>3, FS_RemoveElement
    <3>5. /\ Cardinality(OwingTarget(u) \cup {r}) = Cardinality(OwingTarget(u)) + 1
          /\ Cardinality(OwingActor(u) \cup {r}) = Cardinality(OwingActor(u)) + 1
          /\ IsFiniteSet(OwingTarget(u) \cup {r}) /\ IsFiniteSet(OwingActor(u) \cup {r})
      BY <3>2, <3>3, FS_AddElement
    <3>6. /\ Cardinality(OwingTarget(u)') <= Cardinality(OwingTarget(u)) + 1
          /\ Cardinality(OwingActor(u)') <= Cardinality(OwingActor(u)) + 1
          /\ u # b => Cardinality(OwingTarget(u)') <= Cardinality(OwingTarget(u))
          /\ u # a => Cardinality(OwingActor(u)') <= Cardinality(OwingActor(u))
      BY <3>2, <3>3, <3>5, FS_Subset
    <3>7. Cardinality(OwingTarget(u)') \in Nat /\ Cardinality(OwingActor(u)') \in Nat
      BY <3>2, <3>5, FS_Subset, FS_CardinalityType
    <3>8. /\ followers[u] >= Cardinality(FollowersOf(u)) + Cardinality(OwingTarget(u))
          /\ following[u] >= Cardinality(FollowedBy(u)) + Cardinality(OwingActor(u))
          /\ followers'[u] = followers[u] /\ following'[u] = following[u]
          /\ followers[u] \in Int /\ following[u] \in Int
      BY DEF DeleteFollow, CountersNeverUndercount, TypeOK, counters
    <3>9. QED BY <3>3, <3>4, <3>6, <3>7, <3>8
  <2>5. QED
    BY <2>2, <2>4 DEF Good, CountersNeverUndercount
<1>4. QED BY <1>2, <1>3

\* The counters of a pair move by d, all others stay.
LEMMA CountMoves ==
    ASSUME TypeOK, NEW a \in Users, NEW b \in Users, NEW d \in Int, Count(a, b, d)
    PROVE  /\ followers' \in [Users -> Int] /\ following' \in [Users -> Int]
           /\ followers'[b] = followers[b] + d /\ following'[a] = following[a] + d
           /\ \A u \in Users : u # b => followers'[u] = followers[u]
           /\ \A u \in Users : u # a => following'[u] = following[u]
BY DEF TypeOK, Count

LEMMA CommitFollowGood ==
    ASSUME TypeOK, CountersNeverUndercount, NEW r \in Requests, CommitFollow(r)
    PROVE  Good
<1> DEFINE a == req[r].actor
           b == req[r].target
<1>1. a \in Users /\ b \in Users /\ req[r].pc \in UserPC /\ req[r].op = "follow"
  BY DEF CommitFollow, TypeOK, UserPC, PC
<1>2. /\ req' \in [Requests -> Request] /\ req'[r].op = req[r].op
      /\ \A s \in Requests : s # r => req'[s] = req[s]
      /\ \A s \in Requests : req'[s].pc \in UserPC =>
            req'[s].actor \in Users /\ req'[s].target \in Users
  BY <1>1, GotoMoves DEF CommitFollow, PC
<1>3. /\ followers' \in [Users -> Int] /\ following' \in [Users -> Int]
      /\ followers'[b] = followers[b] + 1 /\ following'[a] = following[a] + 1
      /\ \A u \in Users : u # b => followers'[u] = followers[u]
      /\ \A u \in Users : u # a => following'[u] = following[u]
  BY <1>1, CountMoves DEF CommitFollow
<1>4. TypeOK'
  BY <1>1, <1>2, <1>3 DEF CommitFollow, TypeOK, Pair
<1>5. ASSUME NEW u \in Users
      PROVE  /\ followers'[u] >= Cardinality(FollowersOf(u)') + Cardinality(OwingTarget(u)')
             /\ following'[u] >= Cardinality(FollowedBy(u)') + Cardinality(OwingActor(u)')
  <2>1. /\ u = b => FollowersOf(u)' = FollowersOf(u) \cup {Pair(r)}
        /\ u # b => FollowersOf(u)' = FollowersOf(u)
        /\ u = a => FollowedBy(u)' = FollowedBy(u) \cup {Pair(r)}
        /\ u # a => FollowedBy(u)' = FollowedBy(u)
    BY DEF CommitFollow, FollowersOf, FollowedBy, Pair
  <2>2. OwingTarget(u)' = OwingTarget(u) /\ OwingActor(u)' = OwingActor(u)
    BY <1>1, <1>2 DEF OwingTarget, OwingActor, Owing, InCounterTx
  <2>3. /\ IsFiniteSet(FollowersOf(u)) /\ IsFiniteSet(FollowedBy(u))
        /\ Cardinality(FollowersOf(u)) \in Nat /\ Cardinality(FollowedBy(u)) \in Nat
        /\ Cardinality(OwingTarget(u)) \in Nat /\ Cardinality(OwingActor(u)) \in Nat
    BY Finite
  <2>4. /\ Cardinality(FollowersOf(u) \cup {Pair(r)})
             \in {Cardinality(FollowersOf(u)), Cardinality(FollowersOf(u)) + 1}
        /\ Cardinality(FollowedBy(u) \cup {Pair(r)})
             \in {Cardinality(FollowedBy(u)), Cardinality(FollowedBy(u)) + 1}
    BY <2>3, FS_AddElement
  <2>5. /\ followers[u] >= Cardinality(FollowersOf(u)) + Cardinality(OwingTarget(u))
        /\ following[u] >= Cardinality(FollowedBy(u)) + Cardinality(OwingActor(u))
        /\ followers[u] \in Int /\ following[u] \in Int
    BY DEF CountersNeverUndercount, TypeOK
  <2>6. followers'[u] >= Cardinality(FollowersOf(u)') + Cardinality(OwingTarget(u)')
    <3>1. CASE u = b
      <4>1. Cardinality(FollowersOf(u)') \in {Cardinality(FollowersOf(u)), Cardinality(FollowersOf(u)) + 1}
        BY <2>1, <2>4, <3>1
      <4>2. followers'[u] = followers[u] + 1
        BY <1>3, <3>1
      <4>3. Cardinality(OwingTarget(u)') = Cardinality(OwingTarget(u))
        BY <2>2
      <4>4. QED BY <2>3, <2>5, <4>1, <4>2, <4>3
    <3>2. CASE u # b
      BY <1>3, <2>1, <2>2, <2>5, <3>2
    <3>3. QED BY <3>1, <3>2
  <2>7. following'[u] >= Cardinality(FollowedBy(u)') + Cardinality(OwingActor(u)')
    <3>1. CASE u = a
      <4>1. Cardinality(FollowedBy(u)') \in {Cardinality(FollowedBy(u)), Cardinality(FollowedBy(u)) + 1}
        BY <2>1, <2>4, <3>1
      <4>2. following'[u] = following[u] + 1
        BY <1>3, <3>1
      <4>3. Cardinality(OwingActor(u)') = Cardinality(OwingActor(u))
        BY <2>2
      <4>4. QED BY <2>3, <2>5, <4>1, <4>2, <4>3
    <3>2. CASE u # a
      BY <1>3, <2>1, <2>2, <2>5, <3>2
    <3>3. QED BY <3>1, <3>2
  <2>8. QED BY <2>6, <2>7
<1>6. QED BY <1>4, <1>5 DEF Good, CountersNeverUndercount

\* The counters pay what the unfollow owed.
LEMMA CommitUnfollowGood ==
    ASSUME TypeOK, CountersNeverUndercount, NEW r \in Requests, CommitUnfollow(r)
    PROVE  Good
<1> DEFINE a == req[r].actor
           b == req[r].target
<1>1. a \in Users /\ b \in Users /\ r \in Owing
  BY DEF CommitUnfollow, TypeOK, UserPC, PC, Owing, InCounterTx
<1>2. /\ req' \in [Requests -> Request] /\ req'[r].pc = "ok"
      /\ \A s \in Requests : s # r => req'[s] = req[s]
      /\ \A s \in Requests : req'[s].pc \in UserPC =>
            req'[s].actor \in Users /\ req'[s].target \in Users
  BY AnswerMoves DEF CommitUnfollow
<1>3. /\ followers' \in [Users -> Int] /\ following' \in [Users -> Int]
      /\ followers'[b] = followers[b] - 1 /\ following'[a] = following[a] - 1
      /\ \A u \in Users : u # b => followers'[u] = followers[u]
      /\ \A u \in Users : u # a => following'[u] = following[u]
  <2>1. Count(a, b, -1)
    BY DEF CommitUnfollow
  <2>2. followers[b] \in Int /\ following[a] \in Int
    BY <1>1 DEF TypeOK
  <2>3. /\ followers' \in [Users -> Int] /\ following' \in [Users -> Int]
        /\ followers'[b] = followers[b] + (-1) /\ following'[a] = following[a] + (-1)
        /\ \A u \in Users : u # b => followers'[u] = followers[u]
        /\ \A u \in Users : u # a => following'[u] = following[u]
    BY <1>1, <2>1, CountMoves
  <2>4. QED BY <2>2, <2>3
<1>4. TypeOK'
  BY <1>2, <1>3 DEF CommitUnfollow, TypeOK
<1>5. ASSUME NEW u \in Users
      PROVE  /\ followers'[u] >= Cardinality(FollowersOf(u)') + Cardinality(OwingTarget(u)')
             /\ following'[u] >= Cardinality(FollowedBy(u)') + Cardinality(OwingActor(u)')
  <2>1. FollowersOf(u)' = FollowersOf(u) /\ FollowedBy(u)' = FollowedBy(u)
    BY DEF CommitUnfollow, FollowersOf, FollowedBy
  <2>2. Owing' = Owing \ {r}
    BY <1>2 DEF Owing, InCounterTx
  <2>3. /\ OwingTarget(u)' = OwingTarget(u) \ {r} /\ OwingActor(u)' = OwingActor(u) \ {r}
        /\ r \in OwingTarget(u) <=> u = b
        /\ r \in OwingActor(u) <=> u = a
    <3>1. \A s \in Owing' : s # r /\ req'[s] = req[s] /\ s \in Requests
      BY <1>2, <2>2 DEF Owing
    <3>2. QED BY <1>1, <2>2, <3>1 DEF OwingTarget, OwingActor
  <2>4. /\ IsFiniteSet(OwingTarget(u)) /\ IsFiniteSet(OwingActor(u))
        /\ Cardinality(FollowersOf(u)) \in Nat /\ Cardinality(FollowedBy(u)) \in Nat
        /\ Cardinality(OwingTarget(u)) \in Nat /\ Cardinality(OwingActor(u)) \in Nat
    BY Finite
  <2>5. /\ Cardinality(OwingTarget(u)') = IF u = b THEN Cardinality(OwingTarget(u)) - 1
                                                   ELSE Cardinality(OwingTarget(u))
        /\ Cardinality(OwingActor(u)') = IF u = a THEN Cardinality(OwingActor(u)) - 1
                                                  ELSE Cardinality(OwingActor(u))
    BY <2>3, <2>4, FS_RemoveElement
  <2>6. /\ followers[u] >= Cardinality(FollowersOf(u)) + Cardinality(OwingTarget(u))
        /\ following[u] >= Cardinality(FollowedBy(u)) + Cardinality(OwingActor(u))
        /\ followers[u] \in Int /\ following[u] \in Int
    BY DEF CountersNeverUndercount, TypeOK
  <2>7. followers'[u] >= Cardinality(FollowersOf(u)') + Cardinality(OwingTarget(u)')
    <3>1. CASE u = b
      BY <1>3, <2>1, <2>4, <2>5, <2>6, <3>1
    <3>2. CASE u # b
      BY <1>3, <2>1, <2>5, <2>6, <3>2
    <3>3. QED BY <3>1, <3>2
  <2>8. following'[u] >= Cardinality(FollowedBy(u)') + Cardinality(OwingActor(u)')
    <3>1. CASE u = a
      BY <1>3, <2>1, <2>4, <2>5, <2>6, <3>1
    <3>2. CASE u # a
      BY <1>3, <2>1, <2>5, <2>6, <3>2
    <3>3. QED BY <3>1, <3>2
  <2>9. QED BY <2>7, <2>8
<1>6. QED BY <1>4, <1>5 DEF Good, CountersNeverUndercount

-----------------------------------------------------------------------------
\* A handler that starts owes nothing.
LEMMA EnterShrinks ==
    ASSUME TypeOK, CountersNeverUndercount, NEW r \in Requests, NEW op \in Routes,
           NEW a \in Users, NEW b \in Users,
           NEW pc \in {"checkBlocks", "delete", "sever", "unblock"},
           Enter(r, op, a, b, pc), UNCHANGED <<follows, blocks, counters>>
    PROVE  Good
<1>1. pc \in UserPC
  BY DEF UserPC, PC
<1>2. /\ req' \in [Requests -> Request] /\ req'[r].pc = pc
      /\ \A s \in Requests : s # r => req'[s] = req[s]
      /\ \A s \in Requests : req'[s].pc \in UserPC =>
            req'[s].actor \in Users /\ req'[s].target \in Users
  BY <1>1, EnterMoves
<1>3. \A s \in Owing' : s \in Owing /\ req'[s].target = req[s].target
                                    /\ req'[s].actor = req[s].actor
  BY <1>2 DEF Owing, InCounterTx
<1>4. follows' \subseteq follows /\ blocks' \subseteq Users \X Users
  BY DEF TypeOK
<1>5. QED BY <1>2, <1>3, <1>4, Shrinks

LEMMA AnswerGood ==
    ASSUME TypeOK, CountersNeverUndercount, NEW r \in Requests,
           NEW a \in {"ok", "error"}, Answer(r, a), UNCHANGED <<follows, blocks, counters>>
    PROVE  Good
BY AnswerShrinks DEF TypeOK

LEMMA ArriveGood ==
    ASSUME TypeOK, CountersNeverUndercount, NEW r \in Requests, Arrive(r)
    PROVE  Good
<1>1. PICK a \in Users, b \in Users :
        Follow(r, a, b) \/ Unfollow(r, a, b) \/ Block(r, a, b) \/ Unblock(r, a, b)
  BY DEF Arrive
<1>2. CASE Follow(r, a, b)
  BY <1>2, AnswerGood, EnterShrinks DEF Follow, Routes
<1>3. CASE Unfollow(r, a, b)
  BY <1>3, EnterShrinks DEF Unfollow, Routes
<1>4. CASE Block(r, a, b)
  BY <1>4, AnswerGood, EnterShrinks DEF Block, Routes
<1>5. CASE Unblock(r, a, b)
  BY <1>5, EnterShrinks DEF Unblock, Routes
<1>6. QED BY <1>1, <1>2, <1>3, <1>4, <1>5

LEMMA ProceedGood ==
    ASSUME TypeOK, CountersNeverUndercount, NEW r \in Requests, Proceed(r)
    PROVE  Good
<1>1. CASE CheckBlocks(r)
  <2>1. req[r].pc \in UserPC /\ "insert" \in PC
    BY <1>1 DEF CheckBlocks, UserPC, PC
  <2>2. QED BY <1>1, <2>1, AnswerGood, GotoShrinks DEF CheckBlocks
<1>2. CASE InsertFollow(r)
  <2>1. CASE Answer(r, "error")
    BY <1>2, <2>1, AnswerGood DEF InsertFollow
  <2>2. CASE Goto(r, "lockTarget")
    <3>1. /\ req' \in [Requests -> Request] /\ req'[r].op = req[r].op
          /\ \A s \in Requests : s # r => req'[s] = req[s]
          /\ \A s \in Requests : req'[s].pc \in UserPC =>
                req'[s].actor \in Users /\ req'[s].target \in Users
      BY <1>2, <2>2, GotoMoves DEF InsertFollow, UserPC, PC
    <3>2. req[r].op = "follow"
      BY <1>2 DEF InsertFollow
    <3>3. \A s \in Owing' : s \in Owing /\ req'[s].target = req[s].target
                                        /\ req'[s].actor = req[s].actor
      BY <3>1, <3>2 DEF Owing, InCounterTx
    <3>4. follows' \subseteq follows /\ blocks' \subseteq Users \X Users
          /\ UNCHANGED counters
      BY <1>2 DEF InsertFollow, TypeOK
    <3>5. QED BY <3>1, <3>3, <3>4, Shrinks
  <2>3. QED BY <1>2, <2>1, <2>2 DEF InsertFollow
<1>3. CASE LockTarget(r)
  BY <1>3, GotoShrinks DEF LockTarget, UserPC, PC, InCounterTx
<1>4. CASE LockActor(r)
  BY <1>4, GotoShrinks DEF LockActor, UserPC, PC, InCounterTx
<1>5. CASE Notify(r)
  BY <1>5, AnswerGood DEF Notify
<1>6. CASE Sever(r)
  <2>1. Pair(r) \in Users \X Users
    BY <1>6 DEF Sever, TypeOK, Pair, UserPC, PC
  <2>2. QED BY <1>6, <2>1, AnswerShrinks DEF Sever, TypeOK
<1>7. CASE RemoveBlock(r)
  BY <1>7, AnswerShrinks DEF RemoveBlock, TypeOK
<1>8. CASE Finish(r)
  <2>1. /\ req' \in [Requests -> Request] /\ req'[r].pc = "idle"
        /\ \A s \in Requests : s # r => req'[s] = req[s]
        /\ \A s \in Requests : req'[s].pc \in UserPC =>
              req'[s].actor \in Users /\ req'[s].target \in Users
    BY <1>8, FinishMoves DEF Finish
  <2>2. \A s \in Owing' : s \in Owing /\ req'[s].target = req[s].target
                                      /\ req'[s].actor = req[s].actor
    BY <2>1 DEF Owing, InCounterTx
  <2>3. follows' \subseteq follows /\ blocks' \subseteq Users \X Users /\ UNCHANGED counters
    BY <1>8 DEF Finish, TypeOK
  <2>4. QED BY <2>1, <2>2, <2>3, Shrinks
<1>9. QED
  BY <1>1, <1>2, <1>3, <1>4, <1>5, <1>6, <1>7, <1>8, DeleteGood, CommitFollowGood,
     CommitUnfollowGood DEF Proceed

-----------------------------------------------------------------------------
(* Type correctness and the counters                                       *)

IInv == TypeOK /\ CountersNeverUndercount

LEMMA InitInv == Init => IInv
<1> SUFFICES ASSUME Init PROVE IInv
  OBVIOUS
<1>1. \A r \in Requests : req[r] = Idle
  BY DEF Init
<1>2. Idle \in Request /\ Idle.pc = "idle" /\ "idle" \notin UserPC
  BY DEF Idle, Request, PC, Routes, UserPC
<1>3. TypeOK
  BY <1>1, <1>2 DEF Init, TypeOK
<1>4. ASSUME NEW u \in Users
      PROVE  /\ FollowersOf(u) = {} /\ FollowedBy(u) = {}
             /\ OwingTarget(u) = {} /\ OwingActor(u) = {}
             /\ followers[u] = 0 /\ following[u] = 0
  BY <1>1, <1>2 DEF Init, FollowersOf, FollowedBy, OwingTarget, OwingActor, Owing,
     InCounterTx
<1>5. CountersNeverUndercount
  BY <1>4, FS_EmptySet DEF CountersNeverUndercount
<1>6. QED BY <1>3, <1>5 DEF IInv

LEMMA NextInv == IInv /\ [Next]_vars => IInv'
<1> SUFFICES ASSUME IInv, [Next]_vars PROVE IInv'
  OBVIOUS
<1>1. TypeOK /\ CountersNeverUndercount
  BY DEF IInv
<1>2. CASE UNCHANGED vars
  BY <1>2 DEF vars, counters, IInv, TypeOK, CountersNeverUndercount, FollowersOf,
     FollowedBy, OwingTarget, OwingActor, Owing, InCounterTx
<1>3. ASSUME NEW r \in Requests, AbortDeadlocked(r) PROVE Good
  BY <1>1, <1>3, AnswerGood DEF AbortDeadlocked
<1>4. ASSUME NEW r \in Requests, Fail(r) PROVE Good
  BY <1>1, <1>4, AnswerGood DEF Fail
<1>5. CASE Next
  <2>1. Good
    BY <1>1, <1>3, <1>4, <1>5, ArriveGood, ProceedGood DEF Next
  <2>2. QED BY <2>1 DEF Good, IInv
<1>6. QED BY <1>2, <1>5

LEMMA Invariance == Spec => []IInv
BY InitInv, NextInv, PTL DEF Spec

\* Every variable keeps its type, for any finite sets of users and handlers.
THEOREM TypeCorrect == Spec => []TypeOK
<1>1. IInv => TypeOK
  BY DEF IInv
<1>2. QED BY <1>1, Invariance, PTL

\* A profile never shows fewer followers than it has, nor a negative number.
THEOREM NeverUndercount == Spec => []CountersNeverUndercount
<1>1. IInv => CountersNeverUndercount
  BY DEF IInv
<1>2. QED BY <1>1, Invariance, PTL

-----------------------------------------------------------------------------
(* Blocks                                                                  *)

\* A handler that checks its rights: past the check, or not.
PastPC == {"insert", "lockTarget", "lockActor", "commit"}

\* A handler gets past its check only by finding no block, and keeps its pair.
LEMMA CheckStep ==
    ASSUME TypeOK, NEW r \in Requests,
           Arrive(r) \/ Proceed(r) \/ AbortDeadlocked(r) \/ Fail(r)
    PROVE  /\ \A s \in Requests : s # r => req'[s] = req[s]
           /\ req'[r].op = "follow" /\ req'[r].pc \in PastPC =>
                /\ Pair(r)' = Pair(r) /\ req[r].op = "follow"
                /\ \/ req[r].pc \in PastPC
                   \/ ~BlockedEitherWay(req[r].actor, req[r].target)
<1>1. ASSUME NEW a \in {"ok", "error"}, Answer(r, a)
      PROVE  req'[r].pc \notin PastPC /\ \A s \in Requests : s # r => req'[s] = req[s]
  BY <1>1, AnswerMoves DEF PastPC
<1>2. ASSUME NEW op \in Routes, NEW a \in Users, NEW b \in Users,
             NEW pc \in {"checkBlocks", "delete", "sever", "unblock"},
             Enter(r, op, a, b, pc)
      PROVE  req'[r].pc \notin PastPC /\ \A s \in Requests : s # r => req'[s] = req[s]
  BY <1>2, EnterMoves DEF PastPC, UserPC, PC
<1>3. ASSUME NEW pc \in PC, req[r].pc \in UserPC, Goto(r, pc)
      PROVE  /\ req'[r].pc = pc /\ req'[r].op = req[r].op /\ Pair(r)' = Pair(r)
             /\ \A s \in Requests : s # r => req'[s] = req[s]
  BY <1>3, GotoMoves DEF Pair
<1>4. CASE Arrive(r)
  BY <1>1, <1>2, <1>4 DEF Arrive, Follow, Unfollow, Block, Unblock, Routes
<1>5. CASE CheckBlocks(r)
  BY <1>1, <1>3, <1>5 DEF CheckBlocks, UserPC, PC, PastPC, TypeOK
<1>6. CASE InsertFollow(r)
  BY <1>1, <1>3, <1>6 DEF InsertFollow, UserPC, PC, PastPC
<1>7. CASE DeleteFollow(r)
  BY <1>1, <1>3, <1>7 DEF DeleteFollow, UserPC, PC, PastPC
<1>8. CASE LockTarget(r) \/ LockActor(r)
  BY <1>3, <1>8 DEF LockTarget, LockActor, UserPC, PC, PastPC
<1>9. CASE CommitFollow(r)
  BY <1>3, <1>9 DEF CommitFollow, UserPC, PC, PastPC
<1>10. CASE CommitUnfollow(r) \/ Notify(r) \/ Sever(r) \/ RemoveBlock(r)
            \/ AbortDeadlocked(r) \/ Fail(r)
  BY <1>1, <1>10 DEF CommitUnfollow, Notify, Sever, RemoveBlock, AbortDeadlocked, Fail
<1>11. CASE Finish(r)
  BY <1>11, FinishMoves DEF Finish, PastPC
<1>12. CASE Proceed(r)
  <2>1. \/ CheckBlocks(r) \/ InsertFollow(r) \/ DeleteFollow(r)
        \/ LockTarget(r) \/ LockActor(r)
        \/ CommitFollow(r) \/ CommitUnfollow(r) \/ Notify(r)
        \/ Sever(r) \/ RemoveBlock(r) \/ Finish(r)
    BY <1>12 DEF Proceed
  <2>2. QED BY <1>5, <1>6, <1>7, <1>8, <1>9, <1>10, <1>11, <2>1
<1>13. QED BY <1>4, <1>10, <1>12

\* Only a handler past its check makes a follow.
LEMMA FollowStep ==
    ASSUME TypeOK, Next, NEW p \in follows', p \notin follows
    PROVE  \E r \in Requests : req[r].op = "follow" /\ req[r].pc \in PastPC /\ Pair(r) = p
<1>1. PICK r \in Requests : Arrive(r) \/ Proceed(r) \/ AbortDeadlocked(r) \/ Fail(r)
  BY DEF Next
<1>2. CASE CommitFollow(r)
  BY <1>2 DEF CommitFollow, PastPC
<1>3. CASE ~CommitFollow(r)
  BY <1>1, <1>3 DEF Arrive, Follow, Unfollow, Block, Unblock, Proceed, CheckBlocks,
     InsertFollow, DeleteFollow, LockTarget, LockActor, CommitUnfollow, Notify, Sever,
     RemoveBlock, AbortDeadlocked, Fail, Finish
<1>4. QED BY <1>2, <1>3

LEMMA SeveredStep ==
    ASSUME TypeOK, Next, NEW a \in Users, NEW b \in Users, Severed(a, b),
           BlockedEitherWay(a, b)'
    PROVE  Severed(a, b)'
<1>1. <<a, b>> \notin follows'
  BY FollowStep DEF Severed, PastCheck, PastPC
<1>2. ~PastCheck(a, b)'
  <2>1. PICK r \in Requests : Arrive(r) \/ Proceed(r) \/ AbortDeadlocked(r) \/ Fail(r)
    BY DEF Next
  <2>2. /\ \A s \in Requests : s # r => req'[s] = req[s]
        /\ req'[r].op = "follow" /\ req'[r].pc \in PastPC =>
             /\ Pair(r)' = Pair(r) /\ req[r].op = "follow"
             /\ \/ req[r].pc \in PastPC
                \/ ~BlockedEitherWay(req[r].actor, req[r].target)
    BY <2>1, CheckStep
  <2>3. SUFFICES ASSUME NEW s \in Requests, req'[s].op = "follow", Pair(s)' = <<a, b>>,
                        req'[s].pc \in PastPC
                 PROVE  FALSE
    BY DEF PastCheck, PastPC
  <2>4. CASE s # r
    <3>1. req'[s] = req[s]
      BY <2>2, <2>4
    <3>2. req[s].op = "follow" /\ Pair(s) = <<a, b>> /\ req[s].pc \in PastPC
      BY <2>3, <3>1 DEF Pair
    <3>3. QED BY <3>2 DEF Severed, PastCheck, PastPC
  <2>5. CASE s = r
    <3>1. /\ Pair(r) = <<a, b>> /\ req[r].op = "follow"
          /\ req[r].pc \in PastPC \/ ~BlockedEitherWay(req[r].actor, req[r].target)
      BY <2>2, <2>3, <2>5
    <3>2. req[r].actor = a /\ req[r].target = b
      BY <3>1 DEF Pair
    <3>3. req[r].pc \in PastPC
      BY <3>1, <3>2 DEF Severed
    <3>4. QED BY <3>1, <3>3 DEF Severed, PastCheck, PastPC
  <2>6. QED BY <2>4, <2>5
<1>3. QED BY <1>1, <1>2 DEF Severed

\* Users separated by a block stay so until it is lifted, whatever interleaves.
THEOREM SeveredPairs == Spec => SeveredPairStaysSevered
<1>1. IInv /\ [Next]_vars =>
        [\A a, b \in Users :
            Severed(a, b) => Severed(a, b)' \/ ~BlockedEitherWay(a, b)']_vars
  BY SeveredStep DEF IInv
<1>2. QED BY <1>1, Invariance, PTL DEF Spec, SeveredPairStaysSevered

=============================================================================
