------------------------------ MODULE SocialGraph ------------------------------
(***************************************************************************)
(* Follows, blocks and the follower counters of the profiles:              *)
(* FollowsService (follows/follows.service.ts) and BlockService            *)
(* (users/services/block.service.ts).                                      *)
(*                                                                         *)
(* A handler is a sequence of database statements; any other handler may   *)
(* run between two of them.  follow() and unfollow() move two counters in  *)
(* one transaction that locks the target's profile row, then the actor's,  *)
(* and keeps both until it commits; an inserted follow row that is not     *)
(* committed makes an insert of the same pair wait.  Two users who act on  *)
(* each other therefore lock in opposite orders: PostgreSQL's deadlock     *)
(* detector aborts one of the transactions.  block() runs one transaction  *)
(* on rows nobody keeps locked, and is one action.                         *)
(*                                                                         *)
(* Abstracted: user names (requireUser resolves them to ids that never     *)
(* change) and the notification that follow() sends after its commit.      *)
(***************************************************************************)
EXTENDS Integers, FiniteSets

CONSTANTS
    Users,
    NoUser,      \* the user fields of an idle slot
    Requests,    \* slots for concurrently running HTTP handlers
    Operations,  \* the routes that are called
    CanFail,     \* TRUE: a handler may die at an await
    CountBound   \* bound of the runs: no follow starts on a counter beyond it

Routes == {"follow", "unfollow", "block", "unblock"}

ASSUME SocialGraphAssumption ==
    /\ IsFiniteSet(Users) /\ NoUser \notin Users
    /\ IsFiniteSet(Requests)
    /\ Operations \subseteq Routes
    /\ CanFail \in BOOLEAN
    /\ CountBound \in Nat

VARIABLES
    follows,    \* Follow: pairs <<followerId, followingId>>
    blocks,     \* UserBlock: pairs <<blockerId, blockedId>>
    followers,  \* Profile.followersCount
    following,  \* Profile.followingCount
    req         \* the handlers in progress

counters == <<followers, following>>
vars == <<follows, blocks, counters, req>>

Idle == [pc |-> "idle", op |-> "follow", actor |-> NoUser, target |-> NoUser]

PC == {"idle", "checkBlocks", "insert", "delete", "lockTarget", "lockActor",
       "commit", "notify", "sever", "unblock", "ok", "error"}
Request == [pc : PC, op : Routes, actor : Users \cup {NoUser},
            target : Users \cup {NoUser}]

Pair(r) == <<req[r].actor, req[r].target>>
BlockedEitherWay(a, b) == <<a, b>> \in blocks \/ <<b, a>> \in blocks

\* The transactions that move counters: under way, and what they lock.
InCounterTx(r) == req[r].pc \in {"lockTarget", "lockActor", "commit"}
Locks(r, u) == \/ req[r].pc \in {"lockActor", "commit"} /\ req[r].target = u
               \/ req[r].pc = "commit" /\ req[r].actor = u
Inserting(r, p) == InCounterTx(r) /\ req[r].op = "follow" /\ Pair(r) = p

Waits(r, s) ==
    /\ s # r
    /\ \/ req[r].pc = "lockTarget" /\ Locks(s, req[r].target)
       \/ req[r].pc = "lockActor" /\ Locks(s, req[r].actor)
       \/ req[r].pc = "insert" /\ Inserting(s, Pair(r))
Runs(r) == \A s \in Requests : ~Waits(r, s)

-----------------------------------------------------------------------------
Init ==
    /\ follows = {}
    /\ blocks = {}
    /\ followers = [u \in Users |-> 0]
    /\ following = [u \in Users |-> 0]
    /\ req = [r \in Requests |-> Idle]

Enter(r, op, a, b, pc) ==
    req' = [req EXCEPT ![r] = [pc |-> pc, op |-> op, actor |-> a, target |-> b]]
Goto(r, pc) == req' = [req EXCEPT ![r].pc = pc]
Answer(r, a) ==
    req' = [req EXCEPT ![r] = [pc |-> a, op |-> "follow", actor |-> NoUser, target |-> NoUser]]

(* follow(): the target exists and is not the caller.                      *)
Follow(r, a, b) ==
    /\ req[r].pc = "idle"
    /\ followers[b] < CountBound /\ following[a] < CountBound
    /\ IF a = b THEN Answer(r, "error") ELSE Enter(r, "follow", a, b, "checkBlocks")
    /\ UNCHANGED <<follows, blocks, counters>>

\* Faulty variant: only the blocks of the target are looked at.
CheckBlocks_OneWay(r) ==
    /\ req[r].pc = "checkBlocks"
    /\ IF <<req[r].target, req[r].actor>> \in blocks THEN Answer(r, "error")
                                                     ELSE Goto(r, "insert")
    /\ UNCHANGED <<follows, blocks, counters>>

(* isBlockedEitherWay(), a query before and outside the transaction.       *)
CheckBlocks(r) ==
    /\ req[r].pc = "checkBlocks"
    /\ IF BlockedEitherWay(req[r].actor, req[r].target) THEN Answer(r, "error")
                                                        ELSE Goto(r, "insert")
    /\ UNCHANGED <<follows, blocks, counters>>

\* Faulty variant: a conflict is tried again instead of answered.
InsertFollow_Retry(r) ==
    /\ req[r].pc = "insert" /\ req[r].op = "follow" /\ Runs(r)
    /\ Goto(r, IF Pair(r) \in follows THEN "insert" ELSE "lockTarget")
    /\ UNCHANGED <<follows, blocks, counters>>

(* The transaction's first statement; a second follow is P2002, answered   *)
(* with 409.                                                               *)
InsertFollow(r) ==
    /\ req[r].pc = "insert" /\ req[r].op = "follow" /\ Runs(r)
    /\ IF Pair(r) \in follows THEN Answer(r, "error") ELSE Goto(r, "lockTarget")
    /\ UNCHANGED <<follows, blocks, counters>>

(* unfollow(): the target is looked up.                                    *)
Unfollow(r, a, b) ==
    /\ req[r].pc = "idle"
    /\ Enter(r, "unfollow", a, b, "delete")
    /\ UNCHANGED <<follows, blocks, counters>>

\* Faulty variant: the counters move whether or not a row was deleted.
DeleteFollow_AlwaysCount(r) ==
    /\ req[r].pc = "delete" /\ req[r].op = "unfollow"
    /\ follows' = follows \ {Pair(r)}
    /\ Goto(r, "lockTarget")
    /\ UNCHANGED <<blocks, counters>>

(* unfollow(): deleteMany commits by itself; no row, no second step.       *)
DeleteFollow(r) ==
    /\ req[r].pc = "delete" /\ req[r].op = "unfollow"
    /\ follows' = follows \ {Pair(r)}
    /\ IF Pair(r) \in follows THEN Goto(r, "lockTarget") ELSE Answer(r, "ok")
    /\ UNCHANGED <<blocks, counters>>

(* UPDATE of the target's profile: takes its row lock.                     *)
LockTarget(r) ==
    /\ req[r].pc = "lockTarget" /\ Runs(r)
    /\ Goto(r, "lockActor")
    /\ UNCHANGED <<follows, blocks, counters>>

(* UPDATE of the actor's profile.                                          *)
LockActor(r) ==
    /\ req[r].pc = "lockActor" /\ Runs(r)
    /\ Goto(r, "commit")
    /\ UNCHANGED <<follows, blocks, counters>>

\* Both counters of a pair move by d.
Count(a, b, d) ==
    /\ followers' = [followers EXCEPT ![b] = @ + d]
    /\ following' = [following EXCEPT ![a] = @ + d]

CommitFollow(r) ==
    /\ req[r].pc = "commit" /\ req[r].op = "follow"
    /\ follows' = follows \cup {Pair(r)}
    /\ Count(req[r].actor, req[r].target, 1)
    /\ Goto(r, "notify")
    /\ UNCHANGED blocks

CommitUnfollow(r) ==
    /\ req[r].pc = "commit" /\ req[r].op = "unfollow"
    /\ Count(req[r].actor, req[r].target, -1)
    /\ Answer(r, "ok")
    /\ UNCHANGED <<follows, blocks>>

(* notify() is awaited: the follow stands, the answer may still be a 500.  *)
Notify(r) ==
    /\ req[r].pc = "notify"
    /\ \E a \in {"ok", "error"} : Answer(r, a)
    /\ UNCHANGED <<follows, blocks, counters>>

-----------------------------------------------------------------------------
Block(r, a, b) ==
    /\ req[r].pc = "idle"
    /\ IF a = b THEN Answer(r, "error") ELSE Enter(r, "block", a, b, "sever")
    /\ UNCHANGED <<follows, blocks, counters>>

(* block(): "severs any follow relationship in both directions".           *)
Sever(r) ==
    /\ req[r].pc = "sever"
    /\ blocks' = blocks \cup {Pair(r)}
    /\ follows' = follows \ {Pair(r), <<req[r].target, req[r].actor>>}
    /\ Answer(r, "ok")
    /\ UNCHANGED counters

Unblock(r, a, b) ==
    /\ req[r].pc = "idle"
    /\ Enter(r, "unblock", a, b, "unblock")
    /\ UNCHANGED <<follows, blocks, counters>>

RemoveBlock(r) ==
    /\ req[r].pc = "unblock"
    /\ blocks' = blocks \ {Pair(r)}
    /\ Answer(r, "ok")
    /\ UNCHANGED <<follows, counters>>

-----------------------------------------------------------------------------
\* The transactions of S wait for each other, and nobody else's wait matters.
Cycle(S) ==
    /\ S # {}
    /\ \A r \in S : \E s \in S : Waits(r, s)
    /\ \A T \in SUBSET S : T # {} /\ (\A r \in T : \E s \in T : Waits(r, s)) => T = S

(* PostgreSQL: a transaction of a cycle is rolled back, its caller gets a  *)
(* 500; nothing of the transaction remains.                                *)
AbortDeadlocked(r) ==
    /\ \E S \in SUBSET Requests : r \in S /\ Cycle(S)
    /\ Answer(r, "error")
    /\ UNCHANGED <<follows, blocks, counters>>

(* The handler dies at an await; a transaction under way rolls back.       *)
Fail(r) ==
    /\ CanFail
    /\ req[r].pc \notin {"idle", "ok", "error"}
    /\ Answer(r, "error")
    /\ UNCHANGED <<follows, blocks, counters>>

Finish(r) ==
    /\ req[r].pc \in {"ok", "error"}
    /\ req' = [req EXCEPT ![r] = Idle]
    /\ UNCHANGED <<follows, blocks, counters>>

Arrive(r) ==
    \E a, b \in Users :
        \/ "follow" \in Operations /\ Follow(r, a, b)
        \/ "unfollow" \in Operations /\ Unfollow(r, a, b)
        \/ "block" \in Operations /\ Block(r, a, b)
        \/ "unblock" \in Operations /\ Unblock(r, a, b)

Proceed(r) ==
    \/ CheckBlocks(r) \/ InsertFollow(r) \/ DeleteFollow(r)
    \/ LockTarget(r) \/ LockActor(r)
    \/ CommitFollow(r) \/ CommitUnfollow(r) \/ Notify(r)
    \/ Sever(r) \/ RemoveBlock(r)
    \/ Finish(r)

Next == \E r \in Requests : Arrive(r) \/ Proceed(r) \/ AbortDeadlocked(r) \/ Fail(r)

Spec == Init /\ [][Next]_vars

\* Handlers run on, PostgreSQL grants a contended lock in the order of arrival
\* (so a waiter is served if the lock is freed again and again), and its
\* deadlock detector runs after deadlock_timeout.
Fairness == \A r \in Requests : SF_vars(Proceed(r)) /\ WF_vars(AbortDeadlocked(r))

FairSpec == Spec /\ Fairness

-----------------------------------------------------------------------------
(* Properties                                                              *)

UserPC == PC \ {"idle", "ok", "error"}

\* Every variable keeps its type; a handler in progress acts for a user on a user.
TypeOK ==
    /\ follows \subseteq Users \X Users
    /\ blocks \subseteq Users \X Users
    /\ followers \in [Users -> Int]
    /\ following \in [Users -> Int]
    /\ req \in [Requests -> Request]
    /\ \A r \in Requests : req[r].pc \in UserPC =>
          req[r].actor \in Users /\ req[r].target \in Users

FollowersOf(u) == {p \in follows : p[2] = u}
FollowedBy(u)  == {p \in follows : p[1] = u}

\* The handlers that have deleted a follow and not yet taken it off the counters.
Owing == {r \in Requests : req[r].op = "unfollow" /\ InCounterTx(r)}
OwingTarget(u) == {r \in Owing : req[r].target = u}
OwingActor(u)  == {r \in Owing : req[r].actor = u}

\* A profile never shows fewer followers (or followed users) than it has, and
\* hence no negative number: an unfollow takes off what a committed follow added,
\* once, however calls repeat, race, fail or deadlock.  (follows.service.ts:35-81)
CountersNeverUndercount ==
    \A u \in Users :
        /\ followers[u] >= Cardinality(FollowersOf(u)) + Cardinality(OwingTarget(u))
        /\ following[u] >= Cardinality(FollowedBy(u)) + Cardinality(OwingActor(u))

\* A handler past its block check, about to make a follow a.
PastCheck(a, b) == \E r \in Requests :
    /\ req[r].op = "follow" /\ Pair(r) = <<a, b>>
    /\ req[r].pc \in {"insert", "lockTarget", "lockActor", "commit"}

Severed(a, b) == /\ BlockedEitherWay(a, b)
                 /\ <<a, b>> \notin follows
                 /\ ~PastCheck(a, b)

\* Two users one of whom blocks the other stay strangers until the block is
\* lifted, once the follows that were past their check have ended.
\* (isBlockedEitherWay against block's deleteMany)
SeveredPairStaysSevered ==
    [][\A a, b \in Users :
          Severed(a, b) => Severed(a, b)' \/ ~BlockedEitherWay(a, b)']_vars

\* Every handler ends with an answer: two users who follow or unfollow each other
\* at the same time do not wait for each other for ever.
EveryRequestEnds == \A r \in Requests : req[r].pc # "idle" ~> req[r].pc = "idle"

=============================================================================
