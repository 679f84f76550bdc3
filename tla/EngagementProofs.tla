-------------------------- MODULE EngagementProofs --------------------------
(***************************************************************************)
(* Proofs about Engagement for any finite set of users, any reaction types *)
(* and any number of concurrent handlers.                                  *)
(***************************************************************************)
EXTENDS Engagement, FiniteSetTheorems, TLAPS

USE EngagementAssumption

-----------------------------------------------------------------------------
\* A handler that starts, moves on or answers keeps the type of its record.
LEMMA AnswerType ==
    ASSUME TypeOK, NEW r \in Requests, NEW a \in Answers, Answer(r, a)
    PROVE  /\ req' \in [Requests -> Request]
           /\ req'[r].pc = "answered"
           /\ \A s \in Requests : s # r => req'[s] = req[s]
BY DEF TypeOK, Answer, Request, Ops

LEMMA EnterType ==
    ASSUME TypeOK, NEW r \in Requests, NEW op \in Ops, NEW u \in Users,
           NEW type \in Types, Enter(r, op, u, type)
    PROVE  /\ req' \in [Requests -> Request]
           /\ req'[r].pc = "lookup" /\ req'[r].user = u /\ req'[r].op = op
           /\ \A s \in Requests : s # r => req'[s] = req[s]
BY DEF TypeOK, Enter, Request, Answers

LEMMA LookedType ==
    ASSUME TypeOK, NEW r \in Requests, NEW i \in Ids \cup {NoId}, Looked(r, i)
    PROVE  /\ req' \in [Requests -> Request]
           /\ req'[r].pc = "commit" /\ req'[r].op = req[r].op
           /\ req'[r].user = req[r].user
           /\ \A s \in Requests : s # r => req'[s] = req[s]
<1>1. req \in [Requests -> Request] /\ req[r] \in Request
  BY DEF TypeOK
<1>2. req' = [req EXCEPT ![r] = [req[r] EXCEPT !.pc = "commit", !.seen = i]]
  BY <1>1 DEF Looked
<1>3. [req[r] EXCEPT !.pc = "commit", !.seen = i] \in Request
  BY <1>1 DEF Request
<1>4. QED
  BY <1>1, <1>2, <1>3 DEF Request

\* Only handler r moves: its new record decides the requests' part of TypeOK.
LEMMA UsersFrame ==
    ASSUME TypeOK, NEW r \in Requests,
           \A s \in Requests : s # r => req'[s] = req[s],
           req'[r].pc \in {"lookup", "commit"} => req'[r].user \in Users
    PROVE  \A s \in Requests : req'[s].pc \in {"lookup", "commit"} => req'[s].user \in Users
BY DEF TypeOK

LEMMA IdleType == Idle \in Request /\ NoJob \in Job /\ NoRow \in Row
BY DEF Idle, Request, Ops, Answers, NoJob, Job, NoRow, Row

LEMMA CountTypes ==
    /\ Cardinality(Reacted) \in Nat /\ IsFiniteSet(Reacted)
    /\ Cardinality(Bookmarked) \in Nat /\ IsFiniteSet(Bookmarked)
<1>1. Reacted \in SUBSET Users /\ Bookmarked \in SUBSET Users
  BY DEF Reacted, Bookmarked
<1>2. IsFiniteSet(Reacted) /\ IsFiniteSet(Bookmarked)
  BY <1>1, FS_Subset
<1>3. QED
  BY <1>2, FS_CardinalityType

-----------------------------------------------------------------------------
\* One user's row is written: the set of reacting users moves by that user.
LEMMA ReactionWritten ==
    ASSUME TypeOK, NEW u \in Users, NEW row \in Row,
           reaction' = [reaction EXCEPT ![u] = row]
    PROVE  /\ reaction' \in [Users -> Row]
           /\ row.id = NoId => Reacted' = Reacted \ {u}
           /\ row.id # NoId => Reacted' = Reacted \cup {u}
           /\ u \in Reacted <=> reaction[u].id # NoId
BY DEF TypeOK, Reacted

LEMMA BookmarkWritten ==
    ASSUME TypeOK, NEW u \in Users, NEW i \in Ids \cup {NoId},
           bookmark' = [bookmark EXCEPT ![u] = i]
    PROVE  /\ bookmark' \in [Users -> Ids \cup {NoId}]
           /\ i = NoId => Bookmarked' = Bookmarked \ {u}
           /\ i # NoId => Bookmarked' = Bookmarked \cup {u}
           /\ u \in Bookmarked <=> bookmark[u] # NoId
BY DEF TypeOK, Bookmarked

\* What any step of a handler leaves behind: the types, the distance between
\* each counter and its rows, and a note for the job if a row changed.
Balanced ==
    /\ TypeOK'
    /\ likesCount' - Cardinality(Reacted') = likesCount - Cardinality(Reacted)
    /\ bookmarksCount' - Cardinality(Bookmarked')
          = bookmarksCount - Cardinality(Bookmarked)
    /\ job' = job
    /\ UNCHANGED <<rows, counters, overtaken>> \/ overtaken'

\* A step that touches neither rows nor counters is balanced.
LEMMA Untouched ==
    ASSUME TypeOK, UNCHANGED <<removed, rows, counters, jobVars>>,
           req' \in [Requests -> Request],
           \A s \in Requests : req'[s].pc \in {"lookup", "commit"} => req'[s].user \in Users
    PROVE  Balanced
<1>1. TypeOK'
  BY DEF TypeOK, rows, counters, jobVars
<1>2. Reacted' = Reacted /\ Bookmarked' = Bookmarked
  BY DEF Reacted, Bookmarked, rows
<1>3. QED
  BY <1>1, <1>2 DEF Balanced, rows, counters, jobVars

LEMMA AnswerUntouched ==
    ASSUME TypeOK, NEW r \in Requests, NEW a \in Answers, Answer(r, a),
           UNCHANGED <<removed, rows, counters, jobVars>>
    PROVE  Balanced
BY AnswerType, UsersFrame, Untouched

LEMMA RollsBackBalanced ==
    ASSUME TypeOK, NEW r \in Requests, RollsBack(r)
    PROVE  Balanced
BY AnswerUntouched DEF RollsBack, Answers

-----------------------------------------------------------------------------
LEMMA ArriveBalanced ==
    ASSUME TypeOK, NEW r \in Requests, NEW op \in Ops, NEW u \in Users,
           NEW type \in Types, Arrive(r, op, u, type)
    PROVE  Balanced
<1>1. CASE Answer(r, "error")
  BY <1>1, AnswerUntouched DEF Arrive, Answers
<1>2. CASE Enter(r, op, u, type)
  <2>1. req' \in [Requests -> Request]
    BY <1>2, EnterType
  <2>2. \A s \in Requests : req'[s].pc \in {"lookup", "commit"} => req'[s].user \in Users
    BY <1>2, EnterType, UsersFrame
  <2>3. QED BY <2>1, <2>2, Untouched DEF Arrive
<1>3. QED BY <1>1, <1>2 DEF Arrive

LEMMA LookupBalanced ==
    ASSUME TypeOK, NEW r \in Requests, Lookup(r)
    PROVE  Balanced
<1> DEFINE i == RowOf(req[r].op, req[r].user)
<1>1. req[r].user \in Users
  BY DEF TypeOK, Lookup
<1>2. i \in Ids \cup {NoId}
  BY <1>1 DEF TypeOK, RowOf, Row
<1>3. CASE Answer(r, "off")
  BY <1>3, AnswerUntouched DEF Lookup, Answers
<1>4. CASE Looked(r, i)
  <2>1. req' \in [Requests -> Request]
    BY <1>2, <1>4, LookedType
  <2>2. \A s \in Requests : req'[s].pc \in {"lookup", "commit"} => req'[s].user \in Users
    BY <1>1, <1>2, <1>4, LookedType, UsersFrame
  <2>3. QED BY <2>1, <2>2, Untouched DEF Lookup
<1>5. QED BY <1>3, <1>4 DEF Lookup

\* A committed transaction that writes one reaction row and moves the counter
\* by what the row's presence changed.
LEMMA ReactionCommits ==
    ASSUME TypeOK, NEW r \in Requests, NEW a \in Answers, NEW u \in Users,
           NEW row \in Row, reaction' = [reaction EXCEPT ![u] = row],
           \/ row.id = NoId /\ reaction[u].id # NoId /\ likesCount' = likesCount - 1
           \/ row.id # NoId /\ reaction[u].id = NoId /\ likesCount' = likesCount + 1
           \/ row.id # NoId /\ reaction[u].id # NoId /\ likesCount' = likesCount,
           Commits(r, a), UNCHANGED <<bookmark, bookmarksCount>>
    PROVE  Balanced
<1>1. /\ reaction' \in [Users -> Row]
      /\ row.id = NoId => Reacted' = Reacted \ {u}
      /\ row.id # NoId => Reacted' = Reacted \cup {u}
      /\ u \in Reacted <=> reaction[u].id # NoId
  BY ReactionWritten
<1>2. likesCount \in Int /\ Cardinality(Reacted) \in Nat /\ IsFiniteSet(Reacted)
  BY CountTypes DEF TypeOK
<1>3. likesCount' - Cardinality(Reacted') = likesCount - Cardinality(Reacted)
  <2>1. Cardinality(Reacted \ {u})
          = IF u \in Reacted THEN Cardinality(Reacted) - 1 ELSE Cardinality(Reacted)
    BY <1>2, FS_RemoveElement
  <2>2. Cardinality(Reacted \cup {u})
          = IF u \in Reacted THEN Cardinality(Reacted) ELSE Cardinality(Reacted) + 1
    BY <1>2, FS_AddElement
  <2>3. CASE row.id = NoId /\ reaction[u].id # NoId /\ likesCount' = likesCount - 1
    <3>1. Cardinality(Reacted') = Cardinality(Reacted) - 1
      BY <1>1, <2>1, <2>3
    <3>2. QED BY <1>2, <2>3, <3>1
  <2>4. CASE row.id # NoId /\ reaction[u].id = NoId /\ likesCount' = likesCount + 1
    <3>1. Cardinality(Reacted') = Cardinality(Reacted) + 1
      BY <1>1, <2>2, <2>4
    <3>2. QED BY <1>2, <2>4, <3>1
  <2>5. CASE row.id # NoId /\ reaction[u].id # NoId /\ likesCount' = likesCount
    <3>1. Cardinality(Reacted') = Cardinality(Reacted)
      BY <1>1, <2>2, <2>5
    <3>2. QED BY <2>5, <3>1
  <2>6. QED BY <2>3, <2>4, <2>5
<1>4. Bookmarked' = Bookmarked
  BY DEF Bookmarked
<1>5. /\ req' \in [Requests -> Request]
      /\ \A s \in Requests : req'[s].pc \in {"lookup", "commit"} => req'[s].user \in Users
  BY AnswerType, UsersFrame DEF Commits
<1>6. TypeOK'
  BY <1>1, <1>2, <1>5 DEF TypeOK, Commits
<1>7. QED
  BY <1>3, <1>4, <1>6 DEF Balanced, Commits

LEMMA DeleteBalanced ==
    ASSUME TypeOK, NEW r \in Requests, DeleteReaction(r)
    PROVE  Balanced
<1> DEFINE u == req[r].user
<1>1. u \in Users /\ req[r].seen # NoId
  BY DEF TypeOK, DeleteReaction, AtCommit
<1>2. CASE reaction[u].id = req[r].seen
  <2>1. /\ reaction' = [reaction EXCEPT ![u] = NoRow] /\ likesCount' = likesCount - 1
        /\ Commits(r, "off") /\ UNCHANGED <<bookmark, bookmarksCount>>
    BY <1>2 DEF DeleteReaction
  <2>2. NoRow.id = NoId
    BY DEF NoRow
  <2>3. QED
    BY <1>1, <1>2, <2>1, <2>2, IdleType, ReactionCommits DEF Answers
<1>3. CASE reaction[u].id # req[r].seen
  BY <1>3, RollsBackBalanced DEF DeleteReaction
<1>4. QED BY <1>2, <1>3

LEMMA CreateBalanced ==
    ASSUME TypeOK, NEW r \in Requests, CreateReaction(r)
    PROVE  Balanced
<1> DEFINE u == req[r].user
<1>1. u \in Users /\ req[r].type \in Types
  BY DEF TypeOK, CreateReaction, AtCommit, Request
<1>2. CASE reaction[u].id = NoId
  <2>1. PICK i \in Ids :
          reaction' = [reaction EXCEPT ![u] = [id |-> i, type |-> req[r].type]]
    BY <1>2 DEF CreateReaction
  <2>2. /\ likesCount' = likesCount + 1 /\ Commits(r, "on")
        /\ UNCHANGED <<bookmark, bookmarksCount>>
    BY <1>2 DEF CreateReaction
  <2>3. [id |-> i, type |-> req[r].type] \in Row
    BY <1>1 DEF Row
  <2>4. [id |-> i, type |-> req[r].type].id # NoId
    OBVIOUS
  <2>5. QED
    BY <1>1, <1>2, <2>1, <2>2, <2>3, <2>4, ReactionCommits DEF Answers
<1>3. CASE reaction[u].id # NoId
  BY <1>3, RollsBackBalanced DEF CreateReaction
<1>4. QED BY <1>2, <1>3

LEMMA SwitchBalanced ==
    ASSUME TypeOK, NEW r \in Requests, SwitchReaction(r)
    PROVE  Balanced
<1> DEFINE u == req[r].user
           row == [id |-> req[r].seen, type |-> req[r].type]
<1>1. u \in Users /\ req[r].type \in Types /\ req[r].seen \in Ids
  BY DEF TypeOK, SwitchReaction, AtCommit, Request
<1>2. CASE reaction[u].id = req[r].seen
  <2>1. /\ reaction' = [reaction EXCEPT ![u] = row]
        /\ Commits(r, "on") /\ UNCHANGED <<bookmark, counters>>
    BY <1>2 DEF SwitchReaction
  <2>2. row \in Row /\ row.id # NoId
    BY <1>1 DEF Row
  <2>3. likesCount' = likesCount /\ UNCHANGED <<bookmark, bookmarksCount>>
    BY <2>1 DEF counters
  <2>4. QED
    BY <1>1, <1>2, <2>1, <2>2, <2>3, ReactionCommits DEF Answers
<1>3. CASE reaction[u].id # req[r].seen
  BY <1>3, RollsBackBalanced DEF SwitchReaction
<1>4. QED BY <1>2, <1>3

LEMMA BookmarkBalanced ==
    ASSUME TypeOK, NEW r \in Requests, ToggleBookmark(r)
    PROVE  Balanced
<1> DEFINE u == req[r].user
<1>1. u \in Users
  BY DEF TypeOK, ToggleBookmark, AtCommit
<1>2. CASE bookmark[u] = req[r].seen
  <2>1. PICK i \in Ids \cup {NoId} :
          /\ bookmark' = [bookmark EXCEPT ![u] = i]
          /\ i = NoId <=> bookmark[u] # NoId
    BY <1>2 DEF ToggleBookmark
  <2>2. /\ bookmarksCount' = IF bookmark[u] = NoId THEN bookmarksCount + 1
                                                   ELSE bookmarksCount - 1
        /\ UNCHANGED <<reaction, likesCount>>
    BY <1>2 DEF ToggleBookmark
  <2>3. PICK a \in Answers : Commits(r, a)
    BY <1>2 DEF ToggleBookmark, Answers
  <2>4. /\ bookmark' \in [Users -> Ids \cup {NoId}]
        /\ i = NoId => Bookmarked' = Bookmarked \ {u}
        /\ i # NoId => Bookmarked' = Bookmarked \cup {u}
        /\ u \in Bookmarked <=> bookmark[u] # NoId
    BY <1>1, <2>1, BookmarkWritten
  <2>5. bookmarksCount \in Int /\ Cardinality(Bookmarked) \in Nat /\ IsFiniteSet(Bookmarked)
    BY CountTypes DEF TypeOK
  <2>6. bookmarksCount' - Cardinality(Bookmarked')
          = bookmarksCount - Cardinality(Bookmarked)
    <3>1. Cardinality(Bookmarked \ {u})
            = IF u \in Bookmarked THEN Cardinality(Bookmarked) - 1
                                  ELSE Cardinality(Bookmarked)
      BY <2>5, FS_RemoveElement
    <3>2. Cardinality(Bookmarked \cup {u})
            = IF u \in Bookmarked THEN Cardinality(Bookmarked)
                                  ELSE Cardinality(Bookmarked) + 1
      BY <2>5, FS_AddElement
    <3>3. CASE i = NoId
      <4>1. Cardinality(Bookmarked') = Cardinality(Bookmarked) - 1
        BY <2>1, <2>4, <3>1, <3>3
      <4>2. bookmarksCount' = bookmarksCount - 1
        BY <2>1, <2>2, <3>3
      <4>3. QED BY <2>5, <4>1, <4>2
    <3>4. CASE i # NoId
      <4>1. Cardinality(Bookmarked') = Cardinality(Bookmarked) + 1
        BY <2>1, <2>4, <3>2, <3>4
      <4>2. bookmarksCount' = bookmarksCount + 1
        BY <2>1, <2>2, <3>4
      <4>3. QED BY <2>5, <4>1, <4>2
    <3>5. QED BY <3>3, <3>4
  <2>7. Reacted' = Reacted
    BY <2>2 DEF Reacted
  <2>8. /\ req' \in [Requests -> Request]
        /\ \A s \in Requests : req'[s].pc \in {"lookup", "commit"} => req'[s].user \in Users
    BY <2>3, AnswerType, UsersFrame DEF Commits
  <2>9. TypeOK'
    BY <2>2, <2>3, <2>4, <2>5, <2>8 DEF TypeOK, Commits
  <2>10. QED
    BY <2>2, <2>3, <2>6, <2>7, <2>9 DEF Balanced, Commits
<1>3. CASE bookmark[u] # req[r].seen
  BY <1>3, RollsBackBalanced DEF ToggleBookmark
<1>4. QED BY <1>2, <1>3

LEMMA HandleBalanced ==
    ASSUME TypeOK, NEW r \in Requests, Handle(r)
    PROVE  Balanced
<1>1. CASE Finish(r)
  <2>1. req' = [req EXCEPT ![r] = Idle]
    BY <1>1 DEF Finish
  <2>2. req' \in [Requests -> Request]
    BY <2>1, IdleType DEF TypeOK
  <2>3. /\ \A s \in Requests : s # r => req'[s] = req[s]
        /\ req'[r].pc = "idle"
    BY <2>1 DEF TypeOK, Idle
  <2>4. \A s \in Requests : req'[s].pc \in {"lookup", "commit"} => req'[s].user \in Users
    BY <2>3, UsersFrame
  <2>5. QED BY <1>1, <2>2, <2>4, Untouched DEF Finish
<1>2. CASE Fail(r)
  BY <1>2, RollsBackBalanced DEF Fail
<1>3. QED
  BY <1>1, <1>2, ArriveBalanced, LookupBalanced, DeleteBalanced, CreateBalanced,
     SwitchBalanced, BookmarkBalanced DEF Handle

-----------------------------------------------------------------------------
(* Type correctness and what the job knows                                 *)

\* The counts a job holds are the counts of the rows unless it was overtaken.
JobFresh ==
    job.pc # "idle" /\ ~overtaken =>
        /\ job.likes = Cardinality(Reacted)
        /\ job.pc = "write" => job.bookmarks = Cardinality(Bookmarked)

IInv == TypeOK /\ JobFresh

LEMMA InitInv == Init => IInv
<1> SUFFICES ASSUME Init PROVE IInv
  OBVIOUS
<1>1. /\ reaction \in [Users -> Row] /\ req \in [Requests -> Request] /\ job \in Job
      /\ bookmark \in [Users -> Ids \cup {NoId}]
  BY IdleType DEF Init
<1>2. \A r \in Requests : req[r].pc = "idle"
  BY DEF Init, Idle
<1>3. job.pc = "idle"
  BY DEF Init, NoJob
<1>4. removed \in BOOLEAN /\ overtaken \in BOOLEAN
  BY DEF Init
<1>5. likesCount \in Int /\ bookmarksCount \in Int
  BY DEF Init
<1>6. TypeOK
  BY <1>1, <1>2, <1>4, <1>5 DEF TypeOK
<1>7. JobFresh
  BY <1>3 DEF JobFresh
<1>8. QED BY <1>6, <1>7 DEF IInv

LEMMA RemovePostInv == IInv /\ RemovePost => IInv'
BY DEF IInv, TypeOK, JobFresh, RemovePost, rows, counters, jobVars, Reacted, Bookmarked

LEMMA RunJobInv == IInv /\ RunJob => IInv'
<1> SUFFICES ASSUME IInv, RunJob PROVE IInv'
  OBVIOUS
<1>1. Reacted' = Reacted /\ Bookmarked' = Bookmarked
  BY DEF RunJob, CountReactions, CountBookmarks, WriteCounts, JobFails, rows,
     Reacted, Bookmarked
<1>2. CASE CountReactions
  <2>1. job' = [pc |-> "bookmarks", likes |-> Cardinality(Reacted), bookmarks |-> 0]
    BY <1>2 DEF CountReactions
  <2>2. job' \in Job
    BY <2>1, CountTypes DEF Job
  <2>3. TypeOK'
    BY <1>2, <2>2 DEF CountReactions, IInv, TypeOK, rows, counters
  <2>4. JobFresh'
    BY <1>1, <2>1 DEF JobFresh
  <2>5. QED BY <2>3, <2>4 DEF IInv
<1>3. CASE CountBookmarks
  <2>1. job' = [pc |-> "write", likes |-> job.likes, bookmarks |-> Cardinality(Bookmarked)]
    BY <1>3 DEF CountBookmarks
  <2>2. job' \in Job
    BY <2>1, CountTypes DEF IInv, TypeOK, Job
  <2>3. TypeOK'
    BY <1>3, <2>2 DEF CountBookmarks, IInv, TypeOK, rows, counters
  <2>4. overtaken' = overtaken /\ job.pc # "idle"
    BY <1>3 DEF CountBookmarks
  <2>5. JobFresh'
    BY <1>1, <2>1, <2>4 DEF IInv, JobFresh
  <2>6. QED BY <2>3, <2>5 DEF IInv
<1>4. CASE WriteCounts
  BY <1>4, IdleType DEF WriteCounts, IInv, TypeOK, JobFresh, rows, NoJob, Job
<1>5. CASE JobFails
  BY <1>5, IdleType DEF JobFails, IInv, TypeOK, JobFresh, rows, counters, NoJob
<1>6. QED BY <1>2, <1>3, <1>4, <1>5 DEF RunJob

LEMMA HandleInv == ASSUME IInv, NEW r \in Requests, Handle(r) PROVE IInv'
<1>1. Balanced
  BY HandleBalanced DEF IInv
<1>2. TypeOK'
  BY <1>1 DEF Balanced
<1>3. JobFresh'
  <2>1. CASE overtaken'
    BY <2>1 DEF JobFresh
  <2>2. CASE UNCHANGED <<rows, counters, overtaken>>
    BY <1>1, <2>2 DEF Balanced, IInv, JobFresh, rows, Reacted, Bookmarked
  <2>3. QED BY <1>1, <2>1, <2>2 DEF Balanced
<1>4. QED BY <1>2, <1>3 DEF IInv

LEMMA NextInv == IInv /\ [Next]_vars => IInv'
<1> SUFFICES ASSUME IInv, [Next]_vars PROVE IInv'
  OBVIOUS
<1>1. CASE UNCHANGED vars
  BY <1>1 DEF vars, rows, counters, jobVars, IInv, TypeOK, JobFresh, Reacted, Bookmarked
<1>2. CASE Next
  BY <1>2, HandleInv, RemovePostInv, RunJobInv DEF Next
<1>3. QED BY <1>1, <1>2

LEMMA Invariance == Spec => []IInv
BY InitInv, NextInv, PTL DEF Spec

\* Every variable keeps its type, for any number of users and handlers.
THEOREM TypeCorrect == Spec => []TypeOK
<1>1. IInv => TypeOK
  BY DEF IInv
<1>2. QED BY <1>1, Invariance, PTL

-----------------------------------------------------------------------------
(* The counters                                                            *)

LEMMA InitExact == Init => CountersExact
<1> SUFFICES ASSUME Init PROVE CountersExact
  OBVIOUS
<1>1. Reacted = {} /\ Bookmarked = {}
  BY DEF Init, Reacted, Bookmarked, NoRow
<1>2. QED
  BY <1>1, FS_EmptySet DEF Init, CountersExact

\* A balanced step cannot make exact counters wrong.
LEMMA BalancedExact ==
    ASSUME TypeOK, Balanced, CountersExact
    PROVE  CountersExact'
<1>1. /\ Cardinality(Reacted) \in Nat /\ Cardinality(Bookmarked) \in Nat
      /\ Cardinality(Reacted)' \in Nat /\ Cardinality(Bookmarked)' \in Nat
      /\ likesCount' \in Int /\ bookmarksCount' \in Int
  <2>1. IsFiniteSet(Reacted') /\ IsFiniteSet(Bookmarked')
    <3>1. Reacted' \in SUBSET Users /\ Bookmarked' \in SUBSET Users
      BY DEF Reacted, Bookmarked
    <3>2. QED BY <3>1, FS_Subset
  <2>2. Cardinality(Reacted') \in Nat /\ Cardinality(Bookmarked') \in Nat
    BY <2>1, FS_CardinalityType
  <2>3. QED BY <2>2, CountTypes DEF Balanced, TypeOK
<1>2. likesCount' = Cardinality(Reacted')
  BY <1>1 DEF Balanced, CountersExact
<1>3. bookmarksCount' = Cardinality(Bookmarked')
  BY <1>1 DEF Balanced, CountersExact
<1>4. QED BY <1>2, <1>3 DEF CountersExact

\* A step other than the job's write keeps exact counters exact.
LEMMA ExactStep ==
    ASSUME TypeOK, [Next]_vars, ~WriteCounts, CountersExact
    PROVE  CountersExact'
<1>1. CASE UNCHANGED <<rows, counters>>
  BY <1>1 DEF CountersExact, rows, counters, Reacted, Bookmarked
<1>2. CASE \E r \in Requests : Handle(r)
  BY <1>2, HandleBalanced, BalancedExact
<1>3. CASE RemovePost \/ CountReactions \/ CountBookmarks \/ JobFails
  <2>1. UNCHANGED <<rows, counters>>
    BY <1>3 DEF RemovePost, CountReactions, CountBookmarks, JobFails
  <2>2. QED BY <1>1, <2>1
<1>4. CASE UNCHANGED vars
  <2>1. UNCHANGED <<rows, counters>>
    BY <1>4 DEF vars
  <2>2. QED BY <1>1, <2>1
<1>5. QED BY <1>2, <1>3, <1>4 DEF Next, RunJob

\* The job's write is exact unless a committed request overtook it.
LEMMA HealingStep ==
    ASSUME IInv, WriteCounts, ~overtaken
    PROVE  CountersExact'
BY DEF IInv, JobFresh, WriteCounts, CountersExact, rows, Reacted, Bookmarked

\* Whatever the counters were, a job that no request overtakes leaves them exact.
THEOREM Healing == Spec => UndisturbedJobHeals
<1>1. IInv /\ [Next]_vars => [WriteCounts /\ ~overtaken => CountersExact']_vars
  BY HealingStep
<1>2. QED BY <1>1, Invariance, PTL DEF Spec, UndisturbedJobHeals

\* A job overtaken by a committed request is the only way to lose exactness.
THEOREM DriftCause == Spec => DriftOnlyByOvertakenJob
<1>1. IInv /\ [Next]_vars =>
        [CountersExact /\ ~CountersExact' => job.pc = "write" /\ overtaken]_vars
  BY ExactStep, HealingStep DEF IInv, WriteCounts
<1>2. QED BY <1>1, Invariance, PTL DEF Spec, DriftOnlyByOvertakenJob

\* While no RECOMPUTE_POST job runs (the case of this code base, where nothing
\* enqueues one), the counters are exact in every reachable state.
THEOREM Exactness == ASSUME ~Reconciles PROVE Spec => []CountersExact
<1> DEFINE Quiet == job = NoJob
<1>1. Init => Quiet
  BY DEF Init
<1>2. TypeOK /\ Quiet /\ [Next]_vars => Quiet' /\ ~WriteCounts
  <2> SUFFICES ASSUME TypeOK, Quiet, [Next]_vars PROVE Quiet' /\ ~WriteCounts
    OBVIOUS
  <2>1. ~WriteCounts /\ ~RunJob
    BY DEF RunJob, WriteCounts, CountReactions, CountBookmarks, JobFails, NoJob
  <2>2. job' = job
    BY <2>1, HandleBalanced DEF Next, Balanced, RemovePost, jobVars, vars
  <2>3. QED BY <2>1, <2>2
<1>3. TypeOK /\ Quiet /\ CountersExact /\ [Next]_vars => CountersExact'
  BY <1>2, ExactStep
<1> HIDE DEF Quiet
<1>4. QED BY <1>1, <1>2, <1>3, InitExact, TypeCorrect, PTL DEF Spec

-----------------------------------------------------------------------------
(* The decisions of the toggles                                            *)

\* What a handler writes to a row it had looked up, and found as it still is.
LEMMA HandlerDecides ==
    ASSUME TypeOK, NEW r \in Requests, Handle(r), NEW u \in Users
    PROVE  /\ reaction'[u] # reaction[u] =>
                 /\ req[r].user = u /\ req[r].pc = "commit" /\ req[r].op # "toggleBookmark"
                 /\ req[r].seen = reaction[u].id
           /\ bookmark'[u] # bookmark[u] =>
                 AtCommit(r, "toggleBookmark") /\ req[r].user = u /\ req[r].seen = bookmark[u]
<1>1. CASE UNCHANGED rows
  BY <1>1 DEF rows
<1>2. CASE DeleteReaction(r) /\ reaction[req[r].user].id = req[r].seen
  <2>1. /\ req[r].pc = "commit" /\ req[r].op # "toggleBookmark" /\ bookmark' = bookmark
        /\ reaction' = [reaction EXCEPT ![req[r].user] = NoRow]
    BY <1>2 DEF DeleteReaction, AtCommit
  <2>2. QED BY <1>2, <2>1 DEF TypeOK
<1>3. CASE CreateReaction(r) /\ reaction[req[r].user].id = NoId
  <2>1. /\ req[r].pc = "commit" /\ req[r].op # "toggleBookmark" /\ bookmark' = bookmark
        /\ req[r].seen = NoId
        /\ \E i \in Ids : reaction' = [reaction EXCEPT ![req[r].user] = [id |-> i, type |-> req[r].type]]
    BY <1>3 DEF CreateReaction, AtCommit
  <2>2. QED BY <1>3, <2>1 DEF TypeOK
<1>4. CASE SwitchReaction(r) /\ reaction[req[r].user].id = req[r].seen
  <2>1. /\ req[r].pc = "commit" /\ req[r].op # "toggleBookmark" /\ bookmark' = bookmark
        /\ reaction' = [reaction EXCEPT ![req[r].user] = [id |-> req[r].seen, type |-> req[r].type]]
    BY <1>4 DEF SwitchReaction, AtCommit
  <2>2. QED BY <1>4, <2>1 DEF TypeOK
<1>5. CASE ToggleBookmark(r) /\ bookmark[req[r].user] = req[r].seen
  <2>1. AtCommit(r, "toggleBookmark") /\ reaction' = reaction
        /\ \E i \in Ids \cup {NoId} : bookmark' = [bookmark EXCEPT ![req[r].user] = i]
    BY <1>5 DEF ToggleBookmark
  <2>2. QED BY <1>5, <2>1 DEF TypeOK
<1>6. \/ UNCHANGED rows
      \/ DeleteReaction(r) /\ reaction[req[r].user].id = req[r].seen
      \/ CreateReaction(r) /\ reaction[req[r].user].id = NoId
      \/ SwitchReaction(r) /\ reaction[req[r].user].id = req[r].seen
      \/ ToggleBookmark(r) /\ bookmark[req[r].user] = req[r].seen
  BY DEF Handle, Arrive, Lookup, DeleteReaction, CreateReaction, SwitchReaction, ToggleBookmark,
         RollsBack, Fail, Finish
<1>7. QED BY <1>1, <1>2, <1>3, <1>4, <1>5, <1>6

\* No toggle, switch or removal writes on the strength of a row that another request has
\* changed since it was looked up (ReactionsService, BookmarksService.toggle).
THEOREM DecisionsAreCurrent == Spec => DecisionsOnCurrentRow
<1> DEFINE A == \A u \in Users :
          /\ reaction'[u] # reaction[u] =>
                \E r \in Requests : /\ req[r].user = u /\ req[r].pc = "commit"
                                    /\ req[r].op # "toggleBookmark"
                                    /\ req[r].seen = reaction[u].id
          /\ bookmark'[u] # bookmark[u] =>
                \E r \in Requests : /\ AtCommit(r, "toggleBookmark")
                                    /\ req[r].user = u
                                    /\ req[r].seen = bookmark[u]
<1>1. TypeOK /\ [Next]_vars => A
  <2> SUFFICES ASSUME TypeOK, [Next]_vars, NEW u \in Users PROVE A!(u)
    OBVIOUS
  <2>1. CASE \E r \in Requests : Handle(r)
    BY <2>1, HandlerDecides
  <2>2. CASE UNCHANGED rows
    BY <2>2 DEF rows
  <2>3. UNCHANGED rows \/ \E r \in Requests : Handle(r)
    BY DEF Next, RemovePost, RunJob, CountReactions, CountBookmarks, WriteCounts, JobFails, vars
  <2>4. QED BY <2>1, <2>2, <2>3
<1>2. QED BY <1>1, TypeCorrect, PTL DEF Spec, DecisionsOnCurrentRow

=============================================================================
