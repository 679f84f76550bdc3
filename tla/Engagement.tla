------------------------------ MODULE Engagement ------------------------------
(***************************************************************************)
(* Reactions and bookmarks of one post and the counters the post row keeps *)
(* of them: ReactionsService (reactions/reactions.service.ts),             *)
(* BookmarksService.toggle (bookmarks/bookmarks.service.ts) and the        *)
(* RECOMPUTE_POST job of CountersProcessor                                 *)
(* (queues/processors/counters.processor.ts).                              *)
(*                                                                         *)
(* A handler reads the post, then its own row, and then runs one           *)
(* transaction that writes by the id it read and moves the counter by one. *)
(* The transaction goes through its client (tx), so it is one action: it   *)
(* takes effect whole or, when the row it names is gone (P2025) or the     *)
(* unique key is taken (P2002), not at all.  Between the reads and the     *)
(* transaction every other handler and the job may run.                    *)
(*                                                                         *)
(* Posts do not interact here, so one post is enough.  A row id is a UUID: *)
(* the model draws one that no row and no handler holds.                   *)
(***************************************************************************)
EXTENDS Integers, FiniteSets

CONSTANTS
    Users,       \* viewers of the post
    Types,       \* ReactionType
    Like,        \* ReactionType.LIKE, the type of a toggled reaction
    Ids,         \* row ids
    NoId,        \* no row
    Requests,    \* slots for concurrently running HTTP handlers
    NoUser,      \* the user field of an idle slot
    Reconciles,  \* TRUE: the counters queue holds RECOMPUTE_POST jobs
    CountBound   \* bound of the runs: no job starts on a counter beyond it

ASSUME EngagementAssumption ==
    /\ IsFiniteSet(Users) /\ NoUser \notin Users
    /\ Like \in Types
    /\ NoId \notin Ids
    /\ Reconciles \in BOOLEAN
    /\ CountBound \in Nat

VARIABLES
    removed,         \* Post.deletedAt is set
    reaction,        \* the reaction row of each user: its id and its type
    bookmark,        \* the id of each user's bookmark row
    likesCount,      \* Post.likesCount
    bookmarksCount,  \* Post.bookmarksCount
    req,             \* the handlers in progress
    job,             \* the RECOMPUTE_POST job in progress
    overtaken        \* history: a row changed since the job began to count

rows     == <<reaction, bookmark>>
counters == <<likesCount, bookmarksCount>>
jobVars  == <<job, overtaken>>
vars     == <<removed, rows, counters, req, jobVars>>

NoRow == [id |-> NoId, type |-> Like]
Row   == [id : Ids \cup {NoId}, type : Types]

Ops == {"toggleLike", "setReaction", "removeReaction", "toggleBookmark"}
Answers == {"none", "on", "off", "error"}

Idle == [pc |-> "idle", op |-> "toggleLike", user |-> NoUser, type |-> Like,
         seen |-> NoId, answer |-> "none"]
Request == [pc : {"idle", "lookup", "commit", "answered"}, op : Ops,
            user : Users \cup {NoUser}, type : Types, seen : Ids \cup {NoId},
            answer : Answers]

NoJob == [pc |-> "idle", likes |-> 0, bookmarks |-> 0]
Job == [pc : {"idle", "bookmarks", "write"}, likes : Nat, bookmarks : Nat]

Reacted    == {u \in Users : reaction[u].id # NoId}
Bookmarked == {u \in Users : bookmark[u] # NoId}

\* The row a handler's findUnique({userId, postId}) finds.
RowOf(op, u) == IF op = "toggleBookmark" THEN bookmark[u] ELSE reaction[u].id

Fresh(i) == /\ i \in Ids
            /\ \A u \in Users : reaction[u].id # i /\ bookmark[u] # i
            /\ \A r \in Requests : req[r].seen # i

-----------------------------------------------------------------------------
Init ==
    /\ removed = FALSE
    /\ reaction = [u \in Users |-> NoRow]
    /\ bookmark = [u \in Users |-> NoId]
    /\ likesCount = 0
    /\ bookmarksCount = 0
    /\ req = [r \in Requests |-> Idle]
    /\ job = NoJob
    /\ overtaken = FALSE

Answer(r, a) ==
    req' = [req EXCEPT ![r] = [pc |-> "answered", op |-> "toggleLike", user |-> NoUser,
                               type |-> Like, seen |-> NoId, answer |-> a]]

Enter(r, op, u, type) ==
    req' = [req EXCEPT ![r] = [pc |-> "lookup", op |-> op, user |-> u,
                               type |-> type, seen |-> NoId, answer |-> "none"]]

Looked(r, i) == req' = [req EXCEPT ![r].pc = "commit", ![r].seen = i]

(* assertPost() and its twin in toggle(): a deleted post answers 404.      *)
(* removeReaction() does not ask.                                          *)
Arrive(r, op, u, type) ==
    /\ req[r].pc = "idle"
    /\ type # Like => op = "setReaction"
    /\ IF removed /\ op # "removeReaction" THEN Answer(r, "error")
                                           ELSE Enter(r, op, u, type)
    /\ UNCHANGED <<removed, rows, counters, jobVars>>

(* existing = findUnique(); removeReaction() of nothing ends here.         *)
Lookup(r) ==
    LET i == RowOf(req[r].op, req[r].user) IN
    /\ req[r].pc = "lookup"
    /\ IF req[r].op = "removeReaction" /\ i = NoId THEN Answer(r, "off")
                                                   ELSE Looked(r, i)
    /\ UNCHANGED <<removed, rows, counters, jobVars>>

-----------------------------------------------------------------------------
\* A committed transaction of r: what it wrote and what it answers.
Commits(r, a) == /\ Answer(r, a)
                 /\ overtaken' = TRUE
                 /\ UNCHANGED <<removed, job>>

\* A transaction that rolls back: P2025, P2002, or a lost connection.
RollsBack(r) == /\ Answer(r, "error")
                /\ UNCHANGED <<removed, rows, counters, jobVars>>

AtCommit(r, op) == req[r].pc = "commit" /\ req[r].op = op

\* Faulty variant: the row is deleted by (user, post), and the counter moves
\* whether or not there was one.
DeleteReaction_ByUser(r) ==
    LET u == req[r].user IN
    /\ AtCommit(r, "toggleLike") \/ AtCommit(r, "removeReaction")
    /\ req[r].seen # NoId
    /\ reaction' = [reaction EXCEPT ![u] = NoRow]
    /\ likesCount' = likesCount - 1
    /\ Commits(r, "off")
    /\ UNCHANGED <<bookmark, bookmarksCount>>

(* toggleLike() of a row that was found, and removeReaction().             *)
DeleteReaction(r) ==
    LET u == req[r].user IN
    /\ AtCommit(r, "toggleLike") \/ AtCommit(r, "removeReaction")
    /\ req[r].seen # NoId
    /\ IF reaction[u].id = req[r].seen
         THEN /\ reaction' = [reaction EXCEPT ![u] = NoRow]
              /\ likesCount' = likesCount - 1
              /\ Commits(r, "off")
              /\ UNCHANGED <<bookmark, bookmarksCount>>
         ELSE RollsBack(r)

\* Faulty variant: an upsert, which overwrites the row of a concurrent request.
CreateReaction_Upsert(r) ==
    LET u == req[r].user IN
    /\ AtCommit(r, "toggleLike") \/ AtCommit(r, "setReaction")
    /\ req[r].seen = NoId
    /\ \E i \in Ids :
         /\ Fresh(i)
         /\ reaction' = [reaction EXCEPT ![u] = [id |-> i, type |-> req[r].type]]
    /\ likesCount' = likesCount + 1
    /\ Commits(r, "on")
    /\ UNCHANGED <<bookmark, bookmarksCount>>

(* toggleLike() and setReaction() when no row was found.                   *)
CreateReaction(r) ==
    LET u == req[r].user IN
    /\ AtCommit(r, "toggleLike") \/ AtCommit(r, "setReaction")
    /\ req[r].seen = NoId
    /\ IF reaction[u].id = NoId
         THEN /\ \E i \in Ids :
                   /\ Fresh(i)
                   /\ reaction' = [reaction EXCEPT ![u] =
                                      [id |-> i, type |-> req[r].type]]
              /\ likesCount' = likesCount + 1
              /\ Commits(r, "on")
              /\ UNCHANGED <<bookmark, bookmarksCount>>
         ELSE RollsBack(r)

(* setReaction() of a row that was found: the total does not move.         *)
SwitchReaction(r) ==
    LET u == req[r].user IN
    /\ AtCommit(r, "setReaction")
    /\ req[r].seen # NoId
    /\ IF reaction[u].id = req[r].seen
         THEN /\ reaction' = [reaction EXCEPT ![u] =
                                 [id |-> req[r].seen, type |-> req[r].type]]
              /\ Commits(r, "on")
              /\ UNCHANGED <<bookmark, counters>>
         ELSE RollsBack(r)

(* BookmarksService.toggle(), both branches.                               *)
ToggleBookmark(r) ==
    LET u == req[r].user
        on == req[r].seen = NoId IN
    /\ AtCommit(r, "toggleBookmark")
    /\ IF bookmark[u] = req[r].seen
         THEN /\ IF on THEN \E i \in Ids : /\ Fresh(i)
                                           /\ bookmark' = [bookmark EXCEPT ![u] = i]
                       ELSE bookmark' = [bookmark EXCEPT ![u] = NoId]
              /\ bookmarksCount' = IF on THEN bookmarksCount + 1 ELSE bookmarksCount - 1
              /\ Commits(r, IF on THEN "on" ELSE "off")
              /\ UNCHANGED <<reaction, likesCount>>
         ELSE RollsBack(r)

(* The handler dies, or the database refuses its transaction.              *)
Fail(r) == req[r].pc \in {"lookup", "commit"} /\ RollsBack(r)

Finish(r) ==
    /\ req[r].pc = "answered"
    /\ req' = [req EXCEPT ![r] = Idle]
    /\ UNCHANGED <<removed, rows, counters, jobVars>>

-----------------------------------------------------------------------------
(* PostsService.remove(): the post row stays, deletedAt is set.            *)
RemovePost ==
    /\ ~removed
    /\ removed' = TRUE
    /\ UNCHANGED <<rows, counters, req, jobVars>>

(* recomputePost(): the counts are queries of their own.  The job id is    *)
(* keyed by post, so there is one job per post at a time.                  *)
CountReactions ==
    /\ Reconciles
    /\ job.pc = "idle"
    /\ {likesCount, bookmarksCount} \subseteq -CountBound..CountBound
    /\ job' = [pc |-> "bookmarks", likes |-> Cardinality(Reacted), bookmarks |-> 0]
    /\ overtaken' = FALSE
    /\ UNCHANGED <<removed, rows, counters, req>>

CountBookmarks ==
    /\ job.pc = "bookmarks"
    /\ job' = [pc |-> "write", likes |-> job.likes, bookmarks |-> Cardinality(Bookmarked)]
    /\ UNCHANGED <<removed, rows, counters, req, overtaken>>

(* The absolute values are stored, whatever was committed in between.      *)
WriteCounts ==
    /\ job.pc = "write"
    /\ likesCount' = job.likes
    /\ bookmarksCount' = job.bookmarks
    /\ job' = NoJob
    /\ UNCHANGED <<removed, rows, req, overtaken>>

(* The job fails; BullMQ runs it again from the start.                     *)
JobFails ==
    /\ job.pc # "idle"
    /\ job' = NoJob
    /\ UNCHANGED <<removed, rows, counters, req, overtaken>>

Handle(r) ==
    \/ \E op \in Ops, u \in Users, type \in Types : Arrive(r, op, u, type)
    \/ Lookup(r)
    \/ DeleteReaction(r) \/ CreateReaction(r) \/ SwitchReaction(r)
    \/ ToggleBookmark(r)
    \/ Fail(r) \/ Finish(r)

RunJob == CountReactions \/ CountBookmarks \/ WriteCounts \/ JobFails

Next == (\E r \in Requests : Handle(r)) \/ RemovePost \/ RunJob

Spec == Init /\ [][Next]_vars

-----------------------------------------------------------------------------
(* Properties                                                              *)

\* Every variable keeps its type; a handler past assertPost has a user.
TypeOK ==
    /\ removed \in BOOLEAN
    /\ reaction \in [Users -> Row]
    /\ bookmark \in [Users -> Ids \cup {NoId}]
    /\ likesCount \in Int
    /\ bookmarksCount \in Int
    /\ req \in [Requests -> Request]
    /\ \A r \in Requests : req[r].pc \in {"lookup", "commit"} => req[r].user \in Users
    /\ job \in Job
    /\ overtaken \in BOOLEAN

\* "likesCount on a post is the count of ALL reactions regardless of type"
\* (reactions.service.ts:7-9), and bookmarksCount that of the bookmarks: double
\* clicks, concurrent switches and lost transactions never let them drift.
CountersExact ==
    /\ likesCount = Cardinality(Reacted)
    /\ bookmarksCount = Cardinality(Bookmarked)

\* A row is created, replaced or deleted only by a request of its owner that had
\* read exactly that row (or its absence): a decision taken on an older row never
\* reaches the database.  (existing.id in the three services' transactions)
DecisionsOnCurrentRow ==
    [][\A u \in Users :
          /\ reaction'[u] # reaction[u] =>
                \E r \in Requests : /\ req[r].user = u /\ req[r].pc = "commit"
                                    /\ req[r].op # "toggleBookmark"
                                    /\ req[r].seen = reaction[u].id
          /\ bookmark'[u] # bookmark[u] =>
                \E r \in Requests : /\ AtCommit(r, "toggleBookmark")
                                    /\ req[r].user = u
                                    /\ req[r].seen = bookmark[u]]_vars

\* Exact counters are lost in one way only: the job stores counts that a
\* committed request has overtaken.  (counters.processor.ts:36-55)
DriftOnlyByOvertakenJob ==
    [][CountersExact /\ ~CountersExact' => job.pc = "write" /\ overtaken]_vars

\* The safety net heals: a job that no request overtakes leaves exact counters,
\* whatever they were.  "Reconciles denormalized counters against the
\* source-of-truth rows" (counters.processor.ts:12-14).
UndisturbedJobHeals ==
    [][WriteCounts /\ ~overtaken => CountersExact']_vars

=============================================================================
