----------------------------- MODULE Publishing -----------------------------
(***************************************************************************)
(* Posts, reposts, comments and replies, and the counters kept of them:    *)
(* the commands create, repost and remove of PostsService                  *)
(* (posts/posts.service.ts), create and remove of CommentsService          *)
(* (posts/comments.service.ts).                                            *)
(*                                                                         *)
(* A handler checks what it refers to with reads of its own and then runs  *)
(* one transaction that writes the row and moves the counters by one; the  *)
(* transaction takes effect whole or not at all and is one action.  Other  *)
(* handlers run between the reads, and between them and the transaction.   *)
(* Rows are never deleted: deletedAt is set.                               *)
(*                                                                         *)
(* Abstracted: texts, hashtags, media and replyToPostId, which no counter  *)
(* depends on (assertPostExists of it is kept), and the block list, which  *)
(* may refuse a repost or a comment at any time.                           *)
(***************************************************************************)
EXTENDS Integers, FiniteSets

CONSTANTS
    Users,
    NoUser,       \* the user field of an idle slot
    Moderators,   \* users whose role lets them delete any comment
    Requests,     \* slots for concurrently running HTTP handlers
    MaxPosts,     \* bound: post rows
    MaxComments,  \* bound: comment rows
    CanFail       \* TRUE: a handler may die at an await

ASSUME PublishingAssumption ==
    /\ IsFiniteSet(Users) /\ NoUser \notin Users
    /\ Moderators \subseteq Users
    /\ MaxPosts \in Nat /\ MaxComments \in Nat
    /\ CanFail \in BOOLEAN

VARIABLES
    posts,            \* number of post rows: the posts are 1..posts
    post,             \* authorId and parentPostId of each post
    removedPosts,     \* the posts whose deletedAt is set
    comments,         \* number of comment rows
    comment,          \* postId and parentCommentId of each comment, and its author
    removedComments,  \* the comments whose deletedAt is set
    postsCount,       \* Profile.postsCount
    repostsCount,     \* Post.repostsCount
    commentsCount,    \* Post.commentsCount
    repliesCount,     \* Comment.repliesCount
    req               \* the handlers in progress

postVars    == <<posts, post, removedPosts, postsCount, repostsCount>>
commentVars == <<comments, comment, removedComments, commentsCount, repliesCount>>
vars        == <<postVars, commentVars, req>>

Post      == 1..MaxPosts
Comment   == 1..MaxComments
NoPost    == 0
NoComment == 0

Posts        == 1..posts
Comments     == 1..comments
LivePosts    == Posts \ removedPosts
LiveComments == Comments \ removedComments

Idle == [pc |-> "idle", op |-> "create", user |-> NoUser, post |-> NoPost,
         comment |-> NoComment]
PC  == {"idle", "blocks", "parent", "commit", "enqueue"}
Ops == {"create", "repost", "comment", "removePost", "removeComment"}
Request == [pc : PC, op : Ops, user : Users \cup {NoUser}, post : 0..MaxPosts,
            comment : 0..MaxComments]

Init ==
    /\ posts = 0
    /\ post = [p \in Post |-> [author |-> NoUser, parent |-> NoPost]]
    /\ removedPosts = {}
    /\ comments = 0
    /\ comment = [c \in Comment |-> [author |-> NoUser, post |-> NoPost, parent |-> NoComment]]
    /\ removedComments = {}
    /\ postsCount = [u \in Users |-> 0]
    /\ repostsCount = [p \in Post |-> 0]
    /\ commentsCount = [p \in Post |-> 0]
    /\ repliesCount = [c \in Comment |-> 0]
    /\ req = [r \in Requests |-> Idle]

Enter(r, pc, op, u, p, c) ==
    /\ req[r].pc = "idle"
    /\ req' = [req EXCEPT ![r] = [pc |-> pc, op |-> op, user |-> u, post |-> p,
                                  comment |-> c]]
Goto(r, pc) == req' = [req EXCEPT ![r].pc = pc]
\* The answer, an error as well as a success: the slot is free again.
Answer(r) == req' = [req EXCEPT ![r] = Idle]
At(r, pc, op) == req[r].pc = pc /\ req[r].op = op

Reading == UNCHANGED <<postVars, commentVars>>

-----------------------------------------------------------------------------
(* create(): media and the post replied to are checked; from the last      *)
(* check on the handler depends on no other row.                           *)
CreatePost(r, u, replyTo) ==
    /\ replyTo \in LivePosts \cup {NoPost}
    /\ Enter(r, "commit", "create", u, NoPost, NoComment)
    /\ Reading

(* repost(): the parent is read.                                           *)
Repost(r, u, p) ==
    /\ p \in LivePosts
    /\ Enter(r, "blocks", "repost", u, p, NoComment)
    /\ Reading

(* CommentsService.create(): the post is read.                             *)
AddComment(r, u, p, c) ==
    /\ p \in LivePosts
    /\ Enter(r, "blocks", "comment", u, p, c)
    /\ Reading

(* isBlockedEitherWay(): refused or not, as the blocks are at this moment. *)
CheckBlocks(r) ==
    /\ req[r].pc = "blocks"
    /\ \/ Answer(r)
       \/ Goto(r, IF req[r].comment # NoComment THEN "parent" ELSE "commit")
    /\ Reading

\* Faulty variant: the parent is looked up by its id alone.
CheckParent_AnyPost(r) ==
    /\ req[r].pc = "parent"
    /\ IF req[r].comment \in LiveComments THEN Goto(r, "commit") ELSE Answer(r)
    /\ Reading

(* The parent of a reply is a live comment of the same post.               *)
CheckParent(r) ==
    LET c == req[r].comment IN
    /\ req[r].pc = "parent"
    /\ IF c \in LiveComments /\ comment[c].post = req[r].post THEN Goto(r, "commit")
                                                              ELSE Answer(r)
    /\ Reading

-----------------------------------------------------------------------------
InsertPost(u, parent) ==
    /\ posts < MaxPosts
    /\ posts' = posts + 1
    /\ post' = [post EXCEPT ![posts + 1] = [author |-> u, parent |-> parent]]
    /\ postsCount' = [postsCount EXCEPT ![u] = @ + 1]
    /\ UNCHANGED <<removedPosts, commentVars>>

(* create()'s transaction.                                                 *)
CommitPost(r) ==
    /\ At(r, "commit", "create")
    /\ InsertPost(req[r].user, NoPost)
    /\ Goto(r, "enqueue")
    /\ UNCHANGED repostsCount

(* The moderation and analytics jobs are queued after the commit: if Redis *)
(* is down the post stands and the answer is a 500.                        *)
Enqueue(r) ==
    /\ At(r, "enqueue", "create")
    /\ Answer(r)
    /\ Reading

(* repost()'s transaction: the parent may have been deleted meanwhile.     *)
CommitRepost(r) ==
    /\ At(r, "commit", "repost")
    /\ InsertPost(req[r].user, req[r].post)
    /\ repostsCount' = [repostsCount EXCEPT ![req[r].post] = @ + 1]
    /\ Answer(r)

\* Faulty variant: a reply is counted as a reply only.
CommitComment_ReplyOnly(r) ==
    LET p == req[r].post
        c == req[r].comment IN
    /\ At(r, "commit", "comment")
    /\ comments < MaxComments
    /\ comments' = comments + 1
    /\ comment' = [comment EXCEPT ![comments + 1] =
                      [author |-> req[r].user, post |-> p, parent |-> c]]
    /\ IF c = NoComment
         THEN /\ commentsCount' = [commentsCount EXCEPT ![p] = @ + 1]
              /\ UNCHANGED repliesCount
         ELSE /\ repliesCount' = [repliesCount EXCEPT ![c] = @ + 1]
              /\ UNCHANGED commentsCount
    /\ Answer(r)
    /\ UNCHANGED <<removedComments, postVars>>

(* CommentsService.create()'s transaction.                                 *)
CommitComment(r) ==
    LET p == req[r].post
        c == req[r].comment IN
    /\ At(r, "commit", "comment")
    /\ comments < MaxComments
    /\ comments' = comments + 1
    /\ comment' = [comment EXCEPT ![comments + 1] =
                      [author |-> req[r].user, post |-> p, parent |-> c]]
    /\ commentsCount' = [commentsCount EXCEPT ![p] = @ + 1]
    /\ repliesCount' = IF c = NoComment THEN repliesCount
                                        ELSE [repliesCount EXCEPT ![c] = @ + 1]
    /\ Answer(r)
    /\ UNCHANGED <<removedComments, postVars>>

-----------------------------------------------------------------------------
(* remove(): "You can only delete your own posts" (the route never passes  *)
(* isModerator).                                                           *)
RemovePost(r, u, p) ==
    /\ p \in LivePosts /\ post[p].author = u
    /\ Enter(r, "commit", "removePost", NoUser, p, NoComment)
    /\ Reading

\* Faulty variant: the counter is left alone.
CommitRemovePost_Uncounted(r) ==
    /\ At(r, "commit", "removePost")
    /\ removedPosts' = removedPosts \cup {req[r].post}
    /\ Answer(r)
    /\ UNCHANGED <<posts, post, postsCount, repostsCount, commentVars>>

(* deletedAt and the counter, in one transaction that asks nothing.        *)
CommitRemovePost(r) ==
    LET p == req[r].post IN
    /\ At(r, "commit", "removePost")
    /\ removedPosts' = removedPosts \cup {p}
    /\ postsCount' = [postsCount EXCEPT ![post[p].author] = @ - 1]
    /\ Answer(r)
    /\ UNCHANGED <<posts, post, repostsCount, commentVars>>

(* CommentsService.remove(), by the author or a moderator.                 *)
RemoveComment(r, u, c) ==
    /\ c \in LiveComments
    /\ comment[c].author = u \/ u \in Moderators
    /\ Enter(r, "commit", "removeComment", NoUser, comment[c].post, c)
    /\ Reading

(* The replies stay, and so does the parent's repliesCount.                *)
CommitRemoveComment(r) ==
    /\ At(r, "commit", "removeComment")
    /\ removedComments' = removedComments \cup {req[r].comment}
    /\ commentsCount' = [commentsCount EXCEPT ![req[r].post] = @ - 1]
    /\ Answer(r)
    /\ UNCHANGED <<comments, comment, repliesCount, postVars>>

-----------------------------------------------------------------------------
AtBound(r) == \/ At(r, "commit", "create") /\ posts = MaxPosts
              \/ At(r, "commit", "repost") /\ posts = MaxPosts
              \/ At(r, "commit", "comment") /\ comments = MaxComments

(* The handler dies at an await, or its transaction is rolled back (at a   *)
(* bound of the model it always is).                                       *)
Fail(r) ==
    /\ req[r].pc # "idle"
    /\ CanFail \/ AtBound(r)
    /\ Answer(r)
    /\ Reading

Arrive(r) ==
    \E u \in Users :
        \/ \E p \in Posts \cup {NoPost} : CreatePost(r, u, p)
        \/ \E p \in Posts : Repost(r, u, p) \/ RemovePost(r, u, p)
        \/ \E p \in Posts, c \in Comments \cup {NoComment} : AddComment(r, u, p, c)
        \/ \E c \in Comments : RemoveComment(r, u, c)

Proceed(r) ==
    \/ CheckBlocks(r) \/ CheckParent(r)
    \/ CommitPost(r) \/ Enqueue(r) \/ CommitRepost(r) \/ CommitComment(r)
    \/ CommitRemovePost(r) \/ CommitRemoveComment(r)

Next == \E r \in Requests : Arrive(r) \/ Proceed(r) \/ Fail(r)

Spec == Init /\ [][Next]_vars

-----------------------------------------------------------------------------
(* Properties                                                              *)

PostsOK ==
    /\ posts \in 0..MaxPosts
    /\ post \in [Post -> [author : Users \cup {NoUser}, parent : 0..MaxPosts]]
    /\ \A p \in Posts : post[p].author \in Users
    /\ removedPosts \subseteq Posts
    /\ postsCount \in [Users -> Int]
    /\ repostsCount \in [Post -> Int]

CommentsOK ==
    /\ comments \in 0..MaxComments
    /\ comment \in [Comment -> [author : Users \cup {NoUser}, post : 0..MaxPosts,
                                parent : 0..MaxComments]]
    /\ removedComments \subseteq Comments
    /\ commentsCount \in [Post -> Int]
    /\ repliesCount \in [Comment -> Int]

Writing == {"create", "repost", "comment"}

RequestsOK ==
    /\ req \in [Requests -> Request]
    /\ \A r \in Requests :
         req[r].pc # "idle" => /\ req[r].op \in Writing => req[r].user \in Users
                               /\ req[r].op # "create" => req[r].post \in Posts
                               /\ req[r].comment \in Comments \cup {NoComment}
                               /\ req[r].op = "removeComment" => req[r].comment # NoComment

\* Every variable keeps its type; a handler refers to rows that exist.
TypeOK == PostsOK /\ CommentsOK /\ RequestsOK

LivePostsOf(u)      == {p \in LivePosts : post[p].author = u}
RepostsOf(p)        == {q \in Posts : post[q].parent = p}
LiveCommentsOn(p)   == {c \in LiveComments : comment[c].post = p}
LiveRepliesTo(c)    == {d \in LiveComments : comment[d].parent = c}
\* Handler r is about to remove what another removal has taken already.
RemovedTwice(r) == \/ At(r, "commit", "removePost") /\ req[r].post \in removedPosts
                   \/ At(r, "commit", "removeComment") /\ req[r].comment \in removedComments

\* A profile never shows more posts, and a post never more comments, than there are:
\* whatever is created, removed, or removed twice.  (posts.service.ts:155-164,
\* comments.service.ts:136-145)
CountersNeverOvercount ==
    /\ \A u \in Users : postsCount[u] <= Cardinality(LivePostsOf(u))
    /\ \A p \in Posts : commentsCount[p] <= Cardinality(LiveCommentsOn(p))

\* "The hot path keeps counters correct via transactional increments"
\* (counters.processor.ts:13-14), for posts and comments.
CountersExact ==
    /\ \A u \in Users : postsCount[u] = Cardinality(LivePostsOf(u))
    /\ \A p \in Posts : commentsCount[p] = Cardinality(LiveCommentsOn(p))

\* Exact counters are lost in one way only: two removals of one row had both read it
\* before either committed.  (the check of deletedAt before the transaction)
DriftOnlyByDoubleRemoval ==
    [][CountersExact /\ ~CountersExact' => \E r \in Requests : RemovedTwice(r)]_vars

\* repostsCount is the number of reposts and quotes, the deleted ones included: what
\* recomputePost() would store (counters.processor.ts:42), whatever happened to the
\* parent between the check and the transaction.
RepostsExact == \A p \in Posts : repostsCount[p] = Cardinality(RepostsOf(p))

\* A thread stays on its post: a reply answers an earlier comment of the same post,
\* even when that comment is deleted while the reply is on its way.
\* (comments.service.ts:48-54)
ThreadsStayOnPost ==
    \A c \in Comments : comment[c].parent # NoComment =>
        /\ comment[c].parent < c
        /\ comment[comment[c].parent].post = comment[c].post

\* What the rows say of one another, and repostsCount of them.
Consistent == TypeOK /\ RepostsExact /\ ThreadsStayOnPost

=============================================================================
