-------------------------- MODULE PublishingProofs --------------------------
(***************************************************************************)
(* Proofs about Publishing for any users, any number of handlers, posts    *)
(* and comments, with or without failing handlers.                         *)
(***************************************************************************)
EXTENDS Publishing, FiniteSetTheorems, TLAPS

USE PublishingAssumption

-----------------------------------------------------------------------------
(* What the record q of a handler says of n posts and m comments.          *)
Refers(q, n, m) ==
    q.pc # "idle" => /\ q.op \in Writing => q.user \in Users
                     /\ q.op # "create" => q.post \in 1..n
                     /\ q.comment \in 1..m \cup {NoComment}
                     /\ q.op = "removeComment" => q.comment # NoComment

\* A handler that is about to commit knows the post of the comment it refers to.
Threaded(q) ==
    q.pc = "commit" /\ q.comment # NoComment => comment[q.comment].post = q.post

HandlersThreaded == \A r \in Requests : Threaded(req[r])

\* A row refers to rows that exist; nothing is counted for a row that does not.
RowsRefer ==
    /\ \A p \in Posts : post[p].parent \in 0..posts
    /\ \A c \in Comments : comment[c].post \in Posts
    /\ \A p \in Post \ Posts : repostsCount[p] = 0 /\ commentsCount[p] = 0

(* The inductive invariant.                                                *)
IInv ==
    /\ TypeOK /\ HandlersThreaded /\ RowsRefer
    /\ ThreadsStayOnPost /\ RepostsExact /\ CountersNeverOvercount

-----------------------------------------------------------------------------
(* The records of handlers.                                                *)
LEMMA IdleRecord == Idle \in Request /\ Idle.pc = "idle" /\ Threaded(Idle)
                    /\ \A n, m : Refers(Idle, n, m)
BY DEF Idle, Request, PC, Ops, Threaded, Refers, NoPost, NoComment

\* Handler r moves to a record that refers to rows there are after the step.
LEMMA HandlerMoves ==
    ASSUME TypeOK, HandlersThreaded, NEW r \in Requests, NEW q \in Request,
           req' = [req EXCEPT ![r] = q],
           Refers(q, posts', comments'), Threaded(q)',
           posts' \in Nat, comments' \in Nat, posts' >= posts, comments' >= comments,
           \A c \in Comments : comment'[c].post = comment[c].post
    PROVE  RequestsOK' /\ HandlersThreaded'
<1>1. req' \in [Requests -> Request] /\ req'[r] = q
      /\ \A s \in Requests : s # r => req'[s] = req[s]
  BY DEF TypeOK, RequestsOK
<1>2. posts \in Nat /\ comments \in Nat
  BY DEF TypeOK, PostsOK, CommentsOK
<1>3. Posts \subseteq Posts' /\ Comments \subseteq Comments'
  BY <1>2 DEF Posts, Comments
<1>4. ASSUME NEW s \in Requests
      PROVE  Refers(req'[s], posts', comments') /\ Threaded(req[s])'
  <2>1. CASE s = r
    BY <2>1, <1>1 DEF Threaded
  <2>2. CASE s # r
    <3>1. req'[s] = req[s] /\ Threaded(req[s]) /\ Refers(req[s], posts, comments)
      BY <2>2, <1>1 DEF TypeOK, RequestsOK, Refers, Posts, Comments, HandlersThreaded
    <3>2. Refers(req'[s], posts', comments')
      BY <3>1, <1>3 DEF Refers, Posts, Comments
    <3>3. req[s].pc = "commit" /\ req[s].comment # NoComment => req[s].comment \in Comments
      BY <3>1 DEF Refers, Comments
    <3>4. QED BY <3>1, <3>2, <3>3 DEF Threaded
  <2>3. QED BY <2>1, <2>2
<1>5. RequestsOK'
  BY <1>1, <1>4 DEF RequestsOK, Refers, Posts, Comments
<1>6. QED BY <1>4, <1>5 DEF HandlersThreaded

LEMMA EnterRecord ==
    ASSUME TypeOK, NEW r \in Requests, NEW pc \in {"blocks", "commit"}, NEW op \in Ops,
           NEW u \in Users \cup {NoUser}, NEW p \in Posts \cup {NoPost},
           NEW c \in Comments \cup {NoComment}, Enter(r, pc, op, u, p, c),
           op \in Writing => u \in Users, op # "create" => p # NoPost,
           op = "removeComment" => c # NoComment,
           pc = "commit" /\ c # NoComment => comment[c].post = p
    PROVE  \E q \in Request : /\ req' = [req EXCEPT ![r] = q]
                              /\ Refers(q, posts, comments) /\ Threaded(q)
<1> DEFINE q == [pc |-> pc, op |-> op, user |-> u, post |-> p, comment |-> c]
<1>1. p \in 0..MaxPosts /\ c \in 0..MaxComments
  BY DEF TypeOK, PostsOK, CommentsOK, Posts, Comments, NoPost, NoComment
<1>2. q \in Request
  BY <1>1 DEF Request, PC
<1>3. Refers(q, posts, comments) /\ Threaded(q)
  BY DEF Refers, Threaded, Posts, Comments, NoPost, NoComment
<1>4. req' = [req EXCEPT ![r] = q]
  BY DEF Enter
<1>5. QED BY <1>2, <1>3, <1>4

LEMMA GotoRecord ==
    ASSUME TypeOK, NEW r \in Requests, NEW pc \in {"parent", "commit", "enqueue"}, Goto(r, pc),
           req[r].pc # "idle",
           pc = "commit" /\ req[r].comment # NoComment =>
               comment[req[r].comment].post = req[r].post
    PROVE  \E q \in Request : /\ req' = [req EXCEPT ![r] = q] /\ q.pc = pc
                              /\ q.comment = req[r].comment /\ q.post = req[r].post
                              /\ Refers(q, posts, comments) /\ Threaded(q)
<1> DEFINE q == [req[r] EXCEPT !.pc = pc]
<1>1. req \in [Requests -> Request] /\ req[r] \in Request /\ Refers(req[r], posts, comments)
  BY DEF TypeOK, RequestsOK, Refers, Posts, Comments
<1>2. q \in Request /\ q.pc = pc /\ q.op = req[r].op /\ q.user = req[r].user
      /\ q.post = req[r].post /\ q.comment = req[r].comment
  BY <1>1 DEF Request, PC
<1>3. req' = [req EXCEPT ![r] = q]
  BY <1>1 DEF Goto
<1> HIDE DEF q
<1>4. Refers(q, posts, comments) /\ Threaded(q)
  BY <1>1, <1>2 DEF Refers, Threaded
<1>5. QED BY <1>2, <1>3, <1>4

-----------------------------------------------------------------------------
(* Steps that only read.                                                   *)
LEMMA ReadingStep ==
    ASSUME IInv, NEW r \in Requests, NEW q \in Request, req' = [req EXCEPT ![r] = q],
           Refers(q, posts, comments), Threaded(q), Reading
    PROVE  IInv'
<1>1. PostsOK' /\ CommentsOK' /\ RowsRefer' /\ ThreadsStayOnPost' /\ RepostsExact'
      /\ CountersNeverOvercount'
  BY DEF IInv, TypeOK, PostsOK, CommentsOK, RowsRefer, ThreadsStayOnPost, RepostsExact, RepostsOf,
         CountersNeverOvercount, LivePostsOf, LiveCommentsOn, LivePosts, LiveComments, Posts, Comments,
         Reading, postVars, commentVars
<1>2. posts \in Nat /\ comments \in Nat
  BY DEF IInv, TypeOK, PostsOK, CommentsOK
<1>3. posts' = posts /\ comments' = comments /\ comment' = comment /\ Threaded(q)'
  BY DEF Reading, postVars, commentVars, Threaded
<1>4. RequestsOK' /\ HandlersThreaded'
  <2>1. /\ TypeOK /\ HandlersThreaded /\ Refers(q, posts', comments')
        /\ posts' \in Nat /\ comments' \in Nat /\ posts' >= posts /\ comments' >= comments
        /\ \A c \in Comments : comment'[c].post = comment[c].post
    BY <1>2, <1>3 DEF IInv
  <2>2. QED BY <1>3, <2>1, HandlerMoves
<1>5. QED BY <1>1, <1>4 DEF IInv, TypeOK

LEMMA AnswerReading ==
    ASSUME IInv, NEW r \in Requests, Answer(r), Reading
    PROVE  IInv'
BY IdleRecord, ReadingStep DEF Answer

LEMMA ArriveStep ==
    ASSUME IInv, NEW r \in Requests, Arrive(r)
    PROVE  IInv'
<1>0. NoPost \notin Posts /\ NoComment \notin Comments
  BY DEF IInv, TypeOK, PostsOK, CommentsOK, Posts, Comments, NoPost, NoComment
<1>1. ASSUME NEW u \in Users, NEW p \in Posts \cup {NoPost}, CreatePost(r, u, p)
      PROVE  IInv'
  <2>1. \E q \in Request : req' = [req EXCEPT ![r] = q] /\ Refers(q, posts, comments) /\ Threaded(q)
    BY <1>1, EnterRecord DEF CreatePost, IInv, Ops
  <2>2. QED BY <1>1, <2>1, ReadingStep DEF CreatePost
<1>2. ASSUME NEW u \in Users, NEW p \in Posts, Repost(r, u, p)
      PROVE  IInv'
  <2>1. \E q \in Request : req' = [req EXCEPT ![r] = q] /\ Refers(q, posts, comments) /\ Threaded(q)
    BY <1>0, <1>2, EnterRecord DEF Repost, IInv, Ops
  <2>2. QED BY <1>2, <2>1, ReadingStep DEF Repost
<1>3. ASSUME NEW u \in Users, NEW p \in Posts, RemovePost(r, u, p)
      PROVE  IInv'
  <2>1. \E q \in Request : req' = [req EXCEPT ![r] = q] /\ Refers(q, posts, comments) /\ Threaded(q)
    BY <1>0, <1>3, EnterRecord DEF RemovePost, IInv, Ops, Writing
  <2>2. QED BY <1>3, <2>1, ReadingStep DEF RemovePost
<1>4. ASSUME NEW u \in Users, NEW p \in Posts \cup {NoPost}, NEW c \in Comments \cup {NoComment},
             AddComment(r, u, p, c)
      PROVE  IInv'
  <2>1. \E q \in Request : req' = [req EXCEPT ![r] = q] /\ Refers(q, posts, comments) /\ Threaded(q)
    <3>1. p # NoPost
      BY <1>0, <1>4 DEF AddComment, LivePosts
    <3>2. QED BY <1>4, <3>1, EnterRecord DEF AddComment, IInv, Ops
  <2>2. QED BY <1>4, <2>1, ReadingStep DEF AddComment
<1>5. ASSUME NEW u \in Users, NEW c \in Comments, RemoveComment(r, u, c)
      PROVE  IInv'
  <2>1. \E q \in Request : req' = [req EXCEPT ![r] = q] /\ Refers(q, posts, comments) /\ Threaded(q)
    <3>1. comment[c].post \in Posts
      BY DEF IInv, RowsRefer
    <3>2. QED BY <1>0, <1>5, <3>1, EnterRecord DEF RemoveComment, IInv, Ops, Writing
  <2>2. QED BY <1>5, <2>1, ReadingStep DEF RemoveComment
<1>6. QED BY <1>1, <1>2, <1>3, <1>4, <1>5 DEF Arrive

LEMMA CheckStep ==
    ASSUME IInv, NEW r \in Requests, CheckBlocks(r) \/ CheckParent(r) \/ Enqueue(r) \/ Fail(r)
    PROVE  IInv'
<1>1. CASE CheckBlocks(r)
  <2>1. CASE Answer(r)
    BY <1>1, <2>1, AnswerReading DEF CheckBlocks
  <2>2. CASE Goto(r, "parent") \/ (Goto(r, "commit") /\ req[r].comment = NoComment)
    <3>1. req[r].pc # "idle"
      BY <1>1 DEF CheckBlocks
    <3>2. \E q \in Request : req' = [req EXCEPT ![r] = q] /\ Refers(q, posts, comments) /\ Threaded(q)
      BY <2>2, <3>1, GotoRecord DEF IInv
    <3>3. QED BY <1>1, <3>2, ReadingStep DEF CheckBlocks
  <2>3. QED BY <1>1, <2>1, <2>2 DEF CheckBlocks
<1>2. CASE CheckParent(r)
  <2>1. CASE Answer(r)
    BY <1>2, <2>1, AnswerReading DEF CheckParent
  <2>2. CASE Goto(r, "commit") /\ comment[req[r].comment].post = req[r].post
    <3>1. req[r].pc # "idle"
      BY <1>2 DEF CheckParent
    <3>2. \E q \in Request : req' = [req EXCEPT ![r] = q] /\ Refers(q, posts, comments) /\ Threaded(q)
      BY <2>2, <3>1, GotoRecord DEF IInv
    <3>3. QED BY <1>2, <3>2, ReadingStep DEF CheckParent
  <2>3. QED BY <1>2, <2>1, <2>2 DEF CheckParent
<1>3. CASE Enqueue(r) \/ Fail(r)
  BY <1>3, AnswerReading DEF Enqueue, Fail
<1>4. QED BY <1>1, <1>2, <1>3

-----------------------------------------------------------------------------
(* The rows and the counters of them.                                      *)
LEMMA RowsFinite ==
    ASSUME TypeOK
    PROVE  /\ IsFiniteSet(Posts) /\ IsFiniteSet(Comments)
           /\ \A u : IsFiniteSet(LivePostsOf(u)) /\ Cardinality(LivePostsOf(u)) \in Nat
           /\ \A p : IsFiniteSet(LiveCommentsOn(p)) /\ Cardinality(LiveCommentsOn(p)) \in Nat
           /\ \A p : IsFiniteSet(RepostsOf(p)) /\ Cardinality(RepostsOf(p)) \in Nat
<1>1. posts \in Int /\ comments \in Int
  BY DEF TypeOK, PostsOK, CommentsOK
<1>2. IsFiniteSet(Posts) /\ IsFiniteSet(Comments)
  BY <1>1, FS_Interval DEF Posts, Comments
<1>3. \A u : LivePostsOf(u) \subseteq Posts
  BY DEF LivePostsOf, LivePosts
<1>4. \A p : LiveCommentsOn(p) \subseteq Comments /\ RepostsOf(p) \subseteq Posts
  BY DEF LiveCommentsOn, LiveComments, RepostsOf
<1>5. QED BY <1>2, <1>3, <1>4, FS_Subset, FS_CardinalityType

\* A counter that moves as its set does keeps its distance from it.
LEMMA OneMore ==
    ASSUME NEW S, NEW T, NEW x, IsFiniteSet(S), x \notin S, T = S \cup {x}
    PROVE  Cardinality(T) = Cardinality(S) + 1 /\ Cardinality(S) \in Nat
BY FS_AddElement, FS_CardinalityType

LEMMA OneLess ==
    ASSUME NEW S, NEW T, NEW x, IsFiniteSet(S), x \in S, T = S \ {x}
    PROVE  Cardinality(T) = Cardinality(S) - 1 /\ Cardinality(S) \in Nat
BY FS_RemoveElement, FS_CardinalityType

(* A post is inserted: what becomes of the rows.                           *)
LEMMA Inserted ==
    ASSUME IInv, NEW u \in Users, NEW parent \in Posts \cup {NoPost}, InsertPost(u, parent)
    PROVE  /\ posts + 1 \in Post /\ posts \in Nat /\ posts' = posts + 1 /\ posts' \in 0..MaxPosts
           /\ Posts' = Posts \cup {posts + 1} /\ posts + 1 \notin Posts
           /\ post' \in [Post -> [author : Users \cup {NoUser}, parent : 0..MaxPosts]]
           /\ post'[posts + 1].author = u /\ post'[posts + 1].parent = parent
           /\ \A p \in Posts : post'[p] = post[p]
           /\ removedPosts' = removedPosts /\ UNCHANGED commentVars
           /\ postsCount' \in [Users -> Int] /\ postsCount'[u] = postsCount[u] + 1
           /\ \A v \in Users : v # u => postsCount'[v] = postsCount[v]
<1>1. /\ posts \in Nat /\ posts < MaxPosts /\ parent \in 0..MaxPosts
      /\ post \in [Post -> [author : Users \cup {NoUser}, parent : 0..MaxPosts]]
      /\ postsCount \in [Users -> Int]
  BY DEF InsertPost, IInv, TypeOK, PostsOK, Posts, NoPost
<1>2. posts + 1 \in Post /\ posts' = posts + 1 /\ Posts' = Posts \cup {posts + 1} /\ posts + 1 \notin Posts
      /\ posts' \in 0..MaxPosts
  BY <1>1 DEF InsertPost, Post, Posts
<1>3. [author |-> u, parent |-> parent] \in [author : Users \cup {NoUser}, parent : 0..MaxPosts]
  BY <1>1
<1>4. post' = [post EXCEPT ![posts + 1] = [author |-> u, parent |-> parent]]
  BY DEF InsertPost
<1>5. /\ post' \in [Post -> [author : Users \cup {NoUser}, parent : 0..MaxPosts]]
      /\ post'[posts + 1].author = u /\ post'[posts + 1].parent = parent
  BY <1>1, <1>2, <1>3, <1>4
<1>6. \A p \in Posts : post'[p] = post[p]
  BY <1>1, <1>2, <1>4 DEF Posts, Post
<1>7. postsCount' \in [Users -> Int] /\ postsCount'[u] = postsCount[u] + 1
      /\ \A v \in Users : v # u => postsCount'[v] = postsCount[v]
  BY <1>1 DEF InsertPost
<1>8. QED BY <1>1, <1>2, <1>5, <1>6, <1>7 DEF InsertPost

(* The author's live posts and the counter of them grow together.          *)
LEMMA InsertedCounted ==
    ASSUME IInv, NEW u \in Users, NEW parent \in Posts \cup {NoPost}, InsertPost(u, parent)
    PROVE  /\ Cardinality(LivePostsOf(u)') = Cardinality(LivePostsOf(u)) + 1
           /\ \A v \in Users : v # u => LivePostsOf(v)' = LivePostsOf(v)
           /\ \A p : LiveCommentsOn(p)' = LiveCommentsOn(p)
           /\ LiveCommentsOn(posts + 1) = {}
<1>1. /\ Posts' = Posts \cup {posts + 1} /\ posts + 1 \notin Posts
      /\ post'[posts + 1].author = u
      /\ \A p \in Posts : post'[p] = post[p]
      /\ removedPosts' = removedPosts /\ UNCHANGED commentVars
      /\ removedPosts \subseteq Posts
  BY Inserted DEF IInv, TypeOK, PostsOK
<1>2. LivePosts' = LivePosts \cup {posts + 1}
  BY <1>1 DEF LivePosts
<1>3. \A p \in LivePosts : post'[p] = post[p]
  BY <1>1 DEF LivePosts
<1>4. LivePostsOf(u)' = LivePostsOf(u) \cup {posts + 1} /\ posts + 1 \notin LivePostsOf(u)
  BY <1>1, <1>2, <1>3 DEF LivePostsOf, LivePosts
<1>5. \A v \in Users : v # u => LivePostsOf(v)' = LivePostsOf(v)
  BY <1>1, <1>2, <1>3 DEF LivePostsOf
<1>6. \A p : LiveCommentsOn(p)' = LiveCommentsOn(p)
  BY <1>1 DEF LiveCommentsOn, LiveComments, Comments, commentVars
<1>7. LiveCommentsOn(posts + 1) = {}
  BY <1>1 DEF LiveCommentsOn, LiveComments, IInv, RowsRefer
<1>8. Cardinality(LivePostsOf(u)') = Cardinality(LivePostsOf(u)) + 1
  BY <1>4, OneMore, RowsFinite DEF IInv
<1>9. QED BY <1>5, <1>6, <1>7, <1>8

\* What CommitPost and CommitRepost leave alone or keep true.
LEMMA InsertedRows ==
    ASSUME IInv, NEW u \in Users, NEW parent \in Posts \cup {NoPost}, InsertPost(u, parent),
           repostsCount' = IF parent = NoPost THEN repostsCount
                           ELSE [repostsCount EXCEPT ![parent] = @ + 1]
    PROVE  PostsOK' /\ CommentsOK' /\ RowsRefer' /\ ThreadsStayOnPost' /\ RepostsExact'
<1>0. /\ posts + 1 \in Post /\ posts \in Nat /\ posts' = posts + 1 /\ posts' \in 0..MaxPosts
      /\ Posts' = Posts \cup {posts + 1} /\ posts + 1 \notin Posts
      /\ post' \in [Post -> [author : Users \cup {NoUser}, parent : 0..MaxPosts]]
      /\ post'[posts + 1].author = u /\ post'[posts + 1].parent = parent
      /\ \A p \in Posts : post'[p] = post[p]
      /\ removedPosts' = removedPosts /\ UNCHANGED commentVars
      /\ postsCount' \in [Users -> Int]
  BY Inserted
<1>1. /\ repostsCount \in [Post -> Int] /\ removedPosts \subseteq Posts
      /\ \A p \in Posts : post[p].author \in Users
      /\ \A p \in Posts : post[p].parent \in 0..posts
      /\ \A p \in Post \ Posts : repostsCount[p] = 0 /\ commentsCount[p] = 0
      /\ Posts \subseteq Post
  <2>1. Posts \subseteq Post
    BY <1>0 DEF Posts, Post
  <2>2. QED BY <2>1 DEF IInv, TypeOK, PostsOK, RowsRefer
<1>2. /\ repostsCount' \in [Post -> Int]
      /\ \A p \in Post : repostsCount'[p] = IF p = parent THEN repostsCount[p] + 1 ELSE repostsCount[p]
  BY <1>1 DEF NoPost, Post, Posts
<1>3. PostsOK'
  BY <1>0, <1>1, <1>2 DEF PostsOK
<1>4. CommentsOK' /\ ThreadsStayOnPost'
  BY <1>0 DEF IInv, TypeOK, CommentsOK, ThreadsStayOnPost, Comments, commentVars
<1>5. RowsRefer'
  <2>1. \A p \in Posts' : post'[p].parent \in 0..posts'
    BY <1>0, <1>1 DEF Posts, NoPost
  <2>2. \A c \in Comments' : comment'[c].post \in Posts'
    BY <1>0 DEF IInv, RowsRefer, Comments, commentVars
  <2>3. \A p \in Post \ Posts' : repostsCount'[p] = 0 /\ commentsCount'[p] = 0
    <3>1. \A p \in Post \ Posts' : p \in Post \ Posts /\ p # parent
      BY <1>0 DEF NoPost, Post
    <3>2. QED BY <1>0, <1>1, <1>2, <3>1 DEF commentVars
  <2>4. QED BY <2>1, <2>2, <2>3 DEF RowsRefer
<1>6. ASSUME NEW p \in Posts'
      PROVE  repostsCount'[p] = Cardinality(RepostsOf(p)')
  <2>1. IsFiniteSet(RepostsOf(p)) /\ Cardinality(RepostsOf(p)) \in Nat
    BY RowsFinite DEF IInv
  <2>2. p \in Post /\ repostsCount[p] \in Int
    BY <1>0, <1>1
  <2>3. repostsCount[p] = Cardinality(RepostsOf(p))
    <3>1. CASE p \in Posts
      BY <3>1 DEF IInv, RepostsExact
    <3>2. CASE p = posts + 1
      <4>0. posts + 1 \notin 0..posts
        BY <1>0
      <4>1. RepostsOf(p) = {}
        BY <1>1, <3>2, <4>0 DEF RepostsOf
      <4>2. QED BY <1>0, <1>1, <2>2, <3>2, <4>1, FS_EmptySet
    <3>3. QED BY <1>0, <3>1, <3>2
  <2>4. CASE p = parent
    <3>1. RepostsOf(p)' = RepostsOf(p) \cup {posts + 1} /\ posts + 1 \notin RepostsOf(p)
      BY <1>0, <2>4 DEF RepostsOf
    <3>2. Cardinality(RepostsOf(p)') = Cardinality(RepostsOf(p)) + 1
      BY <2>1, <3>1, OneMore
    <3>3. QED BY <1>2, <2>2, <2>3, <2>4, <3>2
  <2>5. CASE p # parent
    <3>1. RepostsOf(p)' = RepostsOf(p)
      BY <1>0, <2>5 DEF RepostsOf
    <3>2. QED BY <1>2, <2>2, <2>3, <2>5, <3>1
  <2>6. QED BY <2>4, <2>5
<1>7. RepostsExact'
  BY <1>6 DEF RepostsExact
<1>8. QED BY <1>3, <1>4, <1>5, <1>7

LEMMA CommitPostStep ==
    ASSUME IInv, NEW r \in Requests, CommitPost(r) \/ CommitRepost(r)
    PROVE  IInv'
<1>1. /\ req[r] \in Request /\ req[r].pc = "commit" /\ req[r].op \in {"create", "repost"}
      /\ Refers(req[r], posts, comments)
  BY DEF IInv, TypeOK, RequestsOK, CommitPost, CommitRepost, At, Refers, Posts, Comments
<1>2. req[r].user \in Users
  BY <1>1 DEF Refers, Writing
<1>3. \E u \in Users, parent \in Posts \cup {NoPost} :
         /\ InsertPost(u, parent)
         /\ repostsCount' = IF parent = NoPost THEN repostsCount
                            ELSE [repostsCount EXCEPT ![parent] = @ + 1]
  <2>1. CASE CommitPost(r)
    BY <1>2, <2>1 DEF CommitPost
  <2>2. CASE CommitRepost(r)
    <3>1. req[r].post \in Posts /\ req[r].post # NoPost
      BY <1>1, <2>2 DEF CommitRepost, At, Refers, Posts, NoPost
    <3>2. QED BY <1>2, <2>2, <3>1 DEF CommitRepost
  <2>3. QED BY <2>1, <2>2
<1> PICK u \in Users, parent \in Posts \cup {NoPost} :
         /\ InsertPost(u, parent)
         /\ repostsCount' = IF parent = NoPost THEN repostsCount
                            ELSE [repostsCount EXCEPT ![parent] = @ + 1]
  BY <1>3
<1>4. \E q \in Request : /\ req' = [req EXCEPT ![r] = q] /\ Refers(q, posts, comments)
                         /\ q.pc # "commit"
  <2>1. CASE CommitPost(r)
    <3>1. \E q \in Request : /\ req' = [req EXCEPT ![r] = q] /\ q.pc = "enqueue"
                             /\ Refers(q, posts, comments)
      BY <1>1, <2>1, GotoRecord DEF CommitPost, IInv
    <3>2. QED BY <3>1
  <2>2. CASE CommitRepost(r)
    BY <2>2, IdleRecord DEF CommitRepost, Answer
  <2>3. QED BY <2>1, <2>2
<1>5. PostsOK' /\ CommentsOK' /\ RowsRefer' /\ ThreadsStayOnPost' /\ RepostsExact'
  BY InsertedRows
<1>6. /\ posts \in Nat /\ posts' = posts + 1 /\ UNCHANGED commentVars
      /\ Posts' = Posts \cup {posts + 1} /\ posts + 1 \notin Posts /\ posts + 1 \in Post
      /\ postsCount'[u] = postsCount[u] + 1
      /\ \A v \in Users : v # u => postsCount'[v] = postsCount[v]
  BY Inserted
<1>7. RequestsOK' /\ HandlersThreaded'
  <2>1. PICK q \in Request : /\ req' = [req EXCEPT ![r] = q] /\ Refers(q, posts, comments)
                             /\ q.pc # "commit"
    BY <1>4
  <2>2. /\ comments \in Nat /\ comments' = comments /\ comment' = comment
        /\ posts' >= posts /\ comments' >= comments /\ posts' \in Nat
        /\ TypeOK /\ HandlersThreaded
    BY <1>6 DEF IInv, TypeOK, CommentsOK, commentVars
  <2>3. Refers(q, posts', comments') /\ Threaded(q)'
    BY <1>6, <2>1, <2>2 DEF Refers, Threaded
  <2>4. QED BY <2>1, <2>2, <2>3, HandlerMoves
<1>8. CountersNeverOvercount'
  <2>0. /\ Cardinality(LivePostsOf(u)') = Cardinality(LivePostsOf(u)) + 1
        /\ \A v \in Users : v # u => LivePostsOf(v)' = LivePostsOf(v)
        /\ \A p : LiveCommentsOn(p)' = LiveCommentsOn(p)
        /\ LiveCommentsOn(posts + 1) = {}
    BY InsertedCounted
  <2>1. \A v \in Users : postsCount'[v] <= Cardinality(LivePostsOf(v)')
    <3>1. \A v \in Users : /\ postsCount[v] \in Int /\ Cardinality(LivePostsOf(v)) \in Nat
                           /\ postsCount[v] <= Cardinality(LivePostsOf(v))
      BY RowsFinite DEF IInv, TypeOK, PostsOK, CountersNeverOvercount
    <3>2. QED BY <1>6, <2>0, <3>1
  <2>2. \A p \in Posts' : commentsCount'[p] <= Cardinality(LiveCommentsOn(p)')
    <3>1. commentsCount[posts + 1] = 0
      BY <1>6 DEF IInv, RowsRefer
    <3>2. QED BY <1>6, <2>0, <3>1, FS_EmptySet DEF IInv, CountersNeverOvercount, commentVars
  <2>3. QED BY <2>1, <2>2 DEF CountersNeverOvercount
<1>9. QED BY <1>5, <1>7, <1>8 DEF IInv, TypeOK

-----------------------------------------------------------------------------
(* A comment is inserted: what becomes of the rows.                        *)
LEMMA CommentInserted ==
    ASSUME IInv, NEW r \in Requests, CommitComment(r)
    PROVE  /\ req[r].post \in Posts /\ req[r].user \in Users
           /\ req[r].comment \in Comments \cup {NoComment}
           /\ req[r].comment # NoComment => comment[req[r].comment].post = req[r].post
           /\ comments + 1 \in Comment /\ comments \in Nat /\ comments' = comments + 1
           /\ comments' \in 0..MaxComments
           /\ Comments' = Comments \cup {comments + 1} /\ comments + 1 \notin Comments
           /\ comment' \in [Comment -> [author : Users \cup {NoUser}, post : 0..MaxPosts,
                                        parent : 0..MaxComments]]
           /\ comment'[comments + 1].post = req[r].post
           /\ comment'[comments + 1].parent = req[r].comment
           /\ \A c \in Comments : comment'[c] = comment[c]
           /\ removedComments' = removedComments /\ UNCHANGED postVars
<1>1. /\ comments \in Nat /\ comments < MaxComments /\ posts \in 0..MaxPosts
      /\ comment \in [Comment -> [author : Users \cup {NoUser}, post : 0..MaxPosts,
                                  parent : 0..MaxComments]]
  BY DEF CommitComment, IInv, TypeOK, PostsOK, CommentsOK
<1>2. /\ req[r].post \in Posts /\ req[r].user \in Users
      /\ req[r].comment \in Comments \cup {NoComment}
      /\ req[r].comment # NoComment => comment[req[r].comment].post = req[r].post
  BY DEF CommitComment, At, IInv, TypeOK, RequestsOK, Writing, HandlersThreaded, Threaded
<1>3. comments + 1 \in Comment /\ comments' = comments + 1 /\ comments' \in 0..MaxComments
      /\ Comments' = Comments \cup {comments + 1} /\ comments + 1 \notin Comments
  BY <1>1 DEF CommitComment, Comment, Comments
<1> DEFINE row == [author |-> req[r].user, post |-> req[r].post, parent |-> req[r].comment]
<1>4. /\ row \in [author : Users \cup {NoUser}, post : 0..MaxPosts, parent : 0..MaxComments]
      /\ row.post = req[r].post /\ row.parent = req[r].comment
  BY <1>1, <1>2 DEF Posts, Comments, NoComment
<1>5. comment' = [comment EXCEPT ![comments + 1] = row]
  BY DEF CommitComment
<1> HIDE DEF row
<1>6. /\ comment' \in [Comment -> [author : Users \cup {NoUser}, post : 0..MaxPosts,
                                   parent : 0..MaxComments]]
      /\ comment'[comments + 1] = row
  BY <1>1, <1>3, <1>4, <1>5
<1>7. \A c \in Comments : comment'[c] = comment[c]
  BY <1>1, <1>3, <1>5 DEF Comments, Comment
<1>8. QED BY <1>1, <1>2, <1>3, <1>4, <1>6, <1>7 DEF CommitComment

(* The comments on a post and the counter of them grow together.           *)
LEMMA CommentCounts ==
    ASSUME IInv, NEW r \in Requests, CommitComment(r)
    PROVE  \A q \in Posts : /\ commentsCount'[q] \in Int /\ Cardinality(LiveCommentsOn(q)') \in Nat
                            /\ commentsCount'[q] - Cardinality(LiveCommentsOn(q)')
                                  = commentsCount[q] - Cardinality(LiveCommentsOn(q))
<1> PICK p \in Posts : p = req[r].post
  BY CommentInserted
<1>1. /\ Comments' = Comments \cup {comments + 1} /\ comments + 1 \notin Comments
      /\ comment'[comments + 1].post = p
      /\ \A d \in Comments : comment'[d] = comment[d]
      /\ removedComments' = removedComments
      /\ commentsCount' = [commentsCount EXCEPT ![p] = @ + 1]
  BY CommentInserted DEF CommitComment
<1>2. commentsCount \in [Post -> Int] /\ Posts \subseteq Post
  BY DEF IInv, TypeOK, PostsOK, CommentsOK, Posts, Post
<1>3. /\ LiveComments' = LiveComments \cup {comments + 1} /\ comments + 1 \notin LiveComments
      /\ \A d \in LiveComments : comment'[d] = comment[d]
  BY <1>1 DEF LiveComments, IInv, TypeOK, CommentsOK
<1>4. ASSUME NEW q \in Posts
      PROVE  /\ commentsCount'[q] \in Int /\ Cardinality(LiveCommentsOn(q)') \in Nat
             /\ commentsCount'[q] - Cardinality(LiveCommentsOn(q)')
                   = commentsCount[q] - Cardinality(LiveCommentsOn(q))
  <2>1. /\ IsFiniteSet(LiveCommentsOn(q)) /\ Cardinality(LiveCommentsOn(q)) \in Nat
        /\ commentsCount[q] \in Int /\ commentsCount[p] \in Int
    BY <1>2, RowsFinite DEF IInv
  <2>2. CASE q = p
    <3>1. LiveCommentsOn(q)' = LiveCommentsOn(q) \cup {comments + 1}
          /\ comments + 1 \notin LiveCommentsOn(q)
      BY <1>1, <1>3, <2>2 DEF LiveCommentsOn
    <3>2. Cardinality(LiveCommentsOn(q)') = Cardinality(LiveCommentsOn(q)) + 1
      BY <2>1, <3>1, OneMore
    <3>3. commentsCount'[q] = commentsCount[q] + 1
      BY <1>1, <1>2, <2>2
    <3>4. QED BY <2>1, <3>2, <3>3
  <2>3. CASE q # p
    <3>1. LiveCommentsOn(q)' = LiveCommentsOn(q)
      BY <1>1, <1>3, <2>3 DEF LiveCommentsOn
    <3>2. commentsCount'[q] = commentsCount[q]
      BY <1>1, <1>2, <2>3
    <3>3. QED BY <2>1, <3>1, <3>2
  <2>4. QED BY <2>2, <2>3
<1>5. QED BY <1>4

LEMMA CommitCommentStep ==
    ASSUME IInv, NEW r \in Requests, CommitComment(r)
    PROVE  IInv'
<1> PICK p \in Posts, c \in Comments \cup {NoComment} :
         /\ p = req[r].post /\ c = req[r].comment
         /\ c # NoComment => comment[c].post = p
  BY CommentInserted
<1>1. /\ comments + 1 \in Comment /\ comments \in Nat /\ comments' = comments + 1
      /\ comments' \in 0..MaxComments
      /\ Comments' = Comments \cup {comments + 1} /\ comments + 1 \notin Comments
      /\ comment' \in [Comment -> [author : Users \cup {NoUser}, post : 0..MaxPosts,
                                   parent : 0..MaxComments]]
      /\ comment'[comments + 1].post = p /\ comment'[comments + 1].parent = c
      /\ \A d \in Comments : comment'[d] = comment[d]
      /\ removedComments' = removedComments /\ UNCHANGED postVars
  BY CommentInserted
<1>2. /\ commentsCount' = [commentsCount EXCEPT ![p] = @ + 1]
      /\ repliesCount' = IF c = NoComment THEN repliesCount
                                          ELSE [repliesCount EXCEPT ![c] = @ + 1]
      /\ req' = [req EXCEPT ![r] = Idle]
  BY DEF CommitComment, Answer
<1>3. /\ posts \in Nat /\ Posts \subseteq Post /\ commentsCount \in [Post -> Int]
      /\ repliesCount \in [Comment -> Int]
  BY DEF IInv, TypeOK, PostsOK, CommentsOK, Posts, Post
<1>4. /\ commentsCount' \in [Post -> Int] /\ commentsCount'[p] = commentsCount[p] + 1
      /\ \A q \in Post : q # p => commentsCount'[q] = commentsCount[q]
  BY <1>2, <1>3
<1>5. PostsOK' /\ RepostsExact'
  <2>1. PostsOK'
    BY <1>1 DEF IInv, TypeOK, PostsOK, Posts, postVars
  <2>2. \A q : RepostsOf(q)' = RepostsOf(q)
    BY <1>1 DEF RepostsOf, Posts, postVars
  <2>3. RepostsExact'
    BY <1>1, <2>2 DEF IInv, RepostsExact, Posts, postVars
  <2>4. QED BY <2>1, <2>3
<1>6. CommentsOK'
  <2>1. repliesCount' \in [Comment -> Int]
    <3>1. c # NoComment => c \in Comment
      BY <1>1 DEF Comments, Comment
    <3>2. QED BY <1>2, <1>3, <3>1
  <2>2. removedComments' \subseteq Comments'
    BY <1>1 DEF IInv, TypeOK, CommentsOK
  <2>3. QED BY <1>1, <1>4, <2>1, <2>2 DEF CommentsOK
<1>7. RowsRefer'
  <2>1. \A q \in Posts' : post'[q].parent \in 0..posts'
    BY <1>1 DEF IInv, RowsRefer, Posts, postVars
  <2>2. \A d \in Comments' : comment'[d].post \in Posts'
    BY <1>1 DEF IInv, RowsRefer, Posts, postVars
  <2>3. \A q \in Post \ Posts' : repostsCount'[q] = 0 /\ commentsCount'[q] = 0
    BY <1>1, <1>4 DEF IInv, RowsRefer, Posts, postVars
  <2>4. QED BY <2>1, <2>2, <2>3 DEF RowsRefer
<1>8. ThreadsStayOnPost'
  <2>1. SUFFICES ASSUME NEW d \in Comments', comment'[d].parent # NoComment
                 PROVE  /\ comment'[d].parent < d
                        /\ comment'[comment'[d].parent].post = comment'[d].post
    BY DEF ThreadsStayOnPost
  <2>2. CASE d \in Comments
    <3>1. /\ comment[d].parent < d /\ comment[comment[d].parent].post = comment[d].post
          /\ comment'[d] = comment[d] /\ comment[d].parent # NoComment
      BY <1>1, <2>1, <2>2 DEF IInv, ThreadsStayOnPost
    <3>2. comment[d].parent \in 0..MaxComments
      <4>1. d \in Comment
        BY <1>1, <2>2 DEF Comments, Comment
      <4>2. QED BY <4>1 DEF IInv, TypeOK, CommentsOK
    <3>3. comment[d].parent \in Comments
      BY <1>1, <2>2, <3>1, <3>2 DEF Comments, NoComment
    <3>4. QED BY <1>1, <3>1, <3>3
  <2>3. CASE d = comments + 1
    <3>1. comment'[d].parent = c /\ c \in Comments /\ comment'[d].post = p /\ comment[c].post = p
      BY <1>1, <2>1, <2>3
    <3>2. c < d
      BY <1>1, <2>3, <3>1 DEF Comments
    <3>3. QED BY <1>1, <3>1, <3>2
  <2>4. QED BY <1>1, <2>2, <2>3
<1>9. RequestsOK' /\ HandlersThreaded'
  <2>1. /\ TypeOK /\ HandlersThreaded /\ posts' \in Nat /\ comments' \in Nat
        /\ posts' >= posts /\ comments' >= comments
        /\ \A d \in Comments : comment'[d].post = comment[d].post
    BY <1>1, <1>3 DEF IInv, postVars
  <2>2. Idle \in Request /\ Refers(Idle, posts', comments') /\ Threaded(Idle)'
    BY IdleRecord DEF Threaded, Idle
  <2>3. QED BY <1>2, <2>1, <2>2, HandlerMoves
<1>10. CountersNeverOvercount'
  <2>1. \A u \in Users : postsCount'[u] <= Cardinality(LivePostsOf(u)')
    BY <1>1 DEF IInv, CountersNeverOvercount, LivePostsOf, LivePosts, Posts, postVars
  <2>2. \A q \in Posts : commentsCount'[q] <= Cardinality(LiveCommentsOn(q)')
    <3>1. \A q \in Posts : /\ commentsCount[q] \in Int /\ Cardinality(LiveCommentsOn(q)) \in Nat
                           /\ commentsCount[q] <= Cardinality(LiveCommentsOn(q))
      BY <1>3, RowsFinite DEF IInv, CountersNeverOvercount
    <3>2. QED BY <3>1, CommentCounts
  <2>3. Posts' = Posts
    BY <1>1 DEF Posts, postVars
  <2>4. QED BY <2>1, <2>2, <2>3 DEF CountersNeverOvercount
<1>11. QED BY <1>5, <1>6, <1>7, <1>8, <1>9, <1>10 DEF IInv, TypeOK

-----------------------------------------------------------------------------
(* Removals.  A post or comment that is still there goes together with its *)
(* unit of the counter; of one that is gone already only the unit goes.    *)
LEMMA RemovedPostCounts ==
    ASSUME IInv, NEW r \in Requests, CommitRemovePost(r)
    PROVE  /\ \A u \in Users :
                 /\ postsCount'[u] \in Int /\ Cardinality(LivePostsOf(u)') \in Nat
                 /\ postsCount'[u] - Cardinality(LivePostsOf(u)')
                       <= postsCount[u] - Cardinality(LivePostsOf(u))
                 /\ ~RemovedTwice(r) =>
                       postsCount'[u] - Cardinality(LivePostsOf(u)')
                          = postsCount[u] - Cardinality(LivePostsOf(u))
           /\ postsCount' \in [Users -> Int]
           /\ removedPosts' \subseteq Posts
<1> PICK p : p = req[r].post
  OBVIOUS
<1>1. p \in Posts
  BY DEF CommitRemovePost, At, IInv, TypeOK, RequestsOK
<1>2. post[p].author \in Users /\ postsCount \in [Users -> Int] /\ removedPosts \subseteq Posts
  BY <1>1 DEF IInv, TypeOK, PostsOK
<1> PICK a \in Users : a = post[p].author
  BY <1>2
<1>3. /\ removedPosts' = removedPosts \cup {p} /\ postsCount' = [postsCount EXCEPT ![a] = @ - 1]
      /\ Posts' = Posts /\ post' = post
      /\ ~RemovedTwice(r) <=> p \notin removedPosts
  BY DEF CommitRemovePost, RemovedTwice, At, Posts
<1>4. /\ postsCount' \in [Users -> Int] /\ postsCount'[a] = postsCount[a] - 1
      /\ \A u \in Users : u # a => postsCount'[u] = postsCount[u]
  BY <1>2, <1>3
<1>5. LivePosts' = LivePosts \ {p}
  BY <1>3 DEF LivePosts
<1>6. ASSUME NEW u \in Users
      PROVE  /\ postsCount'[u] \in Int /\ Cardinality(LivePostsOf(u)') \in Nat
             /\ postsCount'[u] - Cardinality(LivePostsOf(u)')
                   <= postsCount[u] - Cardinality(LivePostsOf(u))
             /\ ~RemovedTwice(r) =>
                   postsCount'[u] - Cardinality(LivePostsOf(u)')
                      = postsCount[u] - Cardinality(LivePostsOf(u))
  <2>1. IsFiniteSet(LivePostsOf(u)) /\ Cardinality(LivePostsOf(u)) \in Nat /\ postsCount[u] \in Int
    BY <1>2, RowsFinite DEF IInv
  <2>2. CASE u = a /\ p \notin removedPosts
    <3>1. LivePostsOf(u)' = LivePostsOf(u) \ {p} /\ p \in LivePostsOf(u)
      BY <1>1, <1>3, <1>5, <2>2 DEF LivePostsOf, LivePosts
    <3>2. /\ Cardinality(LivePostsOf(u)') = Cardinality(LivePostsOf(u)) - 1
          /\ Cardinality(LivePostsOf(u)') \in Nat
      <4>1. Cardinality(LivePostsOf(u)') = Cardinality(LivePostsOf(u)) - 1
        BY <2>1, <3>1, OneLess
      <4>2. Cardinality(LivePostsOf(u)') \in Nat
        BY <2>1, <3>1, FS_RemoveElement, FS_CardinalityType
      <4>3. QED BY <4>1, <4>2
    <3>3. QED BY <1>4, <2>1, <2>2, <3>2
  <2>3. CASE u # a \/ p \in removedPosts
    <3>1. LivePostsOf(u)' = LivePostsOf(u)
      BY <1>3, <1>5, <2>3 DEF LivePostsOf, LivePosts
    <3>2. QED BY <1>3, <1>4, <2>1, <2>3, <3>1
  <2>4. QED BY <2>2, <2>3
<1>7. removedPosts' \subseteq Posts
  BY <1>1, <1>2, <1>3
<1>8. QED BY <1>4, <1>6, <1>7

LEMMA CommitRemovePostStep ==
    ASSUME IInv, NEW r \in Requests, CommitRemovePost(r)
    PROVE  IInv'
<1>1. /\ postsCount' \in [Users -> Int] /\ removedPosts' \subseteq Posts
      /\ UNCHANGED <<posts, post, repostsCount, commentVars>>
      /\ req' = [req EXCEPT ![r] = Idle]
  BY RemovedPostCounts DEF CommitRemovePost, Answer
<1>2. PostsOK'
  BY <1>1 DEF IInv, TypeOK, PostsOK, Posts
<1>3. CommentsOK' /\ RowsRefer' /\ ThreadsStayOnPost'
  BY <1>1 DEF IInv, TypeOK, CommentsOK, RowsRefer, ThreadsStayOnPost, Posts, Comments, commentVars
<1>4. RepostsExact'
  <2>1. \A q : RepostsOf(q)' = RepostsOf(q)
    BY <1>1 DEF RepostsOf, Posts
  <2>2. QED BY <1>1, <2>1 DEF IInv, RepostsExact, Posts
<1>5. RequestsOK' /\ HandlersThreaded'
  <2>1. /\ TypeOK /\ HandlersThreaded /\ posts' \in Nat /\ comments' \in Nat
        /\ posts' >= posts /\ comments' >= comments
        /\ \A d \in Comments : comment'[d].post = comment[d].post
    BY <1>1 DEF IInv, TypeOK, PostsOK, CommentsOK, commentVars
  <2>2. Idle \in Request /\ Refers(Idle, posts', comments') /\ Threaded(Idle)'
    BY IdleRecord DEF Threaded, Idle
  <2>3. QED BY <1>1, <2>1, <2>2, HandlerMoves
<1>6. CountersNeverOvercount'
  <2>1. \A u \in Users : postsCount'[u] <= Cardinality(LivePostsOf(u)')
    <3>1. \A u \in Users : /\ postsCount[u] \in Int /\ Cardinality(LivePostsOf(u)) \in Nat
                           /\ postsCount[u] <= Cardinality(LivePostsOf(u))
      BY RowsFinite DEF IInv, TypeOK, PostsOK, CountersNeverOvercount
    <3>2. \A u \in Users : /\ postsCount'[u] \in Int /\ Cardinality(LivePostsOf(u)') \in Nat
                           /\ postsCount'[u] - Cardinality(LivePostsOf(u)')
                                 <= postsCount[u] - Cardinality(LivePostsOf(u))
      BY RemovedPostCounts
    <3>3. QED BY <3>1, <3>2
  <2>2. \A q : LiveCommentsOn(q)' = LiveCommentsOn(q)
    BY <1>1 DEF LiveCommentsOn, LiveComments, Comments, commentVars
  <2>3. QED BY <1>1, <2>1, <2>2 DEF IInv, CountersNeverOvercount, Posts, commentVars
<1>7. QED BY <1>2, <1>3, <1>4, <1>5, <1>6 DEF IInv, TypeOK

LEMMA RemovedCommentCounts ==
    ASSUME IInv, NEW r \in Requests, CommitRemoveComment(r)
    PROVE  /\ \A q \in Posts :
                 /\ commentsCount'[q] \in Int /\ Cardinality(LiveCommentsOn(q)') \in Nat
                 /\ commentsCount'[q] - Cardinality(LiveCommentsOn(q)')
                       <= commentsCount[q] - Cardinality(LiveCommentsOn(q))
                 /\ ~RemovedTwice(r) =>
                       commentsCount'[q] - Cardinality(LiveCommentsOn(q)')
                          = commentsCount[q] - Cardinality(LiveCommentsOn(q))
           /\ commentsCount' \in [Post -> Int]
           /\ \A q \in Post \ Posts : commentsCount'[q] = commentsCount[q]
           /\ removedComments' \subseteq Comments
<1> PICK p, c : p = req[r].post /\ c = req[r].comment
  OBVIOUS
<1>1. p \in Posts /\ c \in Comments /\ comment[c].post = p
  BY DEF CommitRemoveComment, At, IInv, TypeOK, RequestsOK, HandlersThreaded, Threaded
<1>2. commentsCount \in [Post -> Int] /\ removedComments \subseteq Comments /\ Posts \subseteq Post
  BY DEF IInv, TypeOK, PostsOK, CommentsOK, Posts, Post
<1>3. /\ removedComments' = removedComments \cup {c}
      /\ commentsCount' = [commentsCount EXCEPT ![p] = @ - 1]
      /\ Comments' = Comments /\ comment' = comment
      /\ ~RemovedTwice(r) <=> c \notin removedComments
  BY DEF CommitRemoveComment, RemovedTwice, At, Comments
<1>4. /\ commentsCount' \in [Post -> Int] /\ commentsCount'[p] = commentsCount[p] - 1
      /\ \A q \in Post : q # p => commentsCount'[q] = commentsCount[q]
  BY <1>1, <1>2, <1>3
<1>5. LiveComments' = LiveComments \ {c}
  BY <1>3 DEF LiveComments
<1>6. ASSUME NEW q \in Posts
      PROVE  /\ commentsCount'[q] \in Int /\ Cardinality(LiveCommentsOn(q)') \in Nat
             /\ commentsCount'[q] - Cardinality(LiveCommentsOn(q)')
                   <= commentsCount[q] - Cardinality(LiveCommentsOn(q))
             /\ ~RemovedTwice(r) =>
                   commentsCount'[q] - Cardinality(LiveCommentsOn(q)')
                      = commentsCount[q] - Cardinality(LiveCommentsOn(q))
  <2>1. /\ IsFiniteSet(LiveCommentsOn(q)) /\ Cardinality(LiveCommentsOn(q)) \in Nat
        /\ q \in Post /\ commentsCount[q] \in Int
    BY <1>2, RowsFinite DEF IInv
  <2>2. CASE q = p /\ c \notin removedComments
    <3>1. LiveCommentsOn(q)' = LiveCommentsOn(q) \ {c} /\ c \in LiveCommentsOn(q)
      BY <1>1, <1>3, <1>5, <2>2 DEF LiveCommentsOn, LiveComments
    <3>2. Cardinality(LiveCommentsOn(q)') = Cardinality(LiveCommentsOn(q)) - 1
      BY <2>1, <3>1, OneLess
    <3>3. Cardinality(LiveCommentsOn(q)') \in Nat
      BY <2>1, <3>1, FS_RemoveElement, FS_CardinalityType
    <3>4. QED BY <1>4, <2>1, <2>2, <3>2, <3>3
  <2>3. CASE q # p \/ c \in removedComments
    <3>1. LiveCommentsOn(q)' = LiveCommentsOn(q)
      BY <1>1, <1>3, <1>5, <2>3 DEF LiveCommentsOn, LiveComments
    <3>2. QED BY <1>3, <1>4, <2>1, <2>3, <3>1
  <2>4. QED BY <2>2, <2>3
<1>7. removedComments' \subseteq Comments /\ \A q \in Post \ Posts : commentsCount'[q] = commentsCount[q]
  BY <1>1, <1>2, <1>3, <1>4
<1>8. QED BY <1>4, <1>6, <1>7

LEMMA CommitRemoveCommentStep ==
    ASSUME IInv, NEW r \in Requests, CommitRemoveComment(r)
    PROVE  IInv'
<1>1. /\ commentsCount' \in [Post -> Int] /\ removedComments' \subseteq Comments
      /\ \A q \in Post \ Posts : commentsCount'[q] = commentsCount[q]
      /\ UNCHANGED <<comments, comment, repliesCount, postVars>>
      /\ req' = [req EXCEPT ![r] = Idle]
  BY RemovedCommentCounts DEF CommitRemoveComment, Answer
<1>2. PostsOK' /\ CommentsOK' /\ ThreadsStayOnPost'
  BY <1>1 DEF IInv, TypeOK, PostsOK, CommentsOK, ThreadsStayOnPost, Posts, Comments, postVars
<1>3. RowsRefer'
  BY <1>1 DEF IInv, RowsRefer, Posts, Comments, postVars
<1>4. RepostsExact'
  <2>1. \A q : RepostsOf(q)' = RepostsOf(q)
    BY <1>1 DEF RepostsOf, Posts, postVars
  <2>2. QED BY <1>1, <2>1 DEF IInv, RepostsExact, Posts, postVars
<1>5. RequestsOK' /\ HandlersThreaded'
  <2>1. /\ TypeOK /\ HandlersThreaded /\ posts' \in Nat /\ comments' \in Nat
        /\ posts' >= posts /\ comments' >= comments
        /\ \A d \in Comments : comment'[d].post = comment[d].post
    BY <1>1 DEF IInv, TypeOK, PostsOK, CommentsOK, postVars
  <2>2. Idle \in Request /\ Refers(Idle, posts', comments') /\ Threaded(Idle)'
    BY IdleRecord DEF Threaded, Idle
  <2>3. QED BY <1>1, <2>1, <2>2, HandlerMoves
<1>6. CountersNeverOvercount'
  <2>1. \A q \in Posts : commentsCount'[q] <= Cardinality(LiveCommentsOn(q)')
    <3>1. \A q \in Posts : /\ commentsCount[q] \in Int /\ Cardinality(LiveCommentsOn(q)) \in Nat
                           /\ commentsCount[q] <= Cardinality(LiveCommentsOn(q))
      <4>1. Posts \subseteq Post
        BY DEF IInv, TypeOK, PostsOK, Posts, Post
      <4>2. commentsCount \in [Post -> Int]
        BY DEF IInv, TypeOK, CommentsOK
      <4>3. QED BY <4>1, <4>2, RowsFinite DEF IInv, CountersNeverOvercount
    <3>2. \A q \in Posts : /\ commentsCount'[q] \in Int /\ Cardinality(LiveCommentsOn(q)') \in Nat
                           /\ commentsCount'[q] - Cardinality(LiveCommentsOn(q)')
                                 <= commentsCount[q] - Cardinality(LiveCommentsOn(q))
      BY RemovedCommentCounts
    <3>3. QED BY <3>1, <3>2
  <2>2. \A u : LivePostsOf(u)' = LivePostsOf(u)
    BY <1>1 DEF LivePostsOf, LivePosts, Posts, postVars
  <2>3. QED BY <1>1, <2>1, <2>2 DEF IInv, CountersNeverOvercount, Posts, postVars
<1>7. QED BY <1>2, <1>3, <1>4, <1>5, <1>6 DEF IInv, TypeOK

-----------------------------------------------------------------------------
LEMMA InitIInv == Init => IInv
<1> SUFFICES ASSUME Init PROVE IInv
  OBVIOUS
<1>1. Posts = {} /\ Comments = {} /\ posts = 0 /\ comments = 0
  BY DEF Init, Posts, Comments
<1>2. PostsOK
  <2>1. [author |-> NoUser, parent |-> NoPost] \in [author : Users \cup {NoUser}, parent : 0..MaxPosts]
    BY DEF NoPost
  <2>2. post \in [Post -> [author : Users \cup {NoUser}, parent : 0..MaxPosts]]
    BY <2>1 DEF Init
  <2>3. QED BY <1>1, <2>2 DEF Init, PostsOK
<1>3. CommentsOK
  <2>1. [author |-> NoUser, post |-> NoPost, parent |-> NoComment]
           \in [author : Users \cup {NoUser}, post : 0..MaxPosts, parent : 0..MaxComments]
    BY DEF NoPost, NoComment
  <2>2. comment \in [Comment -> [author : Users \cup {NoUser}, post : 0..MaxPosts,
                                 parent : 0..MaxComments]]
    BY <2>1 DEF Init
  <2>3. QED BY <1>1, <2>2 DEF Init, CommentsOK
<1>4. RequestsOK /\ HandlersThreaded
  BY IdleRecord DEF Init, RequestsOK, HandlersThreaded
<1>5. RowsRefer
  BY <1>1 DEF Init, RowsRefer
<1>6. ThreadsStayOnPost /\ RepostsExact
  BY <1>1 DEF ThreadsStayOnPost, RepostsExact
<1>7. CountersNeverOvercount
  <2>1. \A u : LivePostsOf(u) = {}
    BY <1>1 DEF LivePostsOf, LivePosts
  <2>2. QED BY <1>1, <2>1, FS_EmptySet DEF Init, CountersNeverOvercount
<1>8. QED BY <1>2, <1>3, <1>4, <1>5, <1>6, <1>7 DEF IInv, TypeOK

LEMMA NextIInv == IInv /\ [Next]_vars => IInv'
<1> SUFFICES ASSUME IInv, [Next]_vars PROVE IInv'
  OBVIOUS
<1>1. CASE UNCHANGED vars
  <2>1. Reading /\ req' = req
    BY <1>1 DEF vars, Reading
  <2>2. PostsOK' /\ CommentsOK' /\ RowsRefer' /\ ThreadsStayOnPost' /\ RepostsExact'
        /\ CountersNeverOvercount'
    BY <2>1 DEF IInv, TypeOK, PostsOK, CommentsOK, RowsRefer, ThreadsStayOnPost, RepostsExact, RepostsOf,
           CountersNeverOvercount, LivePostsOf, LiveCommentsOn, LivePosts, LiveComments, Posts,
           Comments, Reading, postVars, commentVars
  <2>3. RequestsOK' /\ HandlersThreaded'
    BY <2>1 DEF IInv, TypeOK, RequestsOK, HandlersThreaded, Threaded, Posts, Comments, Reading,
           postVars, commentVars
  <2>4. QED BY <2>2, <2>3 DEF IInv, TypeOK
<1>2. CASE Next
  <2>1. PICK r \in Requests : Arrive(r) \/ Proceed(r) \/ Fail(r)
    BY <1>2 DEF Next
  <2>2. CASE Arrive(r)
    BY <2>2, ArriveStep
  <2>3. CASE CheckBlocks(r) \/ CheckParent(r) \/ Enqueue(r) \/ Fail(r)
    BY <2>3, CheckStep
  <2>4. CASE CommitPost(r) \/ CommitRepost(r)
    BY <2>4, CommitPostStep
  <2>5. CASE CommitComment(r)
    BY <2>5, CommitCommentStep
  <2>6. CASE CommitRemovePost(r)
    BY <2>6, CommitRemovePostStep
  <2>7. CASE CommitRemoveComment(r)
    BY <2>7, CommitRemoveCommentStep
  <2>8. QED BY <2>1, <2>2, <2>3, <2>4, <2>5, <2>6, <2>7 DEF Proceed
<1>3. QED BY <1>1, <1>2

THEOREM Invariance == Spec => []IInv
<1>1. QED BY InitIInv, NextIInv, PTL DEF Spec

(* The rows agree with one another: handlers and rows refer to rows that   *)
(* exist, a reply stays on the post of the comment it answers, and         *)
(* repostsCount is the number of reposts and quotes, however handlers      *)
(* overlap and die.                                                        *)
THEOREM RowsAreConsistent == Spec => []Consistent
<1>1. IInv => Consistent
  BY DEF IInv, Consistent
<1>2. QED BY <1>1, Invariance, PTL

(* No profile counts more posts, and no post more comments, than there     *)
(* are, whatever is removed twice.                                         *)
THEOREM CountersDoNotOvercount == Spec => []CountersNeverOvercount
<1>1. IInv => CountersNeverOvercount
  BY DEF IInv
<1>2. QED BY <1>1, Invariance, PTL

-----------------------------------------------------------------------------
(* Exact counters stay exact through every step that removes nothing twice.*)
LEMMA ExactnessKept ==
    ASSUME IInv, CountersExact, NEW r \in Requests, Arrive(r) \/ Proceed(r) \/ Fail(r),
           ~RemovedTwice(r)
    PROVE  CountersExact'
<1>1. /\ \A u \in Users : postsCount[u] \in Int /\ Cardinality(LivePostsOf(u)) \in Nat
      /\ \A p \in Posts : commentsCount[p] \in Int /\ Cardinality(LiveCommentsOn(p)) \in Nat
  <2>1. Posts \subseteq Post
    BY DEF IInv, TypeOK, PostsOK, Posts, Post
  <2>2. QED BY <2>1, RowsFinite DEF IInv, TypeOK, PostsOK, CommentsOK
<1>2. /\ \A u \in Users : postsCount[u] = Cardinality(LivePostsOf(u))
      /\ \A p \in Posts : commentsCount[p] = Cardinality(LiveCommentsOn(p))
  BY DEF CountersExact
<1>3. UNCHANGED postVars => \A u : postsCount' = postsCount /\ LivePostsOf(u)' = LivePostsOf(u)
  BY DEF postVars, LivePostsOf, LivePosts, Posts
<1>4. UNCHANGED commentVars =>
         \A p : commentsCount' = commentsCount /\ LiveCommentsOn(p)' = LiveCommentsOn(p)
  BY DEF commentVars, LiveCommentsOn, LiveComments, Comments
<1>5. CASE Reading
  BY <1>2, <1>3, <1>4, <1>5 DEF Reading, CountersExact, Posts, postVars
<1>6. CASE CommitPost(r) \/ CommitRepost(r)
  <2>1. PICK u \in Users, parent \in Posts \cup {NoPost} : InsertPost(u, parent)
    <3>1. req[r].user \in Users /\ (CommitRepost(r) => req[r].post \in Posts)
      BY <1>6 DEF IInv, TypeOK, RequestsOK, CommitPost, CommitRepost, At, Writing
    <3>2. QED BY <1>6, <3>1 DEF CommitPost, CommitRepost
  <2>2. /\ posts + 1 \in Post /\ posts' = posts + 1 /\ posts + 1 \notin Posts
        /\ Posts' = Posts \cup {posts + 1} /\ UNCHANGED commentVars
        /\ postsCount'[u] = postsCount[u] + 1
        /\ \A v \in Users : v # u => postsCount'[v] = postsCount[v]
    BY <2>1, Inserted
  <2>3. /\ Cardinality(LivePostsOf(u)') = Cardinality(LivePostsOf(u)) + 1
        /\ \A v \in Users : v # u => LivePostsOf(v)' = LivePostsOf(v)
        /\ LiveCommentsOn(posts + 1) = {}
    BY <2>1, InsertedCounted
  <2>4. \A v \in Users : postsCount'[v] = Cardinality(LivePostsOf(v)')
    BY <1>1, <1>2, <2>2, <2>3
  <2>5. commentsCount[posts + 1] = 0
    BY <2>2 DEF IInv, RowsRefer
  <2>6. \A p \in Posts' : commentsCount'[p] = Cardinality(LiveCommentsOn(p)')
    BY <1>2, <1>4, <2>2, <2>3, <2>5, FS_EmptySet
  <2>7. QED BY <2>4, <2>6 DEF CountersExact
<1>7. CASE CommitComment(r)
  <2>1. UNCHANGED postVars /\ Posts' = Posts
    BY <1>7 DEF CommitComment, postVars, Posts
  <2>2. \A p \in Posts : commentsCount'[p] = Cardinality(LiveCommentsOn(p)')
    <3>1. \A p \in Posts : /\ commentsCount'[p] \in Int /\ Cardinality(LiveCommentsOn(p)') \in Nat
                           /\ commentsCount'[p] - Cardinality(LiveCommentsOn(p)')
                                 = commentsCount[p] - Cardinality(LiveCommentsOn(p))
      BY <1>7, CommentCounts
    <3>2. QED BY <1>1, <1>2, <3>1
  <2>3. QED BY <1>2, <1>3, <2>1, <2>2 DEF CountersExact
<1>8. CASE CommitRemovePost(r)
  <2>1. UNCHANGED commentVars /\ Posts' = Posts
    BY <1>8 DEF CommitRemovePost, Posts
  <2>2. \A u \in Users : postsCount'[u] = Cardinality(LivePostsOf(u)')
    BY <1>1, <1>2, <1>8, RemovedPostCounts
  <2>3. QED BY <1>2, <1>4, <2>1, <2>2 DEF CountersExact
<1>9. CASE CommitRemoveComment(r)
  <2>1. UNCHANGED postVars /\ Posts' = Posts
    BY <1>9 DEF CommitRemoveComment, postVars, Posts
  <2>2. \A p \in Posts : commentsCount'[p] = Cardinality(LiveCommentsOn(p)')
    <3>1. \A p \in Posts : /\ commentsCount'[p] \in Int /\ Cardinality(LiveCommentsOn(p)') \in Nat
                           /\ commentsCount'[p] - Cardinality(LiveCommentsOn(p)')
                                 = commentsCount[p] - Cardinality(LiveCommentsOn(p))
      BY <1>9, RemovedCommentCounts
    <3>2. QED BY <1>1, <1>2, <3>1
  <2>3. QED BY <1>2, <1>3, <2>1, <2>2 DEF CountersExact
<1>10. QED
  BY <1>5, <1>6, <1>7, <1>8, <1>9
     DEF Arrive, CreatePost, Repost, AddComment, RemovePost, RemoveComment, Proceed,
         CheckBlocks, CheckParent, Enqueue, Fail

LEMMA DriftStep ==
    ASSUME IInv, [Next]_vars
    PROVE  [CountersExact /\ ~CountersExact' => \E r \in Requests : RemovedTwice(r)]_vars
<1>1. CASE UNCHANGED vars
  BY <1>1
<1>2. CASE Next
  <2>1. PICK r \in Requests : Arrive(r) \/ Proceed(r) \/ Fail(r)
    BY <1>2 DEF Next
  <2>2. QED BY <2>1, ExactnessKept
<1>3. QED BY <1>1, <1>2

(* Exact counters of posts and comments are lost in one way only, whatever *)
(* else overlaps or dies: a row is removed that another removal had taken  *)
(* between this handler's read and its transaction.                        *)
THEOREM OnlyDoubleRemovalDrifts == Spec => DriftOnlyByDoubleRemoval
<1>1. IInv /\ [Next]_vars =>
         [CountersExact /\ ~CountersExact' => \E r \in Requests : RemovedTwice(r)]_vars
  BY DriftStep
<1>2. QED BY <1>1, Invariance, PTL DEF Spec, DriftOnlyByDoubleRemoval

=============================================================================
