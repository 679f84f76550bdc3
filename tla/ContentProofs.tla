---------------------------- MODULE ContentProofs ----------------------------
(***************************************************************************)
(* Proofs about Moderation, Feeds, CachedPages, MediaPipeline and          *)
(* Notifications for any texts, tags, reads, uploads, events and handlers, *)
(* any number of runs of a job and any life of a cached page; and about    *)
(* their composition, MCContent.                                           *)
(***************************************************************************)
EXTENDS MCContent, FiniteSetTheorems, TLAPS

USE QueuesAssumption

-----------------------------------------------------------------------------
(* What an edit in progress holds of the fields it was not sent.           *)
EditsOK ==
    \A e \in Editors : edit[e].pc = "write" =>
        /\ post.life # "none"
        /\ edit[e].tags = NoText => edit[e].oldTags \in Tags
        /\ ~edit[e].overtaken => /\ edit[e].text = NoText => edit[e].oldText = post.text
                                 /\ edit[e].tags = NoText => edit[e].oldTags = post.tags

(* A job carries the text of the post until somebody edits it, and a       *)
(* verdict is the service's on that text; a job that waits has a run left. *)
JobOK ==
    /\ post.life = "none" => job.pc = "none" /\ post.status = "PENDING"
    /\ job.pc # "none" /\ ~post.edited => job.text = post.text
    /\ job.pc = "answered" => job.verdict = Judgement(job.text)
    /\ job.pc \in {"none", "due", "waiting"} => job.runs < Attempts

(* The inductive invariant.                                                *)
IInv == TypeOK /\ EditsOK /\ JobOK /\ ApprovedUnlessEdited

LEMMA JudgementOf ==
    ASSUME NEW t
    PROVE  Judgement(t) \in Statuses /\ (Judgement(t) = "APPROVED" => t \in Good)
BY DEF Judgement, Statuses

LEMMA InitIInv == Init => IInv
<1> SUFFICES ASSUME Init PROVE IInv
  OBVIOUS
<1>1. TypeOK
  BY DEF Init, TypeOK, Post, Job, Edit, Idle, Maybe, Statuses
<1>2. EditsOK
  BY DEF Init, EditsOK, Idle
<1>3. JobOK /\ ApprovedUnlessEdited
  BY DEF Init, JobOK, ApprovedUnlessEdited
<1>4. QED BY <1>1, <1>2, <1>3 DEF IInv

LEMMA CreatePostStep ==
    ASSUME IInv, NEW t \in Maybe(Texts), NEW g \in Tags, CreatePost(t, g)
    PROVE  IInv'
<1>1. TypeOK'
  BY DEF IInv, CreatePost, TypeOK, Post, Job
<1>2. EditsOK' /\ JobOK' /\ ApprovedUnlessEdited'
  BY DEF IInv, CreatePost, TypeOK, Post, Job, EditsOK, JobOK, ApprovedUnlessEdited
<1>3. QED BY <1>1, <1>2 DEF IInv

LEMMA BeginEditStep ==
    ASSUME IInv, NEW e \in Editors, NEW t \in Maybe(Texts), NEW g \in Maybe(Tags), BeginEdit(e, t, g)
    PROVE  IInv'
<1> DEFINE ne == [pc |-> "write", text |-> t, tags |-> g, overtaken |-> FALSE,
                  oldText |-> IF t = NoText THEN post.text ELSE NoText,
                  oldTags |-> IF g = NoText THEN post.tags ELSE NoText]
<1>1. post.text \in Maybe(Texts) /\ post.tags \in Tags /\ Tags \subseteq Maybe(Tags)
      /\ NoText \in Maybe(Texts) /\ NoText \in Maybe(Tags)
  BY DEF IInv, TypeOK, Post, Maybe
<1>2. ne \in Edit
  BY <1>1 DEF Edit
<1>3. /\ ne.tags = NoText => ne.oldTags \in Tags
      /\ ne.text = NoText => ne.oldText = post.text
      /\ ne.tags = NoText => ne.oldTags = post.tags
  BY <1>1
<1>4. edit' = [edit EXCEPT ![e] = ne] /\ post' = post /\ job' = job /\ post.life = "live"
  BY DEF BeginEdit
<1> HIDE DEF ne
<1>5. TypeOK'
  BY <1>2, <1>4 DEF IInv, TypeOK
<1>6. EditsOK'
  BY <1>3, <1>4 DEF IInv, TypeOK, EditsOK
<1>7. JobOK' /\ ApprovedUnlessEdited'
  BY <1>4 DEF IInv, JobOK, ApprovedUnlessEdited
<1>8. QED BY <1>5, <1>6, <1>7 DEF IInv

LEMMA WriteEditStep ==
    ASSUME IInv, NEW e \in Editors, WriteEdit(e)
    PROVE  IInv'
<1>1. Given(edit[e].text, edit[e].oldText) \in Maybe(Texts)
  BY DEF IInv, TypeOK, Edit, Given
<1>2. Given(edit[e].tags, edit[e].oldTags) \in Tags
  BY DEF IInv, TypeOK, EditsOK, Edit, Given, Maybe, WriteEdit
<1>3. post' \in Post /\ post'.edited /\ post'.life = post.life /\ post'.status = post.status
  BY <1>1, <1>2 DEF IInv, TypeOK, Post, WriteEdit
<1>4. /\ edit' \in [Editors -> Edit]
      /\ edit'[e].pc = "idle"
      /\ \A f \in Editors : f # e /\ edit'[f].pc = "write" =>
            /\ edit'[f].overtaken /\ edit[f].pc = "write"
            /\ edit'[f].tags = edit[f].tags /\ edit'[f].oldTags = edit[f].oldTags
  <2>1. Idle \in Edit /\ Idle.pc = "idle"
    BY DEF Idle, Edit, Maybe
  <2>2. \A f \in Editors : edit[f] \in Edit
    BY DEF IInv, TypeOK
  <2>3. \A f \in Editors : LET o == [edit[f] EXCEPT !.overtaken = TRUE] IN
            o \in Edit /\ o.overtaken /\ o.pc = edit[f].pc /\ o.tags = edit[f].tags
            /\ o.oldTags = edit[f].oldTags
    BY <2>2 DEF Edit
  <2>4. QED BY <2>1, <2>2, <2>3 DEF WriteEdit
<1>5. TypeOK'
  BY <1>3, <1>4 DEF IInv, TypeOK, WriteEdit
<1>6. EditsOK'
  BY <1>3, <1>4 DEF IInv, EditsOK
<1>7. JobOK' /\ ApprovedUnlessEdited'
  BY <1>3 DEF IInv, JobOK, ApprovedUnlessEdited, WriteEdit
<1>8. QED BY <1>5, <1>6, <1>7 DEF IInv

LEMMA EditFailsStep ==
    ASSUME IInv, NEW e \in Editors, EditFails(e)
    PROVE  IInv'
<1>1. Idle \in Edit /\ Idle.pc = "idle"
  BY DEF Idle, Edit, Maybe
<1>2. edit' = [edit EXCEPT ![e] = Idle] /\ post' = post /\ job' = job
  BY DEF EditFails
<1>3. TypeOK' /\ EditsOK'
  BY <1>1, <1>2 DEF IInv, TypeOK, EditsOK
<1>4. QED BY <1>2, <1>3 DEF IInv, JobOK, ApprovedUnlessEdited

\* Steps that change nothing but the job, and give no verdict but the service's.
LEMMA JobMoves ==
    ASSUME IInv, post' = post, edit' = edit, job' \in Job, job'.text = job.text, job.pc # "none",
           job'.pc = "answered" => job'.verdict = Judgement(job.text),
           job'.pc \in {"none", "due", "waiting"} => job'.runs < Attempts
    PROVE  IInv'
BY DEF IInv, TypeOK, EditsOK, JobOK, ApprovedUnlessEdited

LEMMA WorkerStep ==
    ASSUME IInv, Worker
    PROVE  IInv'
<1>1. CASE TakeJob
  <2>1. job \in Job /\ job.runs + 1 \in 0..Attempts
    BY <1>1 DEF IInv, TypeOK, Job, JobOK, TakeJob
  <2>2. job' \in Job /\ job'.text = job.text /\ job'.pc = "asking"
    BY <1>1, <2>1 DEF Job, TakeJob
  <2>3. QED BY <1>1, <2>2, JobMoves DEF TakeJob
<1>2. CASE AskService
  <2>1. PICK v \in {Judgement(job.text), "null"} :
            job' = [job EXCEPT !.pc = IF v = "null" THEN "done" ELSE "answered", !.verdict = v]
    BY <1>2 DEF AskService
  <2>2. v \in Statuses \cup {"null"}
    BY JudgementOf
  <2>3. /\ job' \in Job /\ job'.text = job.text /\ job'.verdict = v
        /\ job'.pc = IF v = "null" THEN "done" ELSE "answered"
    BY <2>1, <2>2 DEF IInv, TypeOK, Job
  <2>4. QED BY <1>2, <2>3, JobMoves DEF AskService
<1>3. CASE WriteVerdict
  <2>1. job.pc = "answered" /\ job.verdict = Judgement(job.text) /\ Judgement(job.text) \in Statuses
    BY <1>3, JudgementOf DEF IInv, JobOK, WriteVerdict
  <2>2. /\ post' \in Post /\ post'.text = post.text /\ post'.tags = post.tags /\ post'.life = post.life
        /\ post'.edited = post.edited /\ post'.status = Judgement(job.text)
    BY <1>3, <2>1 DEF IInv, TypeOK, Post, WriteVerdict
  <2>3. job' \in Job /\ job'.pc = "written" /\ job'.text = job.text /\ edit' = edit
    BY <1>3 DEF IInv, TypeOK, Job, WriteVerdict
  <2>4. TypeOK' /\ EditsOK' /\ JobOK'
    BY <2>1, <2>2, <2>3 DEF IInv, TypeOK, EditsOK, JobOK
  <2>5. ApprovedUnlessEdited'
    BY <2>1, <2>2, JudgementOf DEF IInv, JobOK, ApprovedUnlessEdited
  <2>6. QED BY <2>4, <2>5 DEF IInv
<1>4. CASE JobDone
  <2>1. job' \in Job /\ job'.text = job.text /\ job'.pc = "done"
    BY <1>4 DEF IInv, TypeOK, Job, JobDone
  <2>2. QED BY <1>4, <2>1, JobMoves DEF JobDone
<1>5. QED BY <1>1, <1>2, <1>3, <1>4 DEF Worker

LEMMA OtherJobStep ==
    ASSUME IInv, Enqueue \/ JobFails
    PROVE  IInv'
<1>1. CASE Enqueue
  <2>1. PICK pc \in {"waiting", "none"} : job' = [job EXCEPT !.pc = pc]
    BY <1>1 DEF Enqueue
  <2>2. job' \in Job /\ job'.text = job.text /\ job'.pc = pc /\ job'.runs = job.runs
    BY <2>1 DEF IInv, TypeOK, Job
  <2>3. job.runs < Attempts
    BY <1>1 DEF IInv, JobOK, Enqueue
  <2>4. QED BY <1>1, <2>2, <2>3, JobMoves DEF Enqueue
<1>2. CASE JobFails
  <2>1. /\ job' \in Job /\ job'.text = job.text /\ job'.runs = job.runs
        /\ job'.pc = IF job.runs < Attempts THEN "waiting" ELSE "failed"
    BY <1>2 DEF IInv, TypeOK, Job, JobFails, AfterFailure
  <2>2. QED BY <1>2, <2>1, JobMoves DEF JobFails
<1>3. QED BY <1>1, <1>2

LEMMA RemovePostStep ==
    ASSUME IInv, RemovePost
    PROVE  IInv'
<1>1. /\ post' \in Post /\ post'.life = "removed" /\ post'.text = post.text /\ post'.tags = post.tags
      /\ post'.status = post.status /\ post'.edited = post.edited /\ job' = job /\ edit' = edit
  BY DEF IInv, TypeOK, Post, RemovePost
<1>2. QED BY <1>1 DEF IInv, TypeOK, EditsOK, JobOK, ApprovedUnlessEdited

LEMMA NextIInv == IInv /\ [Next]_vars => IInv'
<1> SUFFICES ASSUME IInv, [Next]_vars PROVE IInv'
  OBVIOUS
<1>1. CASE \E t \in Maybe(Texts), g \in Tags : CreatePost(t, g)
  BY <1>1, CreatePostStep
<1>2. CASE Enqueue \/ JobFails
  BY <1>2, OtherJobStep
<1>3. CASE RemovePost
  BY <1>3, RemovePostStep
<1>4. CASE Worker
  BY <1>4, WorkerStep
<1>5. CASE \E e \in Editors, t \in Maybe(Texts), g \in Maybe(Tags) : BeginEdit(e, t, g)
  BY <1>5, BeginEditStep
<1>6. CASE \E e \in Editors : WriteEdit(e) \/ EditFails(e)
  BY <1>6, WriteEditStep, EditFailsStep
<1>7. CASE UNCHANGED vars
  BY <1>7 DEF vars, IInv, TypeOK, EditsOK, JobOK, ApprovedUnlessEdited
<1>8. QED BY <1>1, <1>2, <1>3, <1>4, <1>5, <1>6, <1>7 DEF Next

\* No verdict that failed, was repeated or came late approves another text than the
\* one it is about (PythonProcessor.moderate), unless the post was edited.
THEOREM VerdictsApprove == Spec => []ApprovedUnlessEdited
<1>1. IInv => ApprovedUnlessEdited
  BY DEF IInv
<1>2. QED BY <1>1, InitIInv, NextIInv, PTL DEF Spec

\* What one edit is not sent it leaves alone, unless another one has committed since
\* it read the post (PostsService.update).
THEOREM EditsLeaveTheRest == Spec => EditsKeepTheRest
<1> DEFINE A == \A e \in Editors :
                   edit[e].pc = "write" /\ edit'[e].pc = "idle" /\ ~edit[e].overtaken
                       => /\ edit[e].text = NoText => post'.text = post.text
                          /\ edit[e].tags = NoText => post'.tags = post.tags
<1>1. IInv /\ [Next]_vars => A
  <2> SUFFICES ASSUME IInv, [Next]_vars, NEW e \in Editors,
                      edit[e].pc = "write", edit'[e].pc = "idle", ~edit[e].overtaken
               PROVE  /\ edit[e].text = NoText => post'.text = post.text
                      /\ edit[e].tags = NoText => post'.tags = post.tags
    OBVIOUS
  <2>1. CASE post' = post
    BY <2>1
  <2>2. CASE \E f \in Editors : WriteEdit(f)
    <3>1. PICK f \in Editors : WriteEdit(f)
      BY <2>2
    <3>2. f = e
      BY <3>1 DEF IInv, TypeOK, Edit, WriteEdit
    <3>3. QED BY <3>1, <3>2 DEF IInv, TypeOK, EditsOK, Post, Given, WriteEdit
  <2>3. CASE edit' = edit
    BY <2>3
  <2>4. post' = post \/ edit' = edit \/ \E f \in Editors : WriteEdit(f)
    BY DEF Next, CreatePost, Enqueue, RemovePost, Worker, TakeJob, AskService, WriteVerdict, JobDone,
           JobFails, BeginEdit, EditFails, vars
  <2>5. QED BY <2>1, <2>2, <2>3, <2>4
<1>2. QED BY <1>1, InitIInv, NextIInv, PTL DEF Spec, EditsKeepTheRest

-----------------------------------------------------------------------------
(* Feeds.  A follow that is there together with a block came in after it;  *)
(* what has spoken against showing the post ever since a read began does   *)
(* so now, and the first query of the read has seen as much of it as it    *)
(* looks at.                                                               *)
FollowIsMarked == bond.follows /\ (bond.blocks \/ bond.blockedBy) => bond.late

StillStands(s, n) ==
    /\ s.removed => n.removed
    /\ s.refused => n.refused
    /\ s.deleted => n.deleted
    /\ s.blocks => n.blocks
    /\ s.blockedBy => n.blockedBy
    /\ s.stranger => n.stranger
WasSeen(s, seen) ==
    /\ s.removed => ~seen.live
    /\ s.deleted => ~seen.active
    /\ s.blocks => seen.blocks
    /\ s.blocks \/ s.blockedBy => (seen.follows => seen.late)
AskedOK(d) == StillStands(d.since, Stands(d.who, post, author, bond)) /\ WasSeen(d.since, d.seen)

\* What StandingRulesAreHonoured asks of one answer.
Honours(q, s, seen) ==
    /\ s.removed => q \in {"profile", "bio"}
    /\ s.refused => q \notin {"timeline", "following", "popular"}
    /\ s.deleted => q \notin {"timeline", "profile", "bio"}
    /\ s.blocks => q \notin {"timeline", "link", "popular", "profile", "bio"}
    /\ s.blockedBy => q \notin {"link", "profile", "bio"}
    /\ s.blocks \/ s.blockedBy => (q = "following" => seen.late)
    /\ s.stranger /\ q = "bio" => seen.visibility = "PUBLIC"

ReadOK(d) ==
    /\ d.pc = "asked" => AskedOK(d)
    /\ d.pc = "shown" => Honours(d.query, d.since, d.seen)

FeedInv == IInv /\ FeedTypeOK /\ FollowIsMarked /\ \A r \in Readers : ReadOK(reader[r])

LEMMA StandsType ==
    ASSUME NEW w, NEW p, NEW u, NEW b \in Bond
    PROVE  Stands(w, p, u, b) \in Since
BY DEF Stands, Since, Bond

LEMMA FeedInitInv == FeedInit => FeedInv
<1> SUFFICES ASSUME FeedInit PROVE FeedInv
  OBVIOUS
<1>1. IInv
  BY InitIInv DEF FeedInit
<1>2. NoRead \in Read /\ NoRead.pc = "idle"
  BY DEF NoRead, Read, Whos, Queries, Seen, Since, Visibilities
<1>3. author = "ACTIVE" /\ bond = NoBond /\ NoBond \in Bond /\ ~NoBond.follows
  BY DEF FeedInit, NoBond, Bond
<1>4. reader \in [Readers -> Read] /\ \A r \in Readers : reader[r].pc = "idle"
  BY <1>2 DEF FeedInit
<1>5. FeedTypeOK
  BY <1>1, <1>3, <1>4 DEF IInv, FeedTypeOK
<1>6. QED
  BY <1>1, <1>3, <1>4, <1>5 DEF FeedInv, FollowIsMarked, ReadOK

\* A step that leaves the reads to be watched: what they hold against the post is what
\* still stands after it.
LEMMA WatchStep ==
    ASSUME FeedInv, Watch, IInv', bond' \in Bond, author' \in {"ACTIVE", "DELETED"}, FollowIsMarked'
    PROVE  FeedInv'
<1>1. ASSUME NEW r \in Readers
      PROVE  reader'[r] \in Read /\ ReadOK(reader[r])'
  <2>1. PICK d \in Read : d = reader[r]
    BY DEF FeedInv, FeedTypeOK
  <2>2. PICK n \in Since : n = Stands(d.who, post', author', bond')
    BY StandsType
  <2>3. ReadOK(d)
    BY <2>1 DEF FeedInv
  <2>4. CASE d.pc # "asked"
    <3>1. reader'[r] = d
      BY <2>1, <2>4 DEF Watch, Watched
    <3>2. QED
      BY <2>3, <2>4, <3>1 DEF ReadOK
  <2>5. CASE d.pc = "asked"
    <3>1. PICK s : s = [f \in DOMAIN n |-> d.since[f] /\ n[f]]
      OBVIOUS
    <3>2. reader'[r] = [d EXCEPT !.since = s]
      BY <2>1, <2>2, <2>5, <3>1 DEF Watch, Watched
    <3>3. s \in Since /\ StillStands(s, n) /\ StillStands(s, d.since)
      BY <3>1 DEF Since, StillStands, Read
    <3>4. PICK e : e = [d EXCEPT !.since = s]
      OBVIOUS
    <3>5. e \in Read /\ e.pc = "asked" /\ e.who = d.who /\ e.since = s /\ e.seen = d.seen
      BY <2>5, <3>3, <3>4 DEF Read
    <3>6. WasSeen(s, d.seen)
      BY <2>3, <2>5, <3>3 DEF ReadOK, AskedOK, WasSeen, StillStands
    <3>7. reader'[r] = e /\ AskedOK(e)'
      BY <2>2, <3>2, <3>3, <3>4, <3>5, <3>6 DEF AskedOK
    <3>8. QED
      BY <3>5, <3>7 DEF ReadOK
  <2>6. QED BY <2>4, <2>5
<1>2. reader' \in [Readers -> Read]
  BY <1>1 DEF Watch
<1>3. QED
  BY <1>1, <1>2 DEF FeedInv, FeedTypeOK, IInv

\* Every write to the rows between viewer and author keeps the mark.
LEMMA BondMoves ==
    ASSUME FeedInv, Block \/ BlockedByAuthor \/ Unblock \/ CheckFollow \/ InsertFollow \/ FollowFails \/ Unfollow
    PROVE  bond' \in Bond /\ FollowIsMarked'
<1>1. bond \in Bond /\ FollowIsMarked
  BY DEF FeedInv, FeedTypeOK
<1>2. CASE Block \/ BlockedByAuthor \/ Unfollow
  BY <1>1, <1>2 DEF Bond, FollowIsMarked, Block, BlockedByAuthor, Unfollow, Severed
<1>3. CASE Unblock \/ CheckFollow \/ FollowFails
  BY <1>1, <1>3 DEF Bond, FollowIsMarked, Unblock, CheckFollow, FollowFails
<1>4. CASE InsertFollow
  BY <1>1, <1>4 DEF Bond, FollowIsMarked, InsertFollow
<1>5. QED BY <1>2, <1>3, <1>4

LEMMA AskStep ==
    ASSUME FeedInv, NEW r \in Readers, NEW w \in Whos, NEW q \in Queries, NEW v \in Visibilities,
           Ask(r, w, q, v)
    PROVE  FeedInv'
<1>1. PICK s, n : s = FirstQuery(w, v) /\ n = Stands(w, post, author, bond)
  OBVIOUS
<1>2. bond \in Bond /\ author \in {"ACTIVE", "DELETED"} /\ FollowIsMarked
  BY DEF FeedInv, FeedTypeOK
<1>3. n \in Since /\ s \in Seen
  BY <1>1, <1>2, StandsType DEF FirstQuery, Seen, Bond, Live
<1>4. StillStands(n, n) /\ WasSeen(n, s)
  BY <1>1, <1>2 DEF StillStands, WasSeen, Stands, FirstQuery, Live, FollowIsMarked, Bond
<1>5. PICK d : d = [pc |-> "asked", who |-> w, query |-> q, seen |-> s, since |-> n]
  OBVIOUS
<1>6. /\ d \in Read /\ d.pc = "asked" /\ AskedOK(d)
      /\ reader' = [reader EXCEPT ![r] = d] /\ UNCHANGED <<vars, author, bond>>
  BY <1>1, <1>3, <1>4, <1>5 DEF Ask, Read, AskedOK
<1>7. reader' \in [Readers -> Read] /\ IInv' /\ FollowIsMarked' /\ TypeOK'
  BY <1>2, <1>6, NextIInv DEF FeedInv, FeedTypeOK, FollowIsMarked, IInv
<1>8. ASSUME NEW o \in Readers PROVE ReadOK(reader[o])'
  <2>1. PICK e : e = reader'[o]
    OBVIOUS
  <2>2. ReadOK(e)
    BY <1>6, <2>1 DEF FeedInv, FeedTypeOK, ReadOK
  <2>3. ReadOK(e)'
    BY <1>6, <2>2 DEF ReadOK, AskedOK, vars
  <2>4. QED BY <2>1, <2>3
<1>9. QED
  BY <1>2, <1>6, <1>7, <1>8 DEF FeedInv, FeedTypeOK

\* What a read shows honours what its first query has seen and what stands now.
LEMMA ShownHonours ==
    ASSUME NEW d \in Read, AskedOK(d), NEW x \in Circumstances, Shows(d, x), bond \in Bond
    PROVE  Honours(d.query, d.since, d.seen)
<1>1. PICK n : n = Stands(d.who, post, author, bond)
  OBVIOUS
<1>2. StillStands(d.since, n) /\ WasSeen(d.since, d.seen)
  BY <1>1 DEF AskedOK
<1>3. /\ n.removed => ~Live
      /\ n.refused => ~Shown /\ post.status # "APPROVED"
      /\ n.deleted => author # "ACTIVE"
      /\ n.blocks => d.who = "viewer" /\ bond.blocks
      /\ n.blockedBy => d.who = "viewer" /\ bond.blockedBy
      /\ n.stranger => d.who = "anonymous" \/ (d.who = "viewer" /\ ~bond.follows)
  BY <1>1 DEF Stands, Live, Shown
<1>4. CASE d.query = "timeline" /\ Timeline(d, x)
  BY <1>2, <1>3, <1>4 DEF StillStands, WasSeen, Timeline, Honours
<1>5. CASE d.query = "link" /\ ByLink(d)
  BY <1>2, <1>3, <1>5 DEF StillStands, WasSeen, ByLink, BlockedEitherWay, Honours
<1>6. CASE (d.query = "images" /\ Images(d)) \/ (d.query = "counters" /\ Counters(d))
  BY <1>2, <1>6 DEF WasSeen, Images, Counters, Honours
<1>7. CASE d.query = "following" /\ Following(d, x)
  BY <1>2, <1>3, <1>7 DEF StillStands, WasSeen, Following, Honours
<1>8. CASE d.query = "popular" /\ ByPopularity(d, x)
  BY <1>2, <1>3, <1>8 DEF StillStands, WasSeen, ByPopularity, Honours
<1>9. CASE (d.query = "recommended" /\ ByService) \/ (d.query = "bookmarks" /\ Bookmarks)
  BY <1>2, <1>3, <1>9 DEF StillStands, ByService, Bookmarks, Honours
<1>10. CASE \/ d.query = "profile" /\ Profile(d)
            \/ d.query = "bio" /\ Profile(d) /\ CanViewPosts(d)
  <2>1. /\ ~d.since.deleted /\ ~d.since.blocks /\ ~d.since.blockedBy
    BY <1>2, <1>3, <1>10 DEF StillStands, WasSeen, Profile, BlockedEitherWay
  <2>2. d.since.stranger /\ d.query = "bio" => d.seen.visibility = "PUBLIC"
    BY <1>2, <1>3, <1>10 DEF StillStands, CanViewPosts
  <2>3. QED BY <1>10, <2>1, <2>2 DEF Honours
<1>11. QED
  BY <1>4, <1>5, <1>6, <1>7, <1>8, <1>9, <1>10 DEF Shows, Bio

LEMMA AnswerOrLeaveStep ==
    ASSUME FeedInv, NEW r \in Readers, Answer(r) \/ Leave(r)
    PROVE  FeedInv'
<1>1. PICK d \in Read : d = reader[r]
  BY DEF FeedInv, FeedTypeOK
<1>2. NoRead \in Read /\ NoRead.pc = "idle"
  BY DEF NoRead, Read, Whos, Queries, Seen, Since, Visibilities
<1>3. bond \in Bond /\ author \in {"ACTIVE", "DELETED"} /\ FollowIsMarked /\ ReadOK(d)
  BY <1>1 DEF FeedInv, FeedTypeOK
<1>4. PICK e \in Read : /\ e.pc # "asked" /\ ReadOK(e)
                        /\ reader' = [reader EXCEPT ![r] = e] /\ UNCHANGED <<vars, author, bond>>
  <2>1. CASE Leave(r)
    BY <1>2, <2>1 DEF Leave, ReadOK
  <2>2. CASE Answer(r)
    <3>1. PICK x \in Circumstances :
              reader' = [reader EXCEPT ![r] = IF Shows(d, x) THEN [d EXCEPT !.pc = "shown"] ELSE NoRead]
      BY <1>1, <2>2 DEF Answer
    <3>2. UNCHANGED <<vars, author, bond>> /\ d.pc = "asked"
      BY <1>1, <2>2 DEF Answer
    <3>3. CASE Shows(d, x)
      <4>1. PICK e : e = [d EXCEPT !.pc = "shown"]
        OBVIOUS
      <4>2. e \in Read /\ e.pc = "shown" /\ e.query = d.query /\ e.since = d.since /\ e.seen = d.seen
        BY <4>1 DEF Read
      <4>3. Honours(d.query, d.since, d.seen)
        BY <1>3, <3>2, <3>3, ShownHonours DEF ReadOK
      <4>4. ReadOK(e)
        BY <4>2, <4>3 DEF ReadOK
      <4>5. QED BY <3>1, <3>2, <3>3, <4>1, <4>2, <4>4
    <3>4. CASE ~Shows(d, x)
      BY <1>2, <3>1, <3>2, <3>4 DEF ReadOK
    <3>5. QED BY <3>3, <3>4
  <2>3. QED BY <2>1, <2>2
<1>5. reader' \in [Readers -> Read] /\ IInv' /\ FollowIsMarked' /\ TypeOK'
  BY <1>3, <1>4, NextIInv DEF FeedInv, FeedTypeOK, FollowIsMarked, IInv
<1>6. ASSUME NEW o \in Readers PROVE ReadOK(reader[o])'
  <2>1. PICK g : g = reader'[o]
    OBVIOUS
  <2>2. ReadOK(g)
    BY <1>4, <2>1 DEF FeedInv, FeedTypeOK
  <2>3. ReadOK(g)'
    BY <1>4, <2>2 DEF ReadOK, AskedOK, vars
  <2>4. QED BY <2>1, <2>3
<1>7. QED
  BY <1>3, <1>4, <1>5, <1>6 DEF FeedInv, FeedTypeOK

LEMMA FeedKeepsPosts == [FeedNext]_feedVars => [Next]_vars
BY DEF FeedNext, PostStep, DeleteAuthor, BondStep, ReadStep, Ask, Answer, Leave, feedVars

LEMMA FeedNextInv == FeedInv /\ [FeedNext]_feedVars => FeedInv'
<1> SUFFICES ASSUME FeedInv, [FeedNext]_feedVars PROVE FeedInv'
  OBVIOUS
<1>1. IInv'
  BY NextIInv, FeedKeepsPosts DEF FeedInv
<1>2. bond \in Bond /\ author \in {"ACTIVE", "DELETED"} /\ FollowIsMarked
  BY DEF FeedInv, FeedTypeOK
<1>3. CASE PostStep \/ DeleteAuthor
  <2>1. Watch /\ bond' = bond /\ author' \in {"ACTIVE", "DELETED"}
    BY <1>2, <1>3 DEF PostStep, DeleteAuthor
  <2>2. FollowIsMarked'
    BY <1>2, <2>1 DEF FollowIsMarked
  <2>3. QED BY <1>1, <1>2, <2>1, <2>2, WatchStep
<1>4. CASE BondStep
  <2>1. Watch /\ author' = author
    BY <1>4 DEF BondStep
  <2>2. bond' \in Bond /\ FollowIsMarked'
    BY <1>4, BondMoves DEF BondStep
  <2>3. QED BY <1>1, <1>2, <2>1, <2>2, WatchStep
<1>5. CASE ReadStep
  BY <1>5, AskStep, AnswerOrLeaveStep DEF ReadStep
<1>6. CASE UNCHANGED feedVars
  <2>1. UNCHANGED <<post, job, edit, author, bond, reader>>
    BY <1>6 DEF feedVars, vars
  <2>2. FeedTypeOK' /\ FollowIsMarked'
    BY <1>1, <2>1 DEF FeedInv, FeedTypeOK, FollowIsMarked, IInv
  <2>3. ASSUME NEW r \in Readers PROVE ReadOK(reader[r])'
    <3>1. PICK d : d = reader[r]
      OBVIOUS
    <3>2. ReadOK(d)
      BY <3>1 DEF FeedInv
    <3>3. ReadOK(d)'
      BY <2>1, <3>2 DEF ReadOK, AskedOK
    <3>4. QED BY <2>1, <3>1, <3>3
  <2>4. QED BY <1>1, <2>2, <2>3 DEF FeedInv
<1>7. QED BY <1>3, <1>4, <1>5, <1>6 DEF FeedNext

LEMMA FeedInvHonours == FeedInv => StandingRulesAreHonoured
BY DEF FeedInv, ReadOK, Honours, StandingRulesAreHonoured

\* Whatever is removed, judged, deleted, blocked, followed or severed between the queries
\* of any reads, their answers honour what stood before and still stands (visibleWhere,
\* PostsService.findOne, FeedsService, BookmarksService, ProfilesService.getByUsername).
THEOREM StandingRulesHold == FeedSpec => []StandingRulesAreHonoured
<1>1. QED BY FeedInvHonours, FeedInitInv, FeedNextInv, PTL DEF FeedSpec

\* The verdict holds of the post in the feeds as well: they only read it.
THEOREM VerdictsApproveInFeeds == FeedSpec => []ApprovedUnlessEdited
<1>1. FeedInv => ApprovedUnlessEdited
  BY DEF FeedInv, IInv
<1>2. QED BY <1>1, FeedInitInv, FeedNextInv, PTL DEF FeedSpec

-----------------------------------------------------------------------------
(* The cached page never lives longer than Ttl; and once the post does not *)
(* belong into it any more, a page that shows it was stored before, or by  *)
(* a call that had queried before.                                         *)
Stale ==
    /\ (\E f \in Fillers : fill[f] = "shows") => lateFill
    /\ cache.shows => lateFill \/ cache.until <= hiddenSince + Ttl
PageOK ==
    /\ now \in 0..MaxTime /\ hiddenSince \in 0..MaxTime /\ lateFill \in BOOLEAN
    /\ page \in {"trends", "tags", "ranks"}
    /\ fill \in [Fillers -> {"idle", "query", "shows", "lacks"}]
    /\ cache \in [shows : BOOLEAN, until : Nat]
    /\ cache.until <= now + Ttl
    /\ ~Belongs => Stale

LEMMA TtlType == Ttl \in Nat
BY CacheAssumption DEF Ttl

LEMMA PageStep ==
    ASSUME PageOK, [PageNext]_pageVars
    PROVE  PageOK'
<1> USE CacheAssumption, TtlType
<1>1. now \in Nat /\ MaxTime \in Nat /\ hiddenSince \in Nat /\ now \in 0..MaxTime
  BY DEF PageOK
<1>2. page' = page /\ Ttl' = Ttl
  BY DEF PageNext, RowStep, CacheStep, Tick, Miss, Query, StoreWith, Store, FillFails, pageVars, Ttl
<1>3. CASE RowStep
  <2>1. now' = now /\ cache' = cache /\ fill' = fill
    BY <1>3 DEF RowStep
  <2>2. CASE Belongs /\ ~Belongs'
    <3>1. hiddenSince' = now /\ lateFill' = \E f \in Fillers : fill[f] = "shows"
      BY <1>3, <2>2 DEF RowStep
    <3>2. Stale'
      BY <1>2, <2>1, <3>1 DEF PageOK, Stale
    <3>3. lateFill' \in BOOLEAN
      BY <3>1
    <3>4. QED BY <1>1, <1>2, <2>1, <3>1, <3>2, <3>3 DEF PageOK
  <2>3. CASE ~(Belongs /\ ~Belongs')
    <3>1. hiddenSince' = hiddenSince /\ lateFill' = lateFill
      BY <1>3, <2>3 DEF RowStep
    <3>2. ~Belongs' => Stale'
      BY <1>2, <2>1, <2>3, <3>1 DEF PageOK, Stale
    <3>3. QED BY <1>2, <2>1, <3>1, <3>2 DEF PageOK
  <2>4. QED BY <2>2, <2>3
<1>4. ASSUME CacheStep \/ UNCHANGED pageVars
      PROVE  hiddenSince' = hiddenSince /\ lateFill' = lateFill /\ Belongs' = Belongs
  BY <1>4 DEF CacheStep, Tick, Miss, Query, StoreWith, Store, FillFails, pageVars, feedVars, vars,
              Belongs, Trends, TrendingTags, Leaderboard, Live
<1>5. CASE Tick
  <2>1. now' = now + 1 /\ now' \in 0..MaxTime /\ cache' = cache /\ fill' = fill
    BY <1>1, <1>5 DEF Tick
  <2>2. QED BY <1>1, <1>2, <1>4, <1>5, <2>1 DEF CacheStep, PageOK, Stale
<1>6. ASSUME NEW f \in Fillers, Miss(f) \/ FillFails(f)
      PROVE  PageOK'
  BY <1>2, <1>4, <1>6 DEF CacheStep, Miss, FillFails, PageOK, Stale
<1>7. ASSUME NEW f \in Fillers, Query(f)
      PROVE  PageOK'
  <2>1. /\ hiddenSince' = hiddenSince /\ lateFill' = lateFill /\ Belongs' = Belongs
        /\ cache' = cache /\ now' = now
    BY <1>4, <1>7 DEF CacheStep, Query
  <2>2. fill' \in [Fillers -> {"idle", "query", "shows", "lacks"}]
    BY <1>7 DEF Query, PageOK
  <2>3. ~Belongs => \A g \in Fillers : fill'[g] = "shows" => fill[g] = "shows"
    BY <1>7 DEF Query, PageOK
  <2>4. ~Belongs' => Stale'
    BY <1>2, <2>1, <2>3 DEF PageOK, Stale
  <2>5. QED BY <1>2, <2>1, <2>2, <2>4 DEF PageOK
<1>8. ASSUME NEW f \in Fillers, Store(f)
      PROVE  PageOK'
  <2>1. /\ cache' \in [shows : BOOLEAN, until : Nat]
        /\ cache'.until = now + Ttl /\ cache'.shows = (fill[f] = "shows") /\ now' = now
        /\ fill' = [fill EXCEPT ![f] = "idle"]
    BY <1>1, <1>8 DEF Store, StoreWith
  <2>2. hiddenSince' = hiddenSince /\ lateFill' = lateFill /\ Belongs' = Belongs
    BY <1>4, <1>8 DEF CacheStep
  <2>3. fill' \in [Fillers -> {"idle", "query", "shows", "lacks"}]
        /\ \A g \in Fillers : fill'[g] = "shows" => fill[g] = "shows"
    BY <2>1 DEF PageOK
  <2>4. ~Belongs' => Stale'
    BY <2>1, <2>2, <2>3 DEF PageOK, Stale
  <2>5. QED BY <1>1, <1>2, <2>1, <2>2, <2>3, <2>4 DEF PageOK
<1>9. CASE UNCHANGED pageVars
  BY <1>2, <1>4, <1>9 DEF pageVars, PageOK, Stale
<1>10. QED BY <1>3, <1>5, <1>6, <1>7, <1>8, <1>9 DEF PageNext, CacheStep

LEMMA InitPageOK == PageInit => PageOK
<1> SUFFICES ASSUME PageInit PROVE PageOK
  OBVIOUS
<1>1. cache \in [shows : BOOLEAN, until : Nat] /\ ~cache.shows /\ cache.until = 0
  BY DEF PageInit
<1>2. fill \in [Fillers -> {"idle", "query", "shows", "lacks"}] /\ ~\E f \in Fillers : fill[f] = "shows"
  BY DEF PageInit
<1>3. now = 0 /\ hiddenSince = 0 /\ lateFill = FALSE /\ page \in {"trends", "tags", "ranks"}
  BY DEF PageInit
<1>4. cache.until <= now + Ttl /\ 0 \in 0..MaxTime
  BY <1>1, <1>3, TtlType, CacheAssumption
<1>5. Stale
  BY <1>1, <1>2 DEF Stale
<1>6. QED BY <1>1, <1>2, <1>3, <1>4, <1>5 DEF PageOK

LEMMA PageInvForgets == PageOK => PagesForget
BY TtlType DEF PageOK, Stale, PagesForget, Cached

\* A post that left the trends or the hashtags, and an account that left the leaderboard,
\* are off the page within the life of one entry, unless a call that had queried before
\* stores late (RedisService.remember, FeedsService, ProfilesService).
THEOREM PagesForgetCorrect == PageSpec => []PagesForget
<1>1. QED BY PageInvForgets, InitPageOK, PageStep, PTL DEF PageSpec

LEMMA PageKeepsFeeds == [PageNext]_pageVars => [FeedNext]_feedVars
BY DEF PageNext, RowStep, CacheStep, Tick, Miss, Query, StoreWith, Store, FillFails, pageVars

PageInv == FeedInv /\ PageOK

LEMMA PageInitInv == PageInit => PageInv
BY FeedInitInv, InitPageOK DEF PageInit, PageInv

LEMMA PageNextInv == PageInv /\ [PageNext]_pageVars => PageInv'
BY FeedNextInv, PageStep, PageKeepsFeeds DEF PageInv

LEMMA PageInvTypes == PageInv => PageTypeOK
<1> SUFFICES ASSUME PageInv PROVE PageTypeOK
  OBVIOUS
<1>1. cache \in [shows : BOOLEAN, until : Nat] /\ cache.until <= now + Ttl /\ now \in 0..MaxTime
  BY DEF PageInv, PageOK
<1>2. Ttl \in Nat /\ Ttl <= TrendsTtl + RanksTtl
  BY CacheAssumption DEF Ttl
<1>3. cache.until \in 0..(2 * MaxTime + TrendsTtl + RanksTtl)
  BY <1>1, <1>2, CacheAssumption
<1>4. cache \in [shows : BOOLEAN, until : 0..(2 * MaxTime + TrendsTtl + RanksTtl)]
  BY <1>1, <1>3
<1>5. QED BY <1>4 DEF PageInv, PageOK, FeedInv, PageTypeOK

-----------------------------------------------------------------------------
(* Media: how far an upload has come says what there is of it; a job       *)
(* exists only for an answered upload, has a run left while it waits and   *)
(* has set its asset PROCESSING before it writes; a refused asset waits    *)
(* for a second run, if for any; and a video is READY, or on its way into  *)
(* a post, only when a run has let it pass.                                *)
Accepted == {"image", "video", "damagedVideo"}
Film == {"video", "damagedVideo"}
AssetOK(a) ==
    /\ upload[a] \in {"put", "row", "enqueue"} => kind[a] \in Accepted
    /\ upload[a] \in {"row", "enqueue"} => a \in files
    /\ upload[a] \in {"none", "put", "row"} => asset[a] = "none"
    /\ upload[a] = "enqueue" => asset[a] # "none" /\ mediaJob[a].pc = "none"
    /\ mediaJob[a].pc # "none" => asset[a] # "none" /\ upload[a] = "answered"
    /\ asset[a] # "none" => a \in files /\ kind[a] \in Accepted
    /\ mediaJob[a].pc \in {"none", "waiting"} => mediaJob[a].runs < Attempts
    /\ mediaJob[a].pc \notin {"none", "waiting"} => mediaJob[a].runs > 0
    /\ mediaJob[a].pc \in {"asking", "rejected", "passed"} => asset[a] = "PROCESSING"
    /\ asset[a] = "FAILED" => /\ mediaJob[a].pc # "none" /\ mediaJob[a].runs > 0
                              /\ mediaJob[a].pc = "found" => mediaJob[a].runs > 1
    /\ kind[a] \in Film /\ asset[a] = "READY" => a \in cleared
OnTheWay(a) == a \in attached \/ \E p \in Posters : poster[p] = a
FilmsCleared == \A a \in Assets : kind[a] \in Film /\ OnTheWay(a) => a \in cleared
MediaInv == MediaTypeOK /\ (\A a \in Assets : AssetOK(a)) /\ FilmsCleared

LEMMA MediaInitInv == MediaInit => MediaInv
<1> SUFFICES ASSUME MediaInit PROVE MediaInv
  OBVIOUS
<1>1. MediaTypeOK
  BY QueuesAssumption DEF MediaInit, MediaTypeOK
<1>2. \A a \in Assets : AssetOK(a)
  BY QueuesAssumption DEF MediaInit, AssetOK
<1>3. FilmsCleared
  BY MediaAssumption DEF MediaInit, FilmsCleared, OnTheWay
<1>4. QED BY <1>1, <1>2, <1>3 DEF MediaInv

MediaJobs == [pc : {"none", "waiting", "found", "asking", "rejected", "passed", "written", "done", "failed"},
              runs : 0..Attempts]

\* A step of one asset's upload or job: what it must see to.
LEMMA MediaAssetMoves ==
    ASSUME MediaInv, NEW a \in Assets, MediaTypeOK', AssetOK(a)',
           UNCHANGED <<kind, poster, attached>>, files \subseteq files', cleared \subseteq cleared',
           \A b \in Assets \ {a} :
               upload'[b] = upload[b] /\ asset'[b] = asset[b] /\ mediaJob'[b] = mediaJob[b]
    PROVE  MediaInv'
<1>1. ASSUME NEW b \in Assets PROVE AssetOK(b)'
  <2>1. CASE b # a
    BY <2>1 DEF MediaInv, AssetOK
  <2>2. QED BY <2>1
<1>2. FilmsCleared'
  BY DEF MediaInv, FilmsCleared, OnTheWay
<1>3. QED BY <1>1, <1>2 DEF MediaInv

\* What the invariant says of one asset.
LEMMA MediaOf ==
    ASSUME MediaInv, NEW a \in Assets
    PROVE  /\ mediaJob[a] \in MediaJobs /\ mediaJob[a].runs \in Nat
           /\ kind[a] \in Kinds /\ AssetOK(a)
<1>1. mediaJob[a] \in MediaJobs /\ kind[a] \in Kinds
  BY DEF MediaInv, MediaTypeOK, MediaJobs
<1>2. mediaJob[a].runs \in Nat
  BY <1>1, QueuesAssumption DEF MediaJobs
<1>3. QED BY <1>1, <1>2 DEF MediaInv

LEMMA UploadStep ==
    ASSUME MediaInv, NEW a \in Assets,
           Upload(a) \/ Put(a) \/ CreateAsset(a) \/ EnqueueMedia(a) \/ UploadFails(a)
    PROVE  MediaInv'
<1>1. mediaJob[a] \in MediaJobs /\ mediaJob[a].runs \in Nat /\ kind[a] \in Kinds /\ AssetOK(a)
  BY MediaOf
<1>2. CASE Upload(a)
  <2>1. /\ MediaTypeOK'
        /\ \A b \in Assets \ {a} :
               upload'[b] = upload[b] /\ asset'[b] = asset[b] /\ mediaJob'[b] = mediaJob[b]
    BY <1>2 DEF MediaInv, MediaTypeOK, Upload
  <2>2. upload'[a] \in {"put", "answered"}
        /\ (upload'[a] = "put" => kind[a] \in Accepted)
        /\ upload[a] = "none" /\ UNCHANGED <<files, asset, kind, mediaJob, poster, attached, cleared>>
    BY <1>1, <1>2 DEF MediaInv, MediaTypeOK, Upload, DetectType, Reencodes, Kinds, Accepted
  <2>3. AssetOK(a)'
    BY <1>1, <2>2 DEF AssetOK
  <2>4. QED BY <2>1, <2>2, <2>3, MediaAssetMoves
<1>3. CASE Put(a)
  <2>1. /\ MediaTypeOK'
        /\ \A b \in Assets \ {a} :
               upload'[b] = upload[b] /\ asset'[b] = asset[b] /\ mediaJob'[b] = mediaJob[b]
    BY <1>3 DEF MediaInv, MediaTypeOK, Put
  <2>2. upload[a] = "put" /\ upload'[a] = "row" /\ files' = files \cup {a}
        /\ UNCHANGED <<asset, kind, mediaJob, poster, attached, cleared>>
    BY <1>3 DEF MediaInv, MediaTypeOK, Put
  <2>3. AssetOK(a)'
    BY <1>1, <2>2 DEF AssetOK
  <2>4. QED BY <2>1, <2>2, <2>3, MediaAssetMoves
<1>4. CASE CreateAsset(a)
  <2>1. /\ MediaTypeOK'
        /\ \A b \in Assets \ {a} :
               upload'[b] = upload[b] /\ asset'[b] = asset[b] /\ mediaJob'[b] = mediaJob[b]
    BY <1>4 DEF MediaInv, MediaTypeOK, CreateAsset, CreateAssetWith
  <2>2. /\ upload[a] = "row" /\ upload'[a] = "enqueue" /\ asset'[a] \in {"PENDING", "READY"}
        /\ asset'[a] = "READY" => a \notin Videos
        /\ UNCHANGED <<files, kind, mediaJob, poster, attached, cleared>>
    BY <1>4 DEF MediaInv, MediaTypeOK, CreateAsset, CreateAssetWith
  <2>3. asset'[a] = "READY" => kind[a] \notin Film
    BY <2>2 DEF Videos, DetectType, Film
  <2>4. AssetOK(a)'
    BY <1>1, <2>2, <2>3 DEF AssetOK
  <2>5. QED BY <2>1, <2>2, <2>4, MediaAssetMoves
<1>5. CASE EnqueueMedia(a)
  <2>1. /\ MediaTypeOK'
        /\ \A b \in Assets \ {a} :
               upload'[b] = upload[b] /\ asset'[b] = asset[b] /\ mediaJob'[b] = mediaJob[b]
    BY <1>5 DEF MediaInv, MediaTypeOK, EnqueueMedia
  <2>2. upload[a] = "enqueue" /\ upload'[a] = "answered"
        /\ mediaJob'[a].pc = "waiting" /\ mediaJob'[a].runs = mediaJob[a].runs
        /\ UNCHANGED <<files, asset, kind, poster, attached, cleared>>
    BY <1>5 DEF MediaInv, MediaTypeOK, EnqueueMedia
  <2>3. AssetOK(a)'
    BY <1>1, <2>2 DEF AssetOK
  <2>4. QED BY <2>1, <2>2, <2>3, MediaAssetMoves
<1>6. CASE UploadFails(a)
  <2>1. /\ MediaTypeOK'
        /\ \A b \in Assets \ {a} :
               upload'[b] = upload[b] /\ asset'[b] = asset[b] /\ mediaJob'[b] = mediaJob[b]
    BY <1>6 DEF MediaInv, MediaTypeOK, UploadFails
  <2>2. upload[a] \in {"put", "row", "enqueue"} /\ upload'[a] = "answered"
        /\ UNCHANGED <<files, asset, kind, mediaJob, poster, attached, cleared>>
    BY <1>6 DEF MediaInv, MediaTypeOK, UploadFails
  <2>3. AssetOK(a)'
    BY <1>1, <2>2 DEF AssetOK
  <2>4. QED BY <2>1, <2>2, <2>3, MediaAssetMoves
<1>7. QED BY <1>2, <1>3, <1>4, <1>5, <1>6

LEMMA MediaJobStep ==
    ASSUME MediaInv, NEW a \in Assets, MediaWorker(a) \/ MediaJobFails(a)
    PROVE  MediaInv'
<1>1. mediaJob[a] \in MediaJobs /\ mediaJob[a].runs \in Nat /\ kind[a] \in Kinds /\ AssetOK(a)
  BY MediaOf
<1>2. UNCHANGED <<upload, files, kind, clean, poster, attached>> /\ cleared \subseteq cleared'
  BY DEF MediaWorker, StartMediaJob, MarkProcessing, JudgeMedia, WriteStatus, MediaJobDone, MediaJobFails
<1>3. CASE StartMediaJob(a)
  <2>1. mediaJob[a].pc = "waiting" /\ mediaJob'[a].pc = "found"
        /\ mediaJob'[a].runs = mediaJob[a].runs + 1 /\ asset' = asset /\ cleared' = cleared
    BY <1>3 DEF MediaInv, MediaTypeOK, StartMediaJob
  <2>2. mediaJob[a].runs + 1 \in 0..Attempts
    BY <1>1, <2>1, QueuesAssumption DEF AssetOK
  <2>3. /\ MediaTypeOK'
        /\ \A b \in Assets \ {a} : asset'[b] = asset[b] /\ mediaJob'[b] = mediaJob[b]
    BY <2>2, <1>3 DEF MediaInv, MediaTypeOK, StartMediaJob
  <2>4. AssetOK(a)'
    BY <1>1, <1>2, <2>1 DEF AssetOK
  <2>5. QED BY <1>2, <2>3, <2>4, MediaAssetMoves
<1>4. CASE MarkProcessing(a)
  <2>1. mediaJob[a].pc = "found" /\ mediaJob'[a].pc = "asking" /\ cleared' = cleared
        /\ mediaJob'[a].runs = mediaJob[a].runs /\ asset'[a] = "PROCESSING"
    BY <1>4 DEF MediaInv, MediaTypeOK, MarkProcessing, RunMediaJob
  <2>2. /\ MediaTypeOK'
        /\ \A b \in Assets \ {a} : asset'[b] = asset[b] /\ mediaJob'[b] = mediaJob[b]
    BY <1>4 DEF MediaInv, MediaTypeOK, MarkProcessing, RunMediaJob
  <2>3. AssetOK(a)'
    BY <1>1, <1>2, <2>1 DEF AssetOK
  <2>4. QED BY <1>2, <2>2, <2>3, MediaAssetMoves
<1>5. CASE JudgeMedia(a)
  <2>1. mediaJob[a].pc = "asking" /\ mediaJob'[a].pc \in {"rejected", "passed"} /\ cleared' = cleared
        /\ mediaJob'[a].runs = mediaJob[a].runs /\ asset' = asset
    BY <1>5 DEF MediaInv, MediaTypeOK, JudgeMedia, RunMediaJob
  <2>2. /\ MediaTypeOK'
        /\ \A b \in Assets \ {a} : asset'[b] = asset[b] /\ mediaJob'[b] = mediaJob[b]
    BY <1>5 DEF MediaInv, MediaTypeOK, JudgeMedia, RunMediaJob
  <2>3. AssetOK(a)'
    BY <1>1, <1>2, <2>1 DEF AssetOK
  <2>4. QED BY <1>2, <2>2, <2>3, MediaAssetMoves
<1>6. CASE WriteStatus(a)
  <2>1. /\ mediaJob[a].pc \in {"rejected", "passed"} /\ mediaJob'[a].pc = "written"
        /\ mediaJob'[a].runs = mediaJob[a].runs /\ asset'[a] \in {"FAILED", "READY"}
        /\ asset'[a] = "READY" => a \in cleared'
    BY <1>6 DEF MediaInv, MediaTypeOK, WriteStatus
  <2>2. /\ MediaTypeOK'
        /\ \A b \in Assets \ {a} : asset'[b] = asset[b] /\ mediaJob'[b] = mediaJob[b]
    BY <1>6 DEF MediaInv, MediaTypeOK, WriteStatus
  <2>3. AssetOK(a)'
    BY <1>1, <1>2, <2>1 DEF AssetOK
  <2>4. QED BY <1>2, <2>2, <2>3, MediaAssetMoves
<1>7. CASE MediaJobDone(a)
  <2>1. mediaJob[a].pc = "written" /\ mediaJob'[a].pc = "done" /\ cleared' = cleared
        /\ mediaJob'[a].runs = mediaJob[a].runs /\ asset' = asset
    BY <1>7 DEF MediaInv, MediaTypeOK, MediaJobDone, RunMediaJob
  <2>2. /\ MediaTypeOK'
        /\ \A b \in Assets \ {a} : asset'[b] = asset[b] /\ mediaJob'[b] = mediaJob[b]
    BY <1>7 DEF MediaInv, MediaTypeOK, MediaJobDone, RunMediaJob
  <2>3. AssetOK(a)'
    BY <1>1, <1>2, <2>1 DEF AssetOK
  <2>4. QED BY <1>2, <2>2, <2>3, MediaAssetMoves
<1>8. CASE MediaJobFails(a)
  <2>1. /\ mediaJob[a].pc \in {"found", "asking", "rejected", "passed", "written"}
        /\ mediaJob'[a].pc \in {"waiting", "failed"}
        /\ mediaJob'[a].pc = "waiting" => mediaJob[a].runs < Attempts
        /\ mediaJob'[a].runs = mediaJob[a].runs /\ asset' = asset /\ cleared' = cleared
    BY <1>8 DEF MediaInv, MediaTypeOK, MediaJobFails, AfterFailure
  <2>2. /\ MediaTypeOK'
        /\ \A b \in Assets \ {a} : asset'[b] = asset[b] /\ mediaJob'[b] = mediaJob[b]
    BY <1>8 DEF MediaInv, MediaTypeOK, MediaJobFails, AfterFailure
  <2>3. AssetOK(a)'
    BY <1>1, <1>2, <2>1 DEF AssetOK
  <2>4. QED BY <1>2, <2>2, <2>3, MediaAssetMoves
<1>9. QED BY <1>3, <1>4, <1>5, <1>6, <1>7, <1>8 DEF MediaWorker

LEMMA PosterStep ==
    ASSUME MediaInv, NEW p \in Posters, NEW a \in Assets,
           CheckMedia(p, a) \/ (Attach(p) /\ poster[p] = a)
    PROVE  MediaInv'
<1>1. UNCHANGED <<upload, files, asset, kind, clean, mediaJob, cleared>>
  BY DEF CheckMedia, Attach
<1>2. \A b \in Assets : AssetOK(b)'
  BY <1>1 DEF MediaInv, AssetOK
<1>3. CASE CheckMedia(p, a)
  <2>1. asset[a] = "READY" /\ poster' = [poster EXCEPT ![p] = a] /\ attached' = attached
    BY <1>3 DEF CheckMedia
  <2>2. \A b \in Assets : OnTheWay(b)' => b = a \/ OnTheWay(b)
    BY <2>1 DEF MediaInv, MediaTypeOK, OnTheWay
  <2>3. kind[a] \in Film => a \in cleared
    BY <2>1 DEF MediaInv, AssetOK
  <2>4. MediaTypeOK'
    BY <1>1, <2>1 DEF MediaInv, MediaTypeOK
  <2>5. QED BY <1>1, <1>2, <2>2, <2>3, <2>4 DEF MediaInv, FilmsCleared
<1>4. CASE Attach(p) /\ poster[p] = a
  <2>1. attached' = attached \cup {a} /\ poster' = [poster EXCEPT ![p] = "idle"] /\ OnTheWay(a)
    BY <1>4 DEF Attach, OnTheWay
  <2>2. \A b \in Assets : OnTheWay(b)' => OnTheWay(b)
    BY <2>1, MediaAssumption DEF MediaInv, MediaTypeOK, OnTheWay
  <2>3. MediaTypeOK'
    BY <1>1, <2>1 DEF MediaInv, MediaTypeOK
  <2>4. QED BY <1>1, <1>2, <2>2, <2>3 DEF MediaInv, FilmsCleared
<1>5. QED BY <1>3, <1>4

LEMMA MediaNextInv == MediaInv /\ [MediaNext]_mediaVars => MediaInv'
<1> SUFFICES ASSUME MediaInv, [MediaNext]_mediaVars PROVE MediaInv'
  OBVIOUS
<1>1. ASSUME NEW a \in Assets,
             \/ Upload(a) \/ Put(a) \/ CreateAsset(a) \/ EnqueueMedia(a) \/ UploadFails(a)
             \/ MediaWorker(a) \/ MediaJobFails(a)
      PROVE  MediaInv'
  BY <1>1, UploadStep, MediaJobStep
<1>2. ASSUME NEW p \in Posters, NEW a \in Assets, CheckMedia(p, a)
      PROVE  MediaInv'
  BY <1>2, PosterStep
<1>3. ASSUME NEW p \in Posters, Attach(p)
      PROVE  MediaInv'
  <2>1. poster[p] \in Assets
    BY <1>3 DEF MediaInv, MediaTypeOK, Attach
  <2>2. QED BY <1>3, <2>1, PosterStep
<1>4. CASE UNCHANGED mediaVars
  BY <1>4 DEF mediaVars, MediaInv, MediaTypeOK, AssetOK, FilmsCleared, OnTheWay
<1>5. QED BY <1>1, <1>2, <1>3, <1>4 DEF MediaNext

LEMMA MediaInvClears == MediaInv => ShownVideosWereCleared
<1> SUFFICES ASSUME MediaInv PROVE ShownVideosWereCleared
  OBVIOUS
<1>1. \A a \in Assets : asset[a] # "none" => a \in files /\ Reencodes(a)
  BY DEF MediaInv, AssetOK, Accepted, Reencodes, DetectType
<1>2. attached \subseteq Assets /\ \A a \in Videos : a \in Assets /\ kind[a] \in Film
  BY DEF MediaInv, MediaTypeOK, Videos, DetectType, Film, Kinds
<1>3. attached \cap Videos \subseteq cleared
  BY <1>2 DEF MediaInv, FilmsCleared, OnTheWay
<1>4. QED BY <1>1, <1>3 DEF ShownVideosWereCleared

\* A row names a file that is there, a picture's file decodes, and no post shows a video
\* that no run of its job has let pass, in whatever order uploads, jobs, their repetitions
\* and create() handlers run (MediaService.upload, MediaProcessor.process,
\* assertMediaOwnedAndReady).
THEOREM OnlyClearedVideosAreShown == MediaSpec => []ShownVideosWereCleared
<1>1. QED BY MediaInvClears, MediaInitInv, MediaNextInv, PTL DEF MediaSpec

\* Only a second run takes a refusal back; and what is refused when its job has no more
\* runs comes into no post, unless a create() had looked at it before
\* (MediaProcessor.process, assertMediaOwnedAndReady).
THEOREM RefusedMediaStaysOut == MediaSpec => RefusedStaysOut
<1> DEFINE A == \A a \in Assets :
                  /\ asset[a] = "FAILED" /\ asset'[a] # "FAILED" => mediaJob[a].runs > 1
                  /\ Refused(a) /\ mediaJob[a].pc \in {"done", "failed"} => Refused(a)'
<1>1. MediaInv /\ [MediaNext]_mediaVars => A
  <2> SUFFICES ASSUME MediaInv, [MediaNext]_mediaVars, NEW a \in Assets, asset[a] = "FAILED"
               PROVE  /\ asset'[a] # "FAILED" => mediaJob[a].runs > 1
                      /\ Refused(a) /\ mediaJob[a].pc \in {"done", "failed"} => Refused(a)'
    BY DEF Refused
  <2>1. AssetOK(a)
    BY DEF MediaInv
  <2>2. asset'[a] # "FAILED" => mediaJob[a].pc = "found" /\ mediaJob[a].runs > 1
    <3>1. ASSUME NEW b \in Assets, CreateAsset(b) \/ WriteStatus(b)
          PROVE  asset'[a] = "FAILED"
      BY <2>1, <3>1 DEF MediaInv, MediaTypeOK, AssetOK, CreateAsset, CreateAssetWith, WriteStatus
    <3>2. ASSUME NEW b \in Assets, MarkProcessing(b), asset'[a] # "FAILED"
          PROVE  mediaJob[a].pc = "found"
      BY <3>2 DEF MediaInv, MediaTypeOK, MarkProcessing, RunMediaJob
    <3>3. asset' = asset
          \/ \E b \in Assets : CreateAsset(b) \/ MarkProcessing(b) \/ WriteStatus(b)
      BY DEF MediaNext, Upload, Put, EnqueueMedia, UploadFails, MediaWorker, StartMediaJob, JudgeMedia,
             MediaJobDone, RunMediaJob, MediaJobFails, CheckMedia, Attach, mediaVars
    <3>4. QED BY <2>1, <3>1, <3>2, <3>3 DEF AssetOK
  <2>3. ASSUME Refused(a)
        PROVE  a \notin attached' /\ \A q \in Posters : poster'[q] # a
    <3>1. ASSUME NEW p \in Posters, Attach(p)
          PROVE  a \notin attached' /\ \A q \in Posters : poster'[q] # a
      BY <2>3, <3>1, MediaAssumption DEF MediaInv, MediaTypeOK, Attach, Refused
    <3>2. ASSUME NEW p \in Posters, NEW b \in Assets, CheckMedia(p, b)
          PROVE  a \notin attached' /\ \A q \in Posters : poster'[q] # a
      BY <2>3, <3>2 DEF MediaInv, MediaTypeOK, CheckMedia, Refused
    <3>3. UNCHANGED <<attached, poster>>
          \/ (\E p \in Posters : Attach(p)) \/ (\E p \in Posters, b \in Assets : CheckMedia(p, b))
      BY DEF MediaNext, Upload, Put, CreateAsset, CreateAssetWith, EnqueueMedia, UploadFails, MediaWorker,
             StartMediaJob, MarkProcessing, JudgeMedia, WriteStatus, MediaJobDone, RunMediaJob,
             MediaJobFails, mediaVars
    <3>4. QED BY <2>3, <3>1, <3>2, <3>3 DEF Refused
  <2>4. QED BY <2>2, <2>3 DEF Refused
<1>2. QED BY <1>1, MediaInitInv, MediaNextInv, PTL DEF MediaSpec, RefusedStaysOut

-----------------------------------------------------------------------------
(* Notifications: an event that is being told has a run for every row      *)
(* there is of it, and one more.                                           *)
TellersOK ==
    \A e \in Events :
        /\ told[e].pc = "none" => told[e].run = 0 /\ Tellings(e) = 0
        /\ told[e].pc = "running" => Tellings(e) < told[e].run
        /\ Tellings(e) <= told[e].run
        /\ told[e].run > 1 => e \in ByJob
        /\ e \in Own => Tellings(e) = 0
NoticeInv == NoticeTypeOK /\ TellersOK

Places(r, e) == {n \in DOMAIN r : r[n] = e}

LEMMA PlacesFinite ==
    ASSUME NEW r \in Seq(Events), NEW e
    PROVE  IsFiniteSet(Places(r, e)) /\ Cardinality(Places(r, e)) \in Nat
<1>1. DOMAIN r = 1..Len(r) /\ Len(r) \in Nat
  OBVIOUS
<1>2. IsFiniteSet(1..Len(r))
  BY <1>1, FS_Interval
<1>3. Places(r, e) \subseteq 1..Len(r)
  BY <1>1 DEF Places
<1>4. IsFiniteSet(Places(r, e))
  BY <1>2, <1>3, FS_Subset
<1>5. QED BY <1>4, FS_CardinalityType

LEMMA PlacesAppend ==
    ASSUME NEW r \in Seq(Events), NEW e \in Events, NEW f \in Events
    PROVE  Cardinality(Places(Append(r, e), f)) =
               IF f = e THEN Cardinality(Places(r, f)) + 1 ELSE Cardinality(Places(r, f))
<1>1. PICK s : s = Append(r, e)
  OBVIOUS
<1>2. /\ DOMAIN s = 1..(Len(r) + 1) /\ DOMAIN r = 1..Len(r) /\ Len(r) \in Nat
      /\ s[Len(r) + 1] = e /\ \A n \in 1..Len(r) : s[n] = r[n]
  BY <1>1
<1>3. CASE f = e
  <2>1. Places(s, f) = Places(r, f) \cup {Len(r) + 1} /\ Len(r) + 1 \notin Places(r, f)
    BY <1>2, <1>3 DEF Places
  <2>2. Cardinality(Places(s, f)) = Cardinality(Places(r, f)) + 1
    BY <2>1, PlacesFinite, FS_AddElement
  <2>3. QED BY <1>1, <1>3, <2>2
<1>4. CASE f # e
  <2>1. Places(s, f) = Places(r, f)
    BY <1>2, <1>4 DEF Places
  <2>2. QED BY <1>1, <1>4, <2>1
<1>5. QED BY <1>3, <1>4

LEMMA TellingsOf == \A e : Tellings(e) = Cardinality(Places(rows, e))
BY DEF Tellings, Places, Ids

LEMMA NoticeInitInv == NoticeInit => NoticeInv
<1> SUFFICES ASSUME NoticeInit PROVE NoticeInv
  OBVIOUS
<1>1. NoticeTypeOK
  BY QueuesAssumption DEF NoticeInit, NoticeTypeOK, Ids
<1>2. \A e \in Events : Tellings(e) = 0
  <2>1. \A e : Places(rows, e) = {}
    BY DEF NoticeInit, Places
  <2>2. QED BY <2>1, TellingsOf, FS_EmptySet
<1>3. TellersOK
  BY <1>2 DEF NoticeInit, TellersOK
<1>4. QED BY <1>1, <1>3 DEF NoticeInv

LEMMA NotifyStep ==
    ASSUME NoticeInv, NEW e \in Events, Notify(e)
    PROVE  NoticeInv'
<1>1. /\ told[e].pc = "running" /\ told' = [told EXCEPT ![e].pc = "written"]
      /\ rows \in Seq(Events) /\ screen' = screen
      /\ told \in [Events -> [pc : {"none", "running", "written", "done"}, run : 0..Attempts]]
  BY DEF NoticeInv, NoticeTypeOK, Notify, WriteNotice
<1>2. /\ told' \in [Events -> [pc : {"none", "running", "written", "done"}, run : 0..Attempts]]
      /\ told'[e].pc = "written" /\ told'[e].run = told[e].run
      /\ \A f \in Events \ {e} : told'[f] = told[f]
  BY <1>1
<1>3. \A f \in Events : told[f].run \in Nat /\ Tellings(f) \in Nat
  BY <1>1, QueuesAssumption, TellingsOf, PlacesFinite
<1>4. CASE e \in Own
  <2>1. UNCHANGED <<rows, unseen, pushing>>
    BY <1>4 DEF Notify, WriteNotice
  <2>2. \A f \in Events : Tellings(f)' = Tellings(f)
    BY <2>1 DEF Tellings, Ids
  <2>3. NoticeTypeOK'
    BY <1>1, <1>2, <2>1 DEF NoticeInv, NoticeTypeOK, Ids
  <2>4. TellersOK'
    BY <1>1, <1>2, <1>3, <2>2 DEF NoticeInv, TellersOK
  <2>5. QED BY <2>3, <2>4 DEF NoticeInv
<1>5. CASE e \notin Own
  <2>1. /\ rows' = Append(rows, e)
        /\ unseen' = unseen \cup {Len(rows')} /\ pushing' = pushing \cup {Len(rows')}
    BY <1>5 DEF Notify, WriteNotice
  <2>2. \A f \in Events : Tellings(f)' = IF f = e THEN Tellings(f) + 1 ELSE Tellings(f)
    <3>1. \A f \in Events : Tellings(f)' = Cardinality(Places(rows', f))
      BY DEF Tellings, Places, Ids
    <3>2. QED BY <1>1, <2>1, <3>1, TellingsOf, PlacesAppend
  <2>3. rows' \in Seq(Events) /\ DOMAIN rows' = 1..(Len(rows) + 1) /\ DOMAIN rows = 1..Len(rows)
        /\ Len(rows) \in Nat /\ Len(rows') = Len(rows) + 1
    BY <1>1, <2>1
  <2>4. NoticeTypeOK'
    BY <1>1, <1>2, <2>1, <2>3 DEF NoticeInv, NoticeTypeOK, Ids
  <2>5. TellersOK'
    BY <1>1, <1>2, <1>3, <1>5, <2>2 DEF NoticeInv, TellersOK
  <2>6. QED BY <2>4, <2>5 DEF NoticeInv
<1>6. QED BY <1>4, <1>5

LEMMA TellerStep ==
    ASSUME NoticeInv, NEW e \in Events, Happen(e) \/ Told(e) \/ TellerFails(e)
    PROVE  NoticeInv'
<1>1. UNCHANGED <<rows, unseen, pushing, screen>>
  BY DEF Happen, Told, TellerFails
<1>2. told \in [Events -> [pc : {"none", "running", "written", "done"}, run : 0..Attempts]]
      /\ rows \in Seq(Events)
  BY DEF NoticeInv, NoticeTypeOK
<1>3. \A f \in Events : told[f].run \in Nat /\ Tellings(f) \in Nat /\ Tellings(f)' = Tellings(f)
  <2>1. \A f \in Events : told[f].run \in Nat /\ Tellings(f) \in Nat
    BY <1>2, QueuesAssumption, TellingsOf, PlacesFinite
  <2>2. \A f \in Events : Tellings(f)' = Tellings(f)
    BY <1>1 DEF Tellings, Ids
  <2>3. QED BY <2>1, <2>2
<1>4. /\ \A f \in Events \ {e} : told'[f] = told[f]
      /\ told' \in [Events -> [pc : {"none", "running", "written", "done"}, run : 0..Attempts]]
      /\ \/ told[e].pc = "none" /\ told'[e].pc = "running" /\ told'[e].run = 1
         \/ told[e].pc = "written" /\ told'[e].pc = "done" /\ told'[e].run = told[e].run
         \/ told[e].pc \in {"running", "written"} /\ told'[e].pc = "running" /\ e \in ByJob
            /\ told'[e].run = told[e].run + 1
         \/ told[e].pc \in {"running", "written"} /\ told'[e].pc = "done" /\ told'[e].run = told[e].run
  <2>1. CASE Happen(e)
    BY <1>2, <2>1, QueuesAssumption DEF Happen
  <2>2. CASE Told(e)
    BY <1>2, <2>2 DEF Told
  <2>3. CASE TellerFails(e) /\ e \in ByJob /\ told[e].run < Attempts
    <3>1. told' = [told EXCEPT ![e] = [pc |-> "running", run |-> told[e].run + 1]]
          /\ told[e].pc \in {"running", "written"}
      BY <2>3 DEF TellerFails
    <3>2. told[e].run + 1 \in 0..Attempts
      BY <1>3, <2>3, QueuesAssumption
    <3>3. QED BY <1>2, <2>3, <3>1, <3>2
  <2>4. CASE TellerFails(e) /\ ~(e \in ByJob /\ told[e].run < Attempts)
    <3>1. told' = [told EXCEPT ![e].pc = "done"] /\ told[e].pc \in {"running", "written"}
      BY <2>4 DEF TellerFails
    <3>2. QED BY <1>2, <3>1
  <2>5. QED BY <2>1, <2>2, <2>3, <2>4
<1>5. NoticeTypeOK'
  BY <1>1, <1>4 DEF NoticeInv, NoticeTypeOK, Ids
<1>6. TellersOK'
  BY <1>3, <1>4 DEF NoticeInv, TellersOK
<1>7. QED BY <1>5, <1>6 DEF NoticeInv

LEMMA ReaderStep ==
    ASSUME NoticeInv,
           OpenPage \/ MarkAllRead \/ UNCHANGED noticeVars \/ \E n \in Ids : Push(n) \/ MarkRead(n)
    PROVE  NoticeInv'
<1>1. UNCHANGED <<told, rows>>
  BY DEF OpenPage, MarkAllRead, noticeVars, Push, MarkRead
<1>2. NoticeTypeOK'
  BY <1>1 DEF NoticeInv, NoticeTypeOK, Ids, List, OpenPage, MarkAllRead, noticeVars, Push, MarkRead
<1>3. \A f \in Events : Tellings(f)' = Tellings(f)
  BY <1>1 DEF Tellings, Ids
<1>4. TellersOK'
  BY <1>1, <1>3 DEF NoticeInv, TellersOK
<1>5. QED BY <1>2, <1>4 DEF NoticeInv

LEMMA NoticeNextInv == NoticeInv /\ [NoticeNext]_noticeVars => NoticeInv'
BY NotifyStep, TellerStep, ReaderStep DEF NoticeNext

LEMMA NoticeInvTells == NoticeInv => ToldOncePerRun
<1> SUFFICES ASSUME NoticeInv, NEW e \in Events
             PROVE  /\ e \in Own => Tellings(e) = 0
                    /\ Tellings(e) <= told[e].run
                    /\ Tellings(e) > 1 => e \in ByJob
  BY DEF ToldOncePerRun
<1>1. Tellings(e) \in Nat /\ told[e].run \in Nat
  BY QueuesAssumption, TellingsOf, PlacesFinite DEF NoticeInv, NoticeTypeOK
<1>2. QED BY <1>1 DEF NoticeInv, TellersOK

\* An event leaves at most one row for every run of its teller: one where the handler
\* tells it, none for one's own (NotificationsService.notify, NotificationsProcessor).
THEOREM EventsAreToldOnce == NoticeSpec => []ToldOncePerRun
<1>1. QED BY NoticeInitInv, NoticeNextInv, NoticeInvTells, PTL DEF NoticeSpec

-----------------------------------------------------------------------------
(* The composition: every step of it is one of each component, or leaves   *)
(* the component alone.                                                    *)
ContentInv == PageInv /\ MediaInv /\ NoticeInv

LEMMA StepsOfComponents ==
    [MCNext]_mcVars =>
        [PageNext]_pageVars /\ [MediaNext]_mediaVars /\ [NoticeNext]_noticeVars
BY DEF MCNext, mcVars, PageNext

LEMMA ContentInitInv == MCInit => ContentInv
BY PageInitInv, MediaInitInv, NoticeInitInv DEF MCInit, ContentInv

LEMMA ContentNextInv == ContentInv /\ [MCNext]_mcVars => ContentInv'
BY StepsOfComponents, PageNextInv, MediaNextInv, NoticeNextInv DEF ContentInv

LEMMA ContentInvSafe ==
    ContentInv => /\ ApprovedUnlessEdited /\ StandingRulesAreHonoured /\ PagesForget
                  /\ ShownVideosWereCleared /\ ToldOncePerRun
BY PageInvTypes, PageInvForgets, FeedInvHonours, MediaInvClears, NoticeInvTells
   DEF ContentInv, PageInv, FeedInv, IInv

LEMMA ContentInvTypes == ContentInv => ContentTypeOK
BY PageInvTypes DEF ContentInv, ContentTypeOK, MediaInv, NoticeInv

\* The instance that TLC checks has nothing but behaviours of its components: whatever
\* posts, pages, uploads and notifications do side by side, the rows keep their types, no
\* verdict approves another text, reads honour what stands, the pages forget, no post shows an uncleared video and
\* no event is told twice by one run (PythonProcessor, RedisService, MediaProcessor,
\* NotificationsService).
THEOREM ContentIsSafe ==
    MCSpec => [](/\ ContentTypeOK /\ ApprovedUnlessEdited /\ StandingRulesAreHonoured /\ PagesForget
                 /\ ShownVideosWereCleared /\ ToldOncePerRun)
<1>1. QED
  BY ContentInvTypes, ContentInvSafe, ContentInitInv, ContentNextInv, PTL DEF MCSpec

=============================================================================
