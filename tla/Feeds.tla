-------------------------------- MODULE Feeds --------------------------------
(***************************************************************************)
(* Who is shown a post: the lists and single reads of PostsService,        *)
(* FeedsService (feeds/feeds.service.ts), BookmarksService and             *)
(* ProfilesService.  It extends Moderation: the post is the one that is    *)
(* edited, judged and removed there.                                       *)
(*                                                                         *)
(* A read is two awaits: a first query (whom the viewer blocks or follows, *)
(* or the row itself), and later a second one that uses what the first has *)
(* seen.  In between the post may be removed or judged, the author deleted *)
(* or the viewer's follows and blocks changed.  These are the rows that    *)
(* SocialGraph keeps, seen from one viewer and one author; a follow that   *)
(* was checked against blocks is inserted later, as it is there.           *)
(*                                                                         *)
(* Abstracted: order, pages and the content of a shown post; whether it is *)
(* a repost, how old it is and whom else the viewer blocks is left open.   *)
(***************************************************************************)
EXTENDS Moderation

CONSTANT Readers   \* slots for concurrently running reads

VARIABLES
    author,   \* User.status of the author of the post
    bond,     \* the rows between the viewer and the author
    reader    \* the reads in progress

feedVars == <<vars, author, bond, reader>>

Live == post.life = "live"
Shown == post.status \in {"APPROVED", "PENDING"}

-----------------------------------------------------------------------------
(* What stands between the viewer and the author.                          *)
Bond == [blocks : BOOLEAN,      \* UserBlock: the viewer blocks the author
         blockedBy : BOOLEAN,   \* UserBlock: the author blocks the viewer
         follows : BOOLEAN,     \* Follow: the viewer follows the author
         asked : BOOLEAN,       \* a follow() of the viewer is past its check
         late : BOOLEAN]        \* history: the follow came in after a block
NoBond == [blocks |-> FALSE, blockedBy |-> FALSE, follows |-> FALSE, asked |-> FALSE, late |-> FALSE]

\* Faulty variant of Block: the follows are left alone.
Block_KeepFollows == bond' = [bond EXCEPT !.blocks = TRUE]

\* "Blocking severs any follow relationship in both directions."
Severed(b) == [b EXCEPT !.follows = FALSE, !.late = FALSE]
Block == bond' = Severed([bond EXCEPT !.blocks = TRUE])
BlockedByAuthor == bond' = Severed([bond EXCEPT !.blockedBy = TRUE])
Unblock ==
    \/ bond' = [bond EXCEPT !.blocks = FALSE]
    \/ bond' = [bond EXCEPT !.blockedBy = FALSE]
Unfollow == bond' = Severed(bond)

(* follow(): no block either way, ...                                      *)
CheckFollow ==
    /\ ~bond.blocks /\ ~bond.blockedBy
    /\ bond' = [bond EXCEPT !.asked = TRUE]
(* ... and the insertion, which fails when the row is there.               *)
InsertFollow ==
    /\ bond.asked
    /\ bond' = [bond EXCEPT !.asked = FALSE, !.follows = TRUE,
                            !.late = IF bond.follows THEN @ ELSE bond.blocks \/ bond.blockedBy]
FollowFails == CanFail /\ bond.asked /\ bond' = [bond EXCEPT !.asked = FALSE]

-----------------------------------------------------------------------------
(* Reads.  An anonymous reader and the author have no bond with the author.*)
Whos == {"anonymous", "author", "viewer"}
Queries == {"timeline", "link", "images", "counters", "following", "popular", "recommended",
            "bookmarks", "profile", "bio"}
SignedInOnly == {"following", "popular", "recommended", "bookmarks"}
Visibilities == {"PUBLIC", "FOLLOWERS_ONLY", "PRIVATE"}

\* What the first query of a read sees.
Seen == [live : BOOLEAN, active : BOOLEAN, blocks : BOOLEAN, follows : BOOLEAN, late : BOOLEAN,
         visibility : Visibilities]
FirstQuery(w, v) ==
    [live |-> Live, active |-> author # "DELETED", visibility |-> v, late |-> bond.late,
     blocks |-> w = "viewer" /\ bond.blocks, follows |-> w = "viewer" /\ bond.follows]

\* History: what speaks against showing post p of an author with status u to w, and
\* has done so ever since the read began.
Since == [removed : BOOLEAN, refused : BOOLEAN, deleted : BOOLEAN,
          blocks : BOOLEAN, blockedBy : BOOLEAN, stranger : BOOLEAN]
Stands(w, p, u, b) ==
    [removed |-> p.life = "removed", refused |-> p.status \in {"FLAGGED", "REJECTED"},
     deleted |-> u = "DELETED", blocks |-> w = "viewer" /\ b.blocks,
     blockedBy |-> w = "viewer" /\ b.blockedBy,
     stranger |-> w = "anonymous" \/ (w = "viewer" /\ ~b.follows)]

Read == [pc : {"idle", "asked", "shown"}, who : Whos, query : Queries, seen : Seen, since : Since]
NoRead == [pc |-> "idle", who |-> "anonymous", query |-> "timeline",
           seen |-> [live |-> FALSE, active |-> FALSE, blocks |-> FALSE, follows |-> FALSE,
                     late |-> FALSE, visibility |-> "PUBLIC"],
           since |-> [f \in {"removed", "refused", "deleted", "blocks", "blockedBy", "stranger"} |-> FALSE]]

Circumstances == [repost : BOOLEAN, recent : BOOLEAN, blocksOthers : BOOLEAN]

BlockedByNow(w) == w = "viewer" /\ bond.blockedBy
BlockedEitherWay(w) == w = "viewer" /\ (bond.blocks \/ bond.blockedBy)

(* list(): visibleWhere() looks at the author's blocks only for viewers    *)
(* who block somebody themselves.                                          *)
Timeline(r, x) ==
    /\ Live /\ Shown /\ author = "ACTIVE"
    /\ r.seen.blocks \/ (r.who # "anonymous" /\ x.blocksOthers)
         => ~r.seen.blocks /\ ~BlockedByNow(r.who)

(* findOne(): the row is read first, then the blocks.                      *)
ByLink(r) == r.seen.live /\ ~BlockedEitherWay(r.who)
Images(r) == r.seen.live
Counters(r) == r.seen.live

Following(r, x) == r.seen.follows /\ Live /\ Shown /\ ~x.repost

(* recommended(): the ids of the service, or the popular posts of others.  *)
ByService == Live
ByPopularity(r, x) ==
    /\ Live /\ post.status = "APPROVED" /\ x.recent /\ ~x.repost
    /\ r.who = "viewer" /\ ~r.seen.follows /\ ~r.seen.blocks

\* listMine() of a reader who has saved the post.
Bookmarks == Live

(* getByUsername(), and what toResponse() leaves out of the answer.        *)
Profile(r) == r.seen.active /\ ~BlockedEitherWay(r.who)
CanViewPosts(r) ==
    \/ r.who = "author" \/ r.seen.visibility = "PUBLIC"
    \/ r.seen.visibility = "FOLLOWERS_ONLY" /\ r.who = "viewer" /\ bond.follows
Bio(r) == Profile(r) /\ CanViewPosts(r)

\* The answer to read r shows the post (the profile, the bio).
Shows(r, x) ==
    \/ r.query = "timeline" /\ Timeline(r, x)
    \/ r.query = "link" /\ ByLink(r)
    \/ r.query = "images" /\ Images(r)
    \/ r.query = "counters" /\ Counters(r)
    \/ r.query = "following" /\ Following(r, x)
    \/ r.query = "recommended" /\ ByService
    \/ r.query = "popular" /\ ByPopularity(r, x)
    \/ r.query = "bookmarks" /\ Bookmarks
    \/ r.query = "profile" /\ Profile(r)
    \/ r.query = "bio" /\ Bio(r)

-----------------------------------------------------------------------------
FeedInit ==
    /\ Init
    /\ author = "ACTIVE" /\ bond = NoBond
    /\ reader = [r \in Readers |-> NoRead]

Ask(r, w, q, v) ==
    /\ reader[r].pc = "idle"
    /\ q \in SignedInOnly => w # "anonymous"
    /\ q \notin {"profile", "bio"} => v = "PUBLIC"
    /\ reader' = [reader EXCEPT ![r] = [pc |-> "asked", who |-> w, query |-> q, seen |-> FirstQuery(w, v),
                                        since |-> Stands(w, post, author, bond)]]
    /\ UNCHANGED <<vars, author, bond>>

Answer(r) ==
    /\ reader[r].pc = "asked"
    /\ \E x \in Circumstances :
        reader' = [reader EXCEPT ![r] = IF Shows(@, x) THEN [@ EXCEPT !.pc = "shown"] ELSE NoRead]
    /\ UNCHANGED <<vars, author, bond>>

Leave(r) ==
    /\ reader[r].pc = "shown"
    /\ reader' = [reader EXCEPT ![r] = NoRead]
    /\ UNCHANGED <<vars, author, bond>>

\* The history of the reads that are under way while something changes.
Watched(r) ==
    LET now == Stands(reader[r].who, post', author', bond') IN
    IF reader[r].pc # "asked" THEN reader[r]
    ELSE [reader[r] EXCEPT !.since = [f \in DOMAIN now |-> @[f] /\ now[f]]]
Watch == reader' = [r \in Readers |-> Watched(r)]

PostStep == Next /\ UNCHANGED <<author, bond>> /\ Watch

(* deleteAccount() of the author: the posts stay.                          *)
DeleteAuthor ==
    /\ author = "ACTIVE" /\ author' = "DELETED"
    /\ UNCHANGED <<vars, bond>> /\ Watch

BondStep ==
    /\ \/ Block \/ BlockedByAuthor \/ Unblock
       \/ CheckFollow \/ InsertFollow \/ FollowFails \/ Unfollow
    /\ UNCHANGED <<vars, author>> /\ Watch

ReadStep ==
    \/ \E r \in Readers, w \in Whos, q \in Queries, v \in Visibilities : Ask(r, w, q, v)
    \/ \E r \in Readers : Answer(r) \/ Leave(r)

FeedNext == PostStep \/ DeleteAuthor \/ BondStep \/ ReadStep
FeedSpec == FeedInit /\ [][FeedNext]_feedVars

-----------------------------------------------------------------------------
FeedTypeOK ==
    /\ TypeOK
    /\ author \in {"ACTIVE", "DELETED"}
    /\ bond \in Bond
    /\ reader \in [Readers -> Read]

(* Whatever changes between the two queries of a read, its answer honours  *)
(* what stood before it began and still stands: a removed post is shown    *)
(* nowhere, a refused or doubtful one in no list of the site that judges,  *)
(* a deleted author's neither in the timeline nor as a profile; an author  *)
(* whom the viewer blocks in none of those that look at blocks, nor in the *)
(* following feed, which looks at none and relies on the block having      *)
(* severed the follow (unless the follow came in after the block); and a   *)
(* reserved bio is not for strangers.  (Links, images, bookmarks and the   *)
(* recommendation service do not ask for the verdict, nor the latter three *)
(* for blocks.)                                                            *)
StandingRulesAreHonoured ==
    \A r \in Readers : LET q == reader[r].query  s == reader[r].since IN
        reader[r].pc = "shown" =>
            /\ s.removed => q \in {"profile", "bio"}
            /\ s.refused => q \notin {"timeline", "following", "popular"}
            /\ s.deleted => q \notin {"timeline", "profile", "bio"}
            /\ s.blocks => q \notin {"timeline", "link", "popular", "profile", "bio"}
            /\ s.blockedBy => q \notin {"link", "profile", "bio"}
            /\ s.blocks \/ s.blockedBy => (q = "following" => reader[r].seen.late)
            /\ s.stranger /\ q = "bio" => reader[r].seen.visibility = "PUBLIC"

(* "also hide posts from people who blocked the viewer"                    *)
(* (posts.service.ts:238): the timeline does not show a viewer the posts   *)
(* of an author who has been blocking him since before he asked.           *)
BlockersAreHidden ==
    \A r \in Readers :
        reader[r].pc = "shown" /\ reader[r].query = "timeline" => ~reader[r].since.blockedBy

=============================================================================
