----------------------------- MODULE CachedPages -----------------------------
(***************************************************************************)
(* The lists that RedisService.remember() (redis/redis.service.ts) stands  *)
(* in front of: the trending posts and hashtags of FeedsService and the    *)
(* leaderboard of ProfilesService.  It extends Feeds: the post and its     *)
(* author change there, and no code that changes them touches the cache.   *)
(*                                                                         *)
(* A page is looked up, and on a miss queried and stored, each an await of *)
(* its own.  The pages are kept under keys of their own and do not meet: a *)
(* behaviour is about one of them.                                         *)
(*                                                                         *)
(* Abstracted: a page to whether it holds the post (its hashtags, its      *)
(* author); the window of the queries, so a post does not age.             *)
(***************************************************************************)
EXTENDS Feeds

CONSTANTS
    Fillers,    \* slots for concurrently running remember() calls
    TrendsTtl,  \* of trending posts and hashtags (feeds.service.ts: 120 seconds)
    RanksTtl,   \* of the leaderboard (profiles.service.ts: 60 seconds)
    MaxTime     \* bound of the runs: how far the clock goes

ASSUME CacheAssumption == TrendsTtl \in Nat /\ RanksTtl \in Nat /\ MaxTime \in Nat

VARIABLES
    page,         \* the page this behaviour is about
    now,
    cache,        \* the entry: whether it holds the post, and until when
    fill,         \* the remember() calls that have missed
    hiddenSince,  \* history: when the post stopped to belong into the page
    lateFill      \* history: a call held an older page when that happened

pageVars == <<feedVars, page, now, cache, fill, hiddenSince, lateFill>>

\* Where the query of the page finds the post: trending(), trendingHashtags(), which
\* does not ask for the verdict, and getLeaderboard().
Trends == Live /\ post.status = "APPROVED"
TrendingTags == Live
Leaderboard == author = "ACTIVE"
Belongs ==
    \/ page = "trends" /\ Trends
    \/ page = "tags" /\ TrendingTags
    \/ page = "ranks" /\ Leaderboard

Ttl == IF page = "ranks" THEN RanksTtl ELSE TrendsTtl

-----------------------------------------------------------------------------
PageInit ==
    /\ FeedInit
    /\ page \in {"trends", "tags", "ranks"}
    /\ now = 0 /\ hiddenSince = 0 /\ lateFill = FALSE
    /\ cache = [shows |-> FALSE, until |-> 0]
    /\ fill = [f \in Fillers |-> "idle"]

Cached == now < cache.until

(* remember(): get(), and on a miss ...                                    *)
Miss(f) ==
    /\ fill[f] = "idle" /\ ~Cached
    /\ fill' = [fill EXCEPT ![f] = "query"]
    /\ UNCHANGED <<feedVars, page, now, cache, hiddenSince, lateFill>>
(* ... the query, ...                                                      *)
Query(f) ==
    /\ fill[f] = "query"
    /\ fill' = [fill EXCEPT ![f] = IF Belongs THEN "shows" ELSE "lacks"]
    /\ UNCHANGED <<feedVars, page, now, cache, hiddenSince, lateFill>>

StoreWith(f, ttl) ==
    /\ fill[f] \in {"shows", "lacks"}
    /\ cache' = [shows |-> fill[f] = "shows", until |-> now + ttl]
    /\ fill' = [fill EXCEPT ![f] = "idle"]
    /\ UNCHANGED <<feedVars, page, now, hiddenSince, lateFill>>

\* Faulty variant: an entry without an expiry.
Store_Forever(f) == StoreWith(f, MaxTime + 1)

(* ... and set(), which begins a new period.                               *)
Store(f) == StoreWith(f, Ttl)

FillFails(f) ==
    /\ CanFail /\ fill[f] # "idle"
    /\ fill' = [fill EXCEPT ![f] = "idle"]
    /\ UNCHANGED <<feedVars, page, now, cache, hiddenSince, lateFill>>

Tick ==
    /\ now < MaxTime
    /\ now' = now + 1
    /\ UNCHANGED <<feedVars, page, cache, fill, hiddenSince, lateFill>>

\* A step of Feeds: no code that changes a post or an account touches the cache.
RowStep ==
    /\ FeedNext
    /\ UNCHANGED <<page, now, cache, fill>>
    /\ IF Belongs /\ ~Belongs'
       THEN hiddenSince' = now /\ lateFill' = \E f \in Fillers : fill[f] = "shows"
       ELSE UNCHANGED <<hiddenSince, lateFill>>

CacheStep == Tick \/ \E f \in Fillers : Miss(f) \/ Query(f) \/ Store(f) \/ FillFails(f)
PageNext == RowStep \/ CacheStep
PageSpec == PageInit /\ [][PageNext]_pageVars

-----------------------------------------------------------------------------
PageTypeOK ==
    /\ FeedTypeOK
    /\ page \in {"trends", "tags", "ranks"}
    /\ now \in 0..MaxTime /\ hiddenSince \in 0..MaxTime /\ lateFill \in BOOLEAN
    /\ cache \in [shows : BOOLEAN, until : 0..(2 * MaxTime + TrendsTtl + RanksTtl)]
    /\ fill \in [Fillers -> {"idle", "query", "shows", "lacks"}]

(* The trends forget a post that is removed or refused, the hashtags one   *)
(* that is removed, and the leaderboard an account that is deleted, within *)
(* the life of one entry, unless a call that had queried before stores its *)
(* page afterwards.                                                        *)
PagesForget ==
    Cached /\ cache.shows /\ ~Belongs => lateFill \/ now < hiddenSince + Ttl

=============================================================================
