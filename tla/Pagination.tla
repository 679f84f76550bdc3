------------------------------ MODULE Pagination ------------------------------
(***************************************************************************)
(* Cursor pagination: buildCursorPage (common/dto/pagination.dto.ts) and   *)
(* the list queries built on it, PostsService.list here; the lists of      *)
(* comments, replies, follows, bookmarks, notifications, chat messages and *)
(* the following feed page through their rows in the same way.             *)
(*                                                                         *)
(* A client walks through a list, page by page, while rows are added to    *)
(* it, hidden from it (soft-deleted, filtered by moderation or a block),   *)
(* shown again, or deleted.  Rows are numbered in the order of            *)
(* publishedAt, the newest last; two rows never share a time stamp.        *)
(***************************************************************************)
EXTENDS Integers, FiniteSets

CONSTANTS
    Limit,        \* page size asked for
    MaxRows       \* bound: rows that are ever created

ASSUME PaginationAssumption ==
    /\ Limit \in Nat \ {0}
    /\ MaxRows \in Nat

VARIABLES
    created,  \* the rows created so far are 1..created
    hidden,   \* rows that the query's where clause excludes
    gone,     \* rows deleted from the table
    walk,     \* the client: it has no page yet, asks for the next, or is done
    cursor,   \* nextCursor of the last page
    page,     \* the items of the last page
    earlier,  \* the items of the pages before it
    turns,    \* pages loaded after the first (see More)
    steady,   \* history: the rows that were listed from the first page on
    cut       \* history: a page was asked for from a row that is deleted

rowVars  == <<created, hidden, gone>>
walkVars == <<walk, cursor, page, earlier, turns>>
histVars == <<steady, cut>>
vars     == <<rowVars, walkVars, histVars>>

NoCursor == 0
Listed == (1..created) \ (hidden \cup gone)
Shown == page \cup earlier

Init ==
    /\ created \in 0..MaxRows
    /\ hidden \in SUBSET (1..created)
    /\ gone = {}
    /\ walk = "first"
    /\ cursor = NoCursor
    /\ page = {} /\ earlier = {}
    /\ turns = 0
    /\ steady = {} /\ cut = FALSE

-----------------------------------------------------------------------------
Newer(i, S) == {j \in S : j > i}

\* ORDER BY publishedAt DESC OFFSET skip LIMIT n.
Take(S, skip, n) ==
    {i \in S : /\ skip <= Cardinality(Newer(i, S))
               /\ Cardinality(Newer(i, S)) < skip + n}

(* Prisma's cursor: {id} compares publishedAt with the cursor row's, even  *)
(* if that row fails the where clause; no such row, no result.             *)
From(c) == IF c \in gone THEN {} ELSE {i \in Listed : i <= c}

\* Faulty variant: one row is fetched where limit + 1 are needed to look ahead.
findMany_NoLookAhead(S, skip) == Take(S, skip, Limit)

(* take: limit + 1, so that the extra row tells of a next page.            *)
findMany(S, skip) == Take(S, skip, Limit + 1)

\* Faulty variant: the cursor is the newest row of the page.
buildCursorPage_FromTop(rows) ==
    LET extra == rows \ Take(rows, 0, Limit) IN
    /\ page' = Take(rows, 0, Limit)
    /\ walk' = IF extra = {} THEN "done" ELSE "next"
    /\ cursor' = IF extra = {} THEN NoCursor ELSE CHOOSE i \in rows : Newer(i, rows) = {}

\* Faulty variant: every further page is asked for with the first cursor.
buildCursorPage_StaleCursor(rows) ==
    LET extra == rows \ Take(rows, 0, Limit) IN
    /\ page' = Take(rows, 0, Limit)
    /\ walk' = IF extra = {} THEN "done" ELSE "next"
    /\ cursor' = IF extra = {} THEN NoCursor
                 ELSE IF walk = "next" THEN cursor ELSE CHOOSE i \in extra : TRUE

(* The extra row is not shown; its id becomes the cursor.                  *)
buildCursorPage(rows) ==
    LET extra == rows \ Take(rows, 0, Limit) IN
    /\ page' = Take(rows, 0, Limit)
    /\ walk' = IF extra = {} THEN "done" ELSE "next"
    /\ cursor' = IF extra = {} THEN NoCursor ELSE CHOOSE i \in extra : TRUE

-----------------------------------------------------------------------------
FirstPage ==
    /\ walk = "first"
    /\ buildCursorPage(findMany(Listed, 0))
    /\ earlier' = {}
    /\ turns' = 0
    /\ steady' = Listed
    /\ UNCHANGED <<rowVars, cut>>

\* Counts a page; a walk turns at most MaxRows times, so the count stops there.
More(n) == IF n < MaxRows THEN n + 1 ELSE n

(* cursor: { id: params.cursor }, skip: 1.                                 *)
NextPage ==
    /\ walk = "next"
    /\ buildCursorPage(findMany(From(cursor), 1))
    /\ earlier' = Shown
    /\ turns' = More(turns)
    /\ cut' = (cut \/ cursor \in gone)
    /\ UNCHANGED <<rowVars, steady>>

(* Other requests, between two pages.                                      *)
Insert ==
    /\ created < MaxRows
    /\ created' = created + 1
    /\ UNCHANGED <<hidden, gone, walkVars, histVars>>

Hide(i) ==
    /\ hidden' = hidden \cup {i}
    /\ steady' = steady \ {i}
    /\ UNCHANGED <<created, gone, walkVars, cut>>

Unhide(i) ==
    /\ hidden' = hidden \ {i}
    /\ UNCHANGED <<created, gone, walkVars, histVars>>

Delete(i) ==
    /\ gone' = gone \cup {i}
    /\ steady' = steady \ {i}
    /\ UNCHANGED <<created, hidden, walkVars, cut>>

Next ==
    \/ FirstPage \/ NextPage
    \/ Insert
    \/ \E i \in Listed : Hide(i) \/ Delete(i)
    \/ \E i \in hidden : Unhide(i)

Spec == Init /\ [][Next]_vars

\* The client keeps scrolling.
FairSpec == Spec /\ WF_vars(FirstPage) /\ WF_vars(NextPage)

-----------------------------------------------------------------------------
(* Properties                                                              *)

\* Every variable keeps its type; the client that goes on has a cursor.
TypeOK ==
    /\ created \in 0..MaxRows
    /\ hidden \subseteq 1..created /\ gone \subseteq 1..created
    /\ walk \in {"first", "next", "done"}
    /\ cursor \in 0..created
    /\ walk = "next" => cursor # NoCursor
    /\ page \subseteq 1..created /\ earlier \subseteq 1..created
    /\ turns \in 0..MaxRows
    /\ steady \subseteq 1..created /\ cut \in BOOLEAN

\* Each page continues strictly below the pages before it: nothing is shown twice
\* and the order is kept, whatever is added, hidden or deleted meanwhile.
\* (pagination.dto.ts:6-8 "offset pagination drifts")
NewestFirst == \A i \in page, j \in earlier : i < j

\* A walk misses at most one row at each page boundary: the row the cursor names,
\* or the one below it if that row has been hidden; only a walk whose cursor row was
\* deleted may end early and miss more.  (skip: 1 after rows[limit].id)
OneMissAtABoundary ==
    walk = "done" /\ ~cut => Cardinality(steady \ Shown) <= turns

\* No walk goes on for ever, however many rows are added while it lasts.
WalkEnds == walk = "next" ~> walk = "done"

\* "The cursor is an opaque id of the last seen item" (pagination.dto.ts:7-8): what
\* was listed from the first page to the last has been shown when the walk is done.
WalkShowsEverything == walk = "done" => steady \subseteq Shown

=============================================================================
