------------------------------ MODULE PostScreen ------------------------------
(***************************************************************************)
(* What a browser shows of a post, its comments and the feed: Feed.tsx,    *)
(* PostCreator.tsx, PostCard.tsx and CommentsModal.tsx, with the calls of  *)
(* api/posts.ts and api/comments.ts.                                       *)
(*                                                                         *)
(* The feed with its form, and each opening of the comments, are panels of *)
(* one shape: a list that is loaded once, and a form whose answer is added *)
(* to the list.  A call is sent, served (at any moment while it is under   *)
(* way) and received, or fails: its answer is lost, or it never arrives.   *)
(* Items are numbered in the order in which the server makes them.         *)
(*                                                                         *)
(* Abstracted: texts, the order within a list, and the mock mode (it calls *)
(* nobody).                                                                *)
(***************************************************************************)
EXTENDS Naturals, FiniteSets

CONSTANTS
    Modals,    \* the openings of the comments; the feed is one more panel
    Feed,
    MaxItems   \* bound of the runs: posts and comments the server makes

ASSUME PostScreenAssumption == Feed \notin Modals /\ MaxItems \in Nat

VARIABLES
    user,      \* "none", "unverified" or "verified", as AuthContext knows him
    account,   \* the same, as the server does
    posts, comments,  \* rows of the server
    made,      \* number of rows made so far
    panel,     \* the panels
    count,     \* commentCount of the card
    heart,     \* the like button of the card
    likedOn    \* the reaction on the server

screenVars == <<user, account, posts, comments, made, panel, count, heart, likedOn>>

Panels == Modals \cup {Feed}
Items == 1..MaxItems
Store(p) == IF p = Feed THEN posts ELSE comments

(* shown counts how often an item is on the list.  The last three fields   *)
(* are read by properties only: the rows the list was loaded from, the     *)
(* user's own items, and whether load and form were under way together.    *)
Fresh == [open |-> FALSE, shown |-> [i \in Items |-> 0], load |-> "none", rows |-> {},
          typed |-> FALSE, submit |-> "none", item |-> 0, own |-> {}, met |-> FALSE]
Busy(call) == call \in {"sent", "served", "failed"}
Put(p, new) ==
    panel' = [panel EXCEPT ![p] = [new EXCEPT !.met = @ \/ (Busy(new.load) /\ Busy(new.submit))]]

\* viewerContext(): the posts of a page come with the reader's own reaction.
ViewerContext == likedOn

ScreenInit ==
    /\ user \in {"none", "unverified", "verified"} /\ account = user
    /\ posts = {} /\ comments = {} /\ made = 0
    /\ panel = [p \in Panels |-> Fresh]
    /\ count = 0
    /\ likedOn \in BOOLEAN
    /\ heart = [liked |-> ViewerContext, call |-> "none", answer |-> FALSE, lost |-> FALSE]

-----------------------------------------------------------------------------
(* The effect that runs when the feed is mounted or the comments opened;   *)
(* one modal is open at a time.                                            *)
Open(p) ==
    /\ panel[p].load = "none"
    /\ p \in Modals => \A m \in Modals : ~panel[m].open
    /\ Put(p, [panel[p] EXCEPT !.open = TRUE, !.load = "sent"])
    /\ UNCHANGED <<user, account, posts, comments, made, count, heart, likedOn>>

(* Closing makes the load inactive and leaves a submission under way.      *)
Close(p) ==
    /\ p \in Modals /\ panel[p].open
    /\ Put(p, [panel[p] EXCEPT !.open = FALSE])
    /\ UNCHANGED <<user, account, posts, comments, made, count, heart, likedOn>>

Type(p) ==
    /\ panel[p].open /\ ~panel[p].typed
    /\ Put(p, [panel[p] EXCEPT !.typed = TRUE])
    /\ UNCHANGED <<user, account, posts, comments, made, count, heart, likedOn>>

(* handleSubmit(): a visitor is sent to the login page, an unverified user *)
(* to the code; the modal closes, and the form of the feed is cleared.     *)
Submit(p) ==
    /\ panel[p].open /\ panel[p].typed /\ panel[p].submit = "none"
    /\ IF user = "verified" THEN Put(p, [panel[p] EXCEPT !.submit = "sent"])
       ELSE IF p = Feed THEN Put(p, [panel[p] EXCEPT !.typed = FALSE])
       ELSE Put(p, [panel[p] EXCEPT !.open = FALSE])
    /\ UNCHANGED <<user, account, posts, comments, made, count, heart, likedOn>>

(* VerifyEmailPage: the code is accepted, and the user is read again.      *)
Verify ==
    /\ \/ account = "unverified" /\ account' = "verified" /\ UNCHANGED user
       \/ user # account /\ user' = account /\ UNCHANGED account
    /\ UNCHANGED <<posts, comments, made, panel, count, heart, likedOn>>

-----------------------------------------------------------------------------
(* The guards of the server: JwtAuthGuard and EmailVerifiedGuard let a     *)
(* write pass; a list is for everybody (OptionalJwtAuthGuard).             *)
MayWrite == account = "verified"

\* The first page: the rows of this model are those within its limit of 20.
ServeLoad(p) ==
    /\ panel[p].load = "sent"
    /\ Put(p, [panel[p] EXCEPT !.load = "served", !.rows = Store(p)])
    /\ UNCHANGED <<user, account, posts, comments, made, count, heart, likedOn>>

Make(p) ==
    /\ made < MaxItems /\ made' = made + 1
    /\ IF p = Feed THEN posts' = posts \cup {made'} /\ UNCHANGED comments
                   ELSE comments' = comments \cup {made'} /\ UNCHANGED posts
ServeSubmit(p) ==
    /\ panel[p].submit = "sent"
    /\ IF MayWrite
         THEN Make(p) /\ Put(p, [panel[p] EXCEPT !.submit = "served", !.item = made'])
         ELSE UNCHANGED <<posts, comments, made>> /\ Put(p, [panel[p] EXCEPT !.submit = "failed"])
    /\ UNCHANGED <<user, account, count, heart, likedOn>>
Others ==
    /\ \E p \in Panels : Make(p)
    /\ UNCHANGED <<user, account, panel, count, heart, likedOn>>

(* The network, or a 5xx.                                                  *)
CallLost(p) ==
    /\ \/ panel[p].load \in {"sent", "served"} /\ Put(p, [panel[p] EXCEPT !.load = "failed"])
       \/ panel[p].submit \in {"sent", "served"} /\ Put(p, [panel[p] EXCEPT !.submit = "failed"])
    /\ UNCHANGED <<user, account, posts, comments, made, count, heart, likedOn>>

-----------------------------------------------------------------------------
OnceEach(rows) == [i \in Items |-> IF i \in rows THEN 1 ELSE 0]

(* The answer replaces the list.  A failed load empties the comments, and  *)
(* leaves the feed as it is.                                               *)
ReceiveLoad(p) ==
    /\ panel[p].load \in {"served", "failed"}
    /\ Put(p, LET done == [panel[p] EXCEPT !.load = "done"] IN
              IF ~panel[p].open THEN [done EXCEPT !.rows = {}]
              ELSE IF panel[p].load = "served" THEN [done EXCEPT !.shown = OnceEach(panel[p].rows)]
              ELSE IF p = Feed THEN [done EXCEPT !.rows = {}]
              ELSE [done EXCEPT !.shown = OnceEach({}), !.rows = {}])
    /\ UNCHANGED <<user, account, posts, comments, made, count, heart, likedOn>>

Received(p, shown) ==
    LET i == panel[p].item IN
    /\ panel[p].submit \in {"served", "failed"}
    /\ IF panel[p].submit = "served"
         THEN /\ Put(p, [panel[p] EXCEPT !.submit = "none", !.item = 0, !.typed = FALSE,
                                         !.shown = shown, !.own = @ \cup {i}])
              /\ count' = IF p = Feed THEN count ELSE count + 1
         ELSE Put(p, [panel[p] EXCEPT !.submit = "none", !.item = 0]) /\ UNCHANGED count
    /\ UNCHANGED <<user, account, posts, comments, made, heart, likedOn>>

\* Faulty variant: a closure extends the empty list of the first render.
ReceiveSubmit_Captured(p) == Received(p, [OnceEach({}) EXCEPT ![panel[p].item] = 1])

(* The item is appended; a closed modal has no list, but the card counts.  *)
(* On failure the text stays, for another try.                             *)
ReceiveSubmit(p) ==
    Received(p, IF panel[p].open THEN [panel[p].shown EXCEPT ![panel[p].item] = @ + 1]
                                 ELSE panel[p].shown)

-----------------------------------------------------------------------------
(* handleToggleLike(): one call at a time, of a signed-in user.            *)
ToggleLike ==
    /\ heart.call = "none" /\ user # "none"
    /\ heart' = [heart EXCEPT !.call = "sent"]
    /\ UNCHANGED <<user, account, posts, comments, made, panel, count, likedOn>>
ServeLike ==
    /\ heart.call = "sent"
    /\ IF MayWrite
         THEN likedOn' = ~likedOn /\ heart' = [heart EXCEPT !.call = "served", !.answer = ~likedOn]
         ELSE heart' = [heart EXCEPT !.call = "failed"] /\ UNCHANGED likedOn
    /\ UNCHANGED <<user, account, posts, comments, made, panel, count>>
LikeLost ==
    /\ heart.call \in {"sent", "served"}
    /\ heart' = [heart EXCEPT !.call = "failed", !.lost = @ \/ heart.call = "served"]
    /\ UNCHANGED <<user, account, posts, comments, made, panel, count, likedOn>>

LikeReceived(liked) ==
    /\ heart.call \in {"served", "failed"}
    /\ heart' = IF heart.call = "served"
                THEN [liked |-> liked, call |-> "none", answer |-> FALSE, lost |-> FALSE]
                ELSE [heart EXCEPT !.call = "none", !.answer = FALSE]
    /\ UNCHANGED <<user, account, posts, comments, made, panel, count, likedOn>>

\* Faulty variant: the button is flipped instead of set.
ReceiveLike_Flip == LikeReceived(~heart.liked)

(* "On an error the state is left alone".                                  *)
ReceiveLike == LikeReceived(heart.answer)

ScreenNext ==
    \/ \E p \in Panels :
          \/ Open(p) \/ Close(p) \/ Type(p) \/ Submit(p)
          \/ ServeLoad(p) \/ ServeSubmit(p) \/ CallLost(p) \/ ReceiveLoad(p) \/ ReceiveSubmit(p)
    \/ Others \/ Verify
    \/ ToggleLike \/ ServeLike \/ LikeLost \/ ReceiveLike

ScreenSpec == ScreenInit /\ [][ScreenNext]_screenVars

-----------------------------------------------------------------------------
ScreenTypeOK ==
    /\ posts \cap comments = {} /\ posts \cup comments = 1..made
    /\ \A p \in Panels :
        /\ panel[p].shown \in [Items -> 0..2]
        /\ panel[p].own \cup {i \in Items : panel[p].shown[i] > 0} \subseteq Store(p)
    /\ Cardinality({m \in Modals : panel[m].open}) <= 1
    /\ count <= Cardinality(comments)

(* An open panel that waits for nothing shows each row that was there when *)
(* its list was read, and each item the user has added, exactly once, as   *)
(* long as its load and its form were not under way together.  (When they  *)
(* were, the late list drops what was added, or shows it twice.)           *)
ListIsCompleteUnlessMet ==
    \A p \in Panels :
        panel[p].open /\ panel[p].load = "done" /\ ~panel[p].met =>
            panel[p].shown = OnceEach(panel[p].rows \cup panel[p].own)

(* The heart shows the reaction the server has, unless the answer to the   *)
(* last toggle was lost after it was served, and the next answer that      *)
(* arrives puts it right.                                                  *)
HeartIsTrueUnlessLost ==
    heart.call = "none" /\ ~heart.lost => heart.liked = likedOn

=============================================================================
