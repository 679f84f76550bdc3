------------------------------ MODULE MCContent ------------------------------
(* Instances of CachedPages (with Feeds and Moderation), MediaPipeline and  *)
(* Notifications for TLC.  The three share no state and run on the same     *)
(* queues; a behaviour of this module is a behaviour of one of them, which  *)
(* `topic' names.  "edits" is Moderation alone.  "reads" and "bonds" are    *)
(* Feeds without edits, with a post and an author who change while viewer   *)
(* and author only follow, before there is a post, or with follows and      *)
(* blocks that change once there is a post whose job is over: each rule of  *)
(* a list is about one of the two.  "pages" is CachedPages without edits,   *)
(* with those rows only that the page is made of.                           *)
EXTENDS CachedPages, MediaPipeline, Notifications

VARIABLE topic

mcVars == <<topic, pageVars, mediaVars, noticeVars>>

MCInit ==
    /\ topic \in {"edits", "reads", "bonds", "pages", "media", "notifications"}
    /\ PageInit /\ MediaInit /\ NoticeInit
    /\ topic # "pages" => page = "trends"
    /\ topic # "media" => (\A a \in Assets : kind[a] = "unknown") /\ clean = {}

MCNext ==
    /\ UNCHANGED topic
    /\ \/ /\ topic = "edits"
          /\ UNCHANGED <<author, bond, reader, mediaVars, noticeVars>>
          /\ RowStep
       \/ /\ topic \in {"reads", "bonds"}
          /\ UNCHANGED <<edit, mediaVars, noticeVars>>
          /\ RowStep
          /\ topic = "reads" /\ bond' # bond =>
                post.life = "none" /\ ~bond'.blocks /\ ~bond'.blockedBy
          /\ topic = "bonds" =>
                /\ author' = author /\ post'.life # "removed"
                /\ <<bond, reader>>' # <<bond, reader>> =>
                        post.life = "live" /\ job.pc \in {"none", "done", "failed"}
       \/ /\ topic = "pages"
          /\ UNCHANGED <<edit, bond, reader, mediaVars, noticeVars>>
          /\ IF page = "ranks" THEN UNCHANGED <<post, job>> ELSE UNCHANGED author
          /\ PageNext
       \/ /\ topic = "media"
          /\ MediaNext
          /\ UNCHANGED <<pageVars, noticeVars>>
       \/ /\ topic = "notifications"
          /\ NoticeNext
          /\ UNCHANGED <<pageVars, mediaVars>>

\* The workers of the queues take the jobs there are.
MCSpec ==
    /\ MCInit /\ [][MCNext]_mcVars
    /\ WF_mcVars(Worker /\ MCNext)
    /\ \A a \in Assets : WF_mcVars(MediaWorker(a) /\ MCNext)

\* The rows of the three components are well-formed (a theorem, not a property of the run).
ContentTypeOK == PageTypeOK /\ MediaTypeOK /\ NoticeTypeOK

(* Every job ends and leaves its result, unless the service gave none or   *)
(* all its runs failed (see Moderation and MediaPipeline).                 *)
JobsLand == EveryVerdictLands /\ EveryAssetSettles

=============================================================================
