------------------------------- MODULE MCEdges -------------------------------
(* Instances for TLC of the two ends of the system: a client that pages     *)
(* through a list (Pagination), a browser's screen (PostScreen) and the     *)
(* Telegram bot service (BotLifecycle).  They share no state; a behaviour   *)
(* is about one walk, one list, the like button or the bot.                 *)
EXTENDS Pagination, PostScreen, BotLifecycle

VARIABLE topic

\* The openings of the comments are alike: this one comes first.
FirstModal == CHOOSE m \in Modals : TRUE

MCInit ==
    /\ topic \in {"walk", "feed", "comments", "heart", "bot"}
    /\ Init /\ ScreenInit /\ BotInit
    /\ topic # "walk" => created = 0
    /\ topic # "bot" => config = {} /\ up = {}
    /\ topic # "heart" => ~likedOn
    /\ topic \in {"walk", "bot"} => user = "none"
MCNext ==
    /\ UNCHANGED topic
    /\ \/ topic = "walk" /\ Next /\ UNCHANGED <<screenVars, botVars>>
       \/ topic = "bot" /\ BotNext /\ UNCHANGED <<vars, screenVars>>
       \/ /\ topic = "feed" /\ ScreenNext
          /\ \A m \in Modals : ~panel'[m].open
          /\ UNCHANGED <<heart, comments, vars, botVars>>
       \/ /\ topic = "comments" /\ ScreenNext
          /\ ~panel'[Feed].open
          /\ \A m \in Modals : panel'[m] # Fresh => panel'[FirstModal] # Fresh
          /\ UNCHANGED <<heart, posts, vars, botVars>>
       \/ /\ topic = "heart" /\ ScreenNext
          /\ UNCHANGED <<panel, made, vars, botVars>>

mcVars == <<topic, vars, screenVars, botVars>>

\* The client keeps scrolling.
MCSpec ==
    /\ MCInit /\ [][MCNext]_mcVars
    /\ WF_mcVars(FirstPage /\ MCNext) /\ WF_mcVars(NextPage /\ MCNext)

\* The rows, the lists and the card agree, and lists are complete (see
\* ListIsCompleteUnlessMet of PostScreen).
ScreenIsComplete == ScreenTypeOK /\ ListIsCompleteUnlessMet

=============================================================================
