----------------------------- MODULE Moderation -----------------------------
(***************************************************************************)
(* The text of a post and the verdict on it: PostsService.create() and     *)
(* update() (posts/posts.service.ts), the job that create() enqueues       *)
(* (queues/queue.producer.ts), PythonProcessor                             *)
(* (queues/processors/python.processor.ts) and PythonServiceClient.        *)
(*                                                                         *)
(* One post; posts do not meet here.  create() enqueues one job, which     *)
(* carries the text it was created with; update() enqueues none.  A job    *)
(* that throws, or whose worker dies, is run again, three times in all.    *)
(* The client turns every failure of the service into null, and null ends  *)
(* the job.                                                                *)
(*                                                                         *)
(* Abstracted: what texts say (there are good ones, doubtful ones and bad  *)
(* ones), hashtags to a value, analytics (its events change nothing here). *)
(***************************************************************************)
EXTENDS Naturals, Queues

CONSTANTS
    Good, Doubtful, Bad,  \* texts, by the verdict of the moderation service
    NoText,               \* a post of images only; a field that update() is not sent
    Tags,                 \* values of hashtags
    Editors               \* slots for concurrently running update() handlers

Texts == Good \cup Doubtful \cup Bad
Maybe(S) == S \cup {NoText}

VARIABLES
    post,   \* the row: life, text, tags, moderationStatus, editedAt # null
    job,    \* the job moderate-content: its state, text, verdict and runs
    edit    \* the update() handlers in progress

vars == <<post, job, edit>>

Judgement(t) == CASE t \in Good -> "APPROVED" [] t \in Doubtful -> "FLAGGED" [] OTHER -> "REJECTED"
Statuses == {"PENDING", "APPROVED", "FLAGGED", "REJECTED"}

Post == [life : {"none", "live", "removed"}, text : Maybe(Texts), tags : Tags,
         status : Statuses, edited : BOOLEAN]
Job == [pc : {"none", "due", "waiting", "asking", "answered", "written", "done", "failed"},
        text : Maybe(Texts), verdict : Statuses \cup {"null"}, runs : 0..Attempts]
Idle == [pc |-> "idle", text |-> NoText, tags |-> NoText, oldText |-> NoText,
         oldTags |-> NoText, overtaken |-> FALSE]
Edit == [pc : {"idle", "write"}, text : Maybe(Texts), tags : Maybe(Tags),
         oldText : Maybe(Texts), oldTags : Maybe(Tags), overtaken : BOOLEAN]

TypeOK == post \in Post /\ job \in Job /\ edit \in [Editors -> Edit]

-----------------------------------------------------------------------------
Init ==
    /\ \E g \in Tags : post = [life |-> "none", text |-> NoText, tags |-> g, status |-> "PENDING", edited |-> FALSE]
    /\ job = [pc |-> "none", text |-> NoText, verdict |-> "null", runs |-> 0]
    /\ edit = [e \in Editors |-> Idle]

(* create(): the post and postsCount in one transaction, ...               *)
CreatePost(t, g) ==
    /\ post.life = "none"
    /\ post' = [post EXCEPT !.life = "live", !.text = t, !.tags = g]
    /\ job' = [job EXCEPT !.pc = IF t = NoText THEN "none" ELSE "due", !.text = t]
    /\ UNCHANGED edit

(* ... and then the job, when there is a text.  When Redis fails, or the   *)
(* process dies, the post stays without.                                   *)
Enqueue ==
    /\ job.pc = "due"
    /\ \E pc \in {"waiting"} \cup (IF CanFail THEN {"none"} ELSE {}) : job' = [job EXCEPT !.pc = pc]
    /\ UNCHANGED <<post, edit>>

-----------------------------------------------------------------------------
(* update(): reads the post, which must not be removed, and keeps what it  *)
(* is not sent, ...                                                        *)
BeginEdit(e, t, g) ==
    /\ edit[e].pc = "idle" /\ post.life = "live"
    /\ edit' = [edit EXCEPT ![e] = [pc |-> "write", text |-> t, tags |-> g, overtaken |-> FALSE,
                                    oldText |-> IF t = NoText THEN post.text ELSE NoText,
                                    oldTags |-> IF g = NoText THEN post.tags ELSE NoText]]
    /\ UNCHANGED <<post, job>>

Given(new, old) == IF new = NoText THEN old ELSE new

(* ... and writes each column: the value it was sent, or the one it read.  *)
WriteEdit(e) ==
    /\ edit[e].pc = "write"
    /\ post' = [post EXCEPT !.text = Given(edit[e].text, edit[e].oldText),
                             !.tags = Given(edit[e].tags, edit[e].oldTags), !.edited = TRUE]
    /\ edit' = [f \in Editors |-> IF f = e THEN Idle
                                  ELSE IF edit[f].pc = "write" THEN [edit[f] EXCEPT !.overtaken = TRUE] ELSE edit[f]]
    /\ UNCHANGED job

EditFails(e) ==
    /\ CanFail /\ edit[e].pc = "write"
    /\ edit' = [edit EXCEPT ![e] = Idle]
    /\ UNCHANGED <<post, job>>

RemovePost ==
    /\ post.life = "live"
    /\ post' = [post EXCEPT !.life = "removed"]
    /\ UNCHANGED <<job, edit>>

-----------------------------------------------------------------------------
\* BullMQ hands the job to a worker.
TakeJob ==
    /\ job.pc = "waiting"
    /\ job' = [job EXCEPT !.pc = "asking", !.runs = @ + 1]
    /\ UNCHANGED <<post, edit>>

\* Faulty variants: no verdict counts as an approval; what is not approved
\* is run again.
AskService_Trusting ==
    /\ job.pc = "asking"
    /\ \E v \in {Judgement(job.text), "APPROVED"} : job' = [job EXCEPT !.pc = "answered", !.verdict = v]
    /\ UNCHANGED <<post, edit>>
AskService_Insisting ==
    /\ job.pc = "asking"
    /\ \E v \in {Judgement(job.text), "null"} :
        job' = [job EXCEPT !.pc = IF v = "null" THEN "waiting" ELSE "answered", !.verdict = v, !.runs = 0]
    /\ UNCHANGED <<post, edit>>

(* moderate(): the verdict on the text the job carries, or null when the   *)
(* service is not configured, slow, unreachable or answers an error.       *)
AskService ==
    /\ job.pc = "asking"
    /\ \E v \in {Judgement(job.text), "null"} :
        job' = [job EXCEPT !.pc = IF v = "null" THEN "done" ELSE "answered", !.verdict = v]
    /\ UNCHANGED <<post, edit>>

(* The verdict goes to the row, whatever text the row has by now.          *)
WriteVerdict ==
    /\ job.pc = "answered"
    /\ post' = [post EXCEPT !.status = job.verdict]
    /\ job' = [job EXCEPT !.pc = "written"]
    /\ UNCHANGED edit
JobDone ==
    /\ job.pc = "written"
    /\ job' = [job EXCEPT !.pc = "done"]
    /\ UNCHANGED <<post, edit>>

\* The run throws, or its worker dies, perhaps after the write.
JobFails ==
    /\ CanFail /\ job.pc \in {"asking", "answered", "written"}
    /\ job' = [job EXCEPT !.pc = AfterFailure(job.runs), !.verdict = "null"]
    /\ UNCHANGED <<post, edit>>

-----------------------------------------------------------------------------
Worker == TakeJob \/ AskService \/ WriteVerdict \/ JobDone
Next ==
    \/ \E t \in Maybe(Texts), g \in Tags : CreatePost(t, g)
    \/ Enqueue \/ RemovePost \/ Worker \/ JobFails
    \/ \E e \in Editors, t \in Maybe(Texts), g \in Maybe(Tags) : BeginEdit(e, t, g)
    \/ \E e \in Editors : WriteEdit(e) \/ EditFails(e)

\* The worker takes the jobs there are; a run that fails is repeated.
Fairness == WF_vars(Worker)
Spec == Init /\ [][Next]_vars /\ Fairness

-----------------------------------------------------------------------------
(* An approved post shows a text that the service approves, until it is    *)
(* edited: no verdict that failed, was repeated or came late approves      *)
(* another.  (An edit is not judged: update() enqueues nothing and leaves  *)
(* the status alone.)                                                      *)
ApprovedUnlessEdited ==
    post.status = "APPROVED" /\ ~post.edited => post.text \in Good

(* An edit changes only what it was sent, unless another one committed     *)
(* after it had read the post (then it puts the old value back).           *)
EditsKeepTheRest ==
    [][\A e \in Editors :
        edit[e].pc = "write" /\ edit'[e].pc = "idle" /\ ~edit[e].overtaken
            => /\ edit[e].text = NoText => post'.text = post.text
               /\ edit[e].tags = NoText => post'.tags = post.tags]_vars

(* Every job ends, with the verdict in the row unless the service gave     *)
(* none or every run failed.                                               *)
EveryVerdictLands ==
    job.pc = "waiting" ~>
        \/ job.pc = "done" /\ (job.verdict = "null" \/ post.status = Judgement(job.text))
        \/ job.pc = "failed" /\ job.runs = Attempts

=============================================================================
