---------------------------- MODULE MediaPipeline ----------------------------
(***************************************************************************)
(* Uploads, their processing and their attachment to posts: MediaService   *)
(* (media/media.service.ts), LocalDiskStorageService, MediaProcessor       *)
(* (queues/processors/media.processor.ts) and the check of                 *)
(* PostsService.create().                                                  *)
(*                                                                         *)
(* An upload stores the file, then the row, then enqueues a job; each may  *)
(* fail after the ones before it.  A job is run again when it throws or    *)
(* its worker dies, also when that happens between its last write and the  *)
(* end of the job.  Pictures are READY before they are looked at.          *)
(*                                                                         *)
(* Abstracted: bytes (to what their signature says, and whether they       *)
(* decode), names, sizes, and the post around an attachment.               *)
(***************************************************************************)
EXTENDS Naturals, FiniteSets, Queues

CONSTANTS
    Assets,       \* uploads, each with an id of its own
    Posters       \* slots for concurrently running create() handlers

ASSUME MediaAssumption == "idle" \notin Assets

VARIABLES
    upload,     \* the upload() handlers in progress: one per asset
    files,      \* what the storage holds
    asset,      \* MediaAsset: status, or "none" for no row
    kind,       \* what is uploaded; what is damaged begins like a file of its type
    clean,      \* what the moderation service would say of them
    mediaJob,   \* the jobs process-media: state and runs
    poster,     \* the create() handlers: phase and mediaId
    attached,   \* PostMedia: assets that a post shows
    cleared     \* history: the assets that a run of their job has let pass

mediaVars == <<upload, files, asset, kind, clean, mediaJob, poster, attached, cleared>>

Kinds == {"image", "video", "damagedImage", "damagedVideo", "unknown"}

MediaTypeOK ==
    /\ upload \in [Assets -> {"none", "put", "row", "enqueue", "answered"}]
    /\ files \subseteq Assets /\ clean \subseteq Assets
    /\ attached \subseteq Assets /\ cleared \subseteq Assets
    /\ kind \in [Assets -> Kinds]
    /\ asset \in [Assets -> {"none", "PENDING", "PROCESSING", "READY", "FAILED"}]
    /\ mediaJob \in [Assets -> [pc : {"none", "waiting", "found", "asking", "rejected", "passed",
                                      "written", "done", "failed"},
                                runs : 0..Attempts]]
    /\ poster \in [Posters -> {"idle"} \cup Assets]

MediaInit ==
    /\ upload = [a \in Assets |-> "none"] /\ files = {}
    /\ asset = [a \in Assets |-> "none"]
    /\ kind \in [Assets -> Kinds] /\ clean \in SUBSET Assets
    /\ mediaJob = [a \in Assets |-> [pc |-> "none", runs |-> 0]]
    /\ poster = [p \in Posters |-> "idle"] /\ attached = {} /\ cleared = {}

-----------------------------------------------------------------------------
\* The first bytes decide, whatever the client declares.
DetectType(a) ==
    CASE kind[a] = "damagedImage" -> "image"
      [] kind[a] = "damagedVideo" -> "video"
      [] OTHER -> kind[a]
\* Pictures are decoded and written anew; videos are taken as they are.
Reencodes(a) == DetectType(a) = "image" => kind[a] = "image"
Videos == {a \in Assets : DetectType(a) = "video"}

(* upload(): what is of no known type or does not decode (and what is      *)
(* empty or too large) is answered 400 and leaves nothing.                 *)
Upload(a) ==
    /\ upload[a] = "none"
    /\ upload' = [upload EXCEPT ![a] =
                    IF DetectType(a) # "unknown" /\ Reencodes(a) THEN "put" ELSE "answered"]
    /\ UNCHANGED <<files, asset, kind, clean, mediaJob, poster, attached, cleared>>

Put(a) ==
    /\ upload[a] = "put"
    /\ files' = files \cup {a}
    /\ upload' = [upload EXCEPT ![a] = "row"]
    /\ UNCHANGED <<asset, kind, clean, mediaJob, poster, attached, cleared>>

CreateAssetWith(a, status) ==
    /\ upload[a] = "row"
    /\ asset' = [asset EXCEPT ![a] = status]
    /\ upload' = [upload EXCEPT ![a] = "enqueue"]
    /\ UNCHANGED <<files, kind, clean, mediaJob, poster, attached, cleared>>

\* Faulty variant: every asset is ready at once.
CreateAsset_Ready(a) == CreateAssetWith(a, "READY")

(* "images are usable immediately; [...] video start PENDING".             *)
CreateAsset(a) == CreateAssetWith(a, IF a \in Videos THEN "PENDING" ELSE "READY")

EnqueueMedia(a) ==
    /\ upload[a] = "enqueue"
    /\ mediaJob' = [mediaJob EXCEPT ![a].pc = "waiting"]
    /\ upload' = [upload EXCEPT ![a] = "answered"]
    /\ UNCHANGED <<files, asset, kind, clean, poster, attached, cleared>>

\* A step of the upload throws: what the earlier ones wrote stays.
UploadFails(a) ==
    /\ CanFail /\ upload[a] \in {"put", "row", "enqueue"}
    /\ upload' = [upload EXCEPT ![a] = "answered"]
    /\ UNCHANGED <<files, asset, kind, clean, mediaJob, poster, attached, cleared>>

-----------------------------------------------------------------------------
RunMediaJob(a, from, to) ==
    /\ mediaJob[a].pc = from
    /\ mediaJob' = [mediaJob EXCEPT ![a].pc = to]

(* process(): finds the row, ...                                           *)
StartMediaJob(a) ==
    /\ mediaJob[a].pc = "waiting"
    /\ mediaJob' = [mediaJob EXCEPT ![a] = [pc |-> "found", runs |-> @.runs + 1]]
    /\ UNCHANGED <<upload, files, asset, kind, clean, poster, attached, cleared>>
(* ... sets it PROCESSING, whatever it was, ...                            *)
MarkProcessing(a) ==
    /\ RunMediaJob(a, "found", "asking")
    /\ asset' = [asset EXCEPT ![a] = "PROCESSING"]
    /\ UNCHANGED <<upload, files, kind, clean, poster, attached, cleared>>
(* ... asks the service (no answer lets it pass like a good one), ...      *)
JudgeMedia(a) ==
    /\ \/ a \notin clean /\ RunMediaJob(a, "asking", "rejected")
       \/ RunMediaJob(a, "asking", "passed")
    /\ UNCHANGED <<upload, files, asset, kind, clean, poster, attached, cleared>>

(* ... sets it FAILED if it was rejected, READY otherwise, ...             *)
WriteStatus(a) ==
    /\ mediaJob[a].pc \in {"rejected", "passed"}
    /\ asset' = [asset EXCEPT ![a] = IF mediaJob[a].pc = "rejected" THEN "FAILED" ELSE "READY"]
    /\ cleared' = IF mediaJob[a].pc = "passed" THEN cleared \cup {a} ELSE cleared
    /\ mediaJob' = [mediaJob EXCEPT ![a].pc = "written"]
    /\ UNCHANGED <<upload, files, kind, clean, poster, attached>>
(* ... and returns; BullMQ records the end of the job.                     *)
MediaJobDone(a) ==
    /\ RunMediaJob(a, "written", "done")
    /\ UNCHANGED <<upload, files, asset, kind, clean, poster, attached, cleared>>

\* A run throws, or its worker dies, perhaps after the last write.
MediaJobFails(a) ==
    /\ CanFail /\ mediaJob[a].pc \in {"found", "asking", "rejected", "passed", "written"}
    /\ mediaJob' = [mediaJob EXCEPT ![a].pc = AfterFailure(mediaJob[a].runs)]
    /\ UNCHANGED <<upload, files, asset, kind, clean, poster, attached, cleared>>

-----------------------------------------------------------------------------
\* Faulty variant: any status will do.
CheckMedia_AnyStatus(p, a) ==
    /\ poster[p] = "idle" /\ asset[a] # "none"
    /\ poster' = [poster EXCEPT ![p] = a]
    /\ UNCHANGED <<upload, files, asset, kind, clean, mediaJob, attached, cleared>>

(* assertMediaOwnedAndReady(), before the transaction of create(): anyone  *)
(* else's asset, or one that is not READY, is answered 403.                *)
CheckMedia(p, a) ==
    /\ poster[p] = "idle" /\ asset[a] = "READY"
    /\ poster' = [poster EXCEPT ![p] = a]
    /\ UNCHANGED <<upload, files, asset, kind, clean, mediaJob, attached, cleared>>
(* The transaction of create(): the status is not asked for again.         *)
Attach(p) ==
    /\ poster[p] # "idle"
    /\ attached' = attached \cup {poster[p]}
    /\ poster' = [poster EXCEPT ![p] = "idle"]
    /\ UNCHANGED <<upload, files, asset, kind, clean, mediaJob, cleared>>

MediaWorker(a) ==
    StartMediaJob(a) \/ MarkProcessing(a) \/ JudgeMedia(a) \/ WriteStatus(a) \/ MediaJobDone(a)
MediaNext ==
    \/ \E a \in Assets :
        \/ Upload(a) \/ Put(a) \/ CreateAsset(a) \/ EnqueueMedia(a) \/ UploadFails(a)
        \/ MediaWorker(a) \/ MediaJobFails(a)
    \/ \E p \in Posters, a \in Assets : CheckMedia(p, a)
    \/ \E p \in Posters : Attach(p)
MediaSpec == MediaInit /\ [][MediaNext]_mediaVars /\ \A a \in Assets : WF_mediaVars(MediaWorker(a))

-----------------------------------------------------------------------------
(* A row names a file that is there, and a picture's file decodes.  A post *)
(* shows a video only after a run of its job has let it pass, though it    *)
(* may have been refused since: create() does not look again.              *)
ShownVideosWereCleared ==
    /\ \A a \in Assets : asset[a] # "none" => a \in files /\ Reencodes(a)
    /\ attached \cap Videos \subseteq cleared

(* A refusal is taken back by nothing but a repetition of the job, and once *)
(* there are no more of these the refused asset comes into no post, unless  *)
(* a create() had checked it before.  (One that was attached in time stays: *)
(* the mapper does not look at its status.)                                 *)
Refused(a) == asset[a] = "FAILED" /\ a \notin attached /\ \A p \in Posters : poster[p] # a
RefusedStaysOut ==
    [][\A a \in Assets :
        /\ asset[a] = "FAILED" /\ asset'[a] # "FAILED" => mediaJob[a].runs > 1
        /\ Refused(a) /\ mediaJob[a].pc \in {"done", "failed"} => Refused(a)']_mediaVars

(* An asset whose job is enqueued comes to be READY or FAILED, or its job  *)
(* fails every time (and leaves it PROCESSING).                            *)
EveryAssetSettles ==
    \A a \in Assets : mediaJob[a].pc = "waiting" ~>
        \/ mediaJob[a].pc = "done" /\ asset[a] \in {"READY", "FAILED"}
        \/ mediaJob[a].pc = "failed" /\ mediaJob[a].runs = Attempts

=============================================================================
