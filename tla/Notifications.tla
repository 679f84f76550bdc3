---------------------------- MODULE Notifications ----------------------------
(***************************************************************************)
(* Notifications: NotificationsService (notifications/                     *)
(* notifications.service.ts), the fan-out job                              *)
(* (queues/processors/notifications.processor.ts) and the bridge from      *)
(* Redis to the sockets (chats/chat.gateway.ts, afterInit()).              *)
(*                                                                         *)
(* An event is told to one recipient, by the handler that caused it or by  *)
(* a job; notify() writes a row and publishes it, and nobody waits for the *)
(* publication.  A job whose worker dies after the row is run again and    *)
(* writes another.  Rows are numbered.  (Nothing enqueues this job today:  *)
(* follow() calls notify() itself.)                                        *)
(*                                                                         *)
(* Abstracted: kinds of events, actors' names.                             *)
(***************************************************************************)
EXTENDS Naturals, Sequences, FiniteSets, Queues

CONSTANTS
    Events,       \* each has one recipient, the same for all: its owner
    Own,          \* those the recipient caused
    ByJob         \* those that are told by a job

VARIABLES
    told,      \* the teller of each event: phase and number of runs
    rows,      \* Notification: the event of each row
    unseen,    \* those with readAt null
    pushing,   \* rows that are being published
    screen     \* rows the recipient's open page has got, by push or by list

noticeVars == <<told, rows, unseen, pushing, screen>>

Ids == DOMAIN rows
NoticeTypeOK ==
    /\ told \in [Events -> [pc : {"none", "running", "written", "done"}, run : 0..Attempts]]
    /\ rows \in Seq(Events)
    /\ unseen \subseteq Ids /\ pushing \subseteq Ids /\ screen \subseteq Ids

NoticeInit ==
    /\ told = [e \in Events |-> [pc |-> "none", run |-> 0]]
    /\ rows = <<>> /\ unseen = {} /\ pushing = {} /\ screen = {}

Happen(e) ==
    /\ told[e].pc = "none"
    /\ told' = [told EXCEPT ![e] = [pc |-> "running", run |-> 1]]
    /\ UNCHANGED <<rows, unseen, pushing, screen>>

WriteNotice(e, pc) ==
    /\ told[e].pc = "running"
    /\ told' = [told EXCEPT ![e].pc = pc]
    /\ IF e \in Own THEN UNCHANGED <<rows, unseen, pushing>>
       ELSE /\ rows' = Append(rows, e)
            /\ unseen' = unseen \cup {Len(rows')} /\ pushing' = pushing \cup {Len(rows')}
    /\ UNCHANGED screen

\* Faulty variant: a handler that does not wait for notify() calls it again.
Notify_Twice(e) == WriteNotice(e, IF Len(rows) = 1 THEN "running" ELSE "written")

(* notify(): "never notify yourself"; a row, and then a publication that   *)
(* nobody waits for.                                                       *)
Notify(e) == WriteNotice(e, "written")

Told(e) ==
    /\ told[e].pc = "written"
    /\ told' = [told EXCEPT ![e].pc = "done"]
    /\ UNCHANGED <<rows, unseen, pushing, screen>>

(* A handler that dies has told or has not; a job is run again.            *)
TellerFails(e) ==
    /\ CanFail /\ told[e].pc \in {"running", "written"}
    /\ told' = [told EXCEPT ![e] = IF e \in ByJob /\ @.run < Attempts
                                   THEN [pc |-> "running", run |-> @.run + 1] ELSE [@ EXCEPT !.pc = "done"]]
    /\ UNCHANGED <<rows, unseen, pushing, screen>>

(* The gateway hands what is published to the recipient's sockets; it is   *)
(* lost when there are none, or when the publication fails.                *)
Push(n) ==
    /\ n \in pushing
    /\ pushing' = pushing \ {n}
    /\ screen' \in {screen, screen \cup {n}}
    /\ UNCHANGED <<told, rows, unseen>>

(* list() and unreadCount(); a page that is opened begins with the list.   *)
List == Ids
UnreadCount == Cardinality(unseen)
OpenPage ==
    /\ screen' = List
    /\ UNCHANGED <<told, rows, unseen, pushing>>

(* markRead() of a row that is shown; markAllRead().                       *)
MarkRead(n) ==
    /\ n \in screen
    /\ unseen' = unseen \ {n}
    /\ UNCHANGED <<told, rows, pushing, screen>>
MarkAllRead ==
    /\ screen # {}
    /\ unseen' = {}
    /\ UNCHANGED <<told, rows, pushing, screen>>

NoticeNext ==
    \/ \E e \in Events : Happen(e) \/ Notify(e) \/ Told(e) \/ TellerFails(e)
    \/ \E n \in Ids : Push(n) \/ MarkRead(n)
    \/ OpenPage \/ MarkAllRead
NoticeSpec == NoticeInit /\ [][NoticeNext]_noticeVars

-----------------------------------------------------------------------------
(* An event is told once, and one's own not at all; more than once only by *)
(* a job that was repeated, and never more often than it ran.              *)
Tellings(e) == Cardinality({n \in Ids : rows[n] = e})
ToldOncePerRun ==
    \A e \in Events :
        /\ e \in Own => Tellings(e) = 0
        /\ Tellings(e) <= told[e].run
        /\ Tellings(e) > 1 => e \in ByJob

=============================================================================
