------------------------------- MODULE Chats -------------------------------
(***************************************************************************)
(* Chats, messages and the socket gateway: ChatsService                    *)
(* (chats/chats.service.ts), ChatsController and ChatGateway.              *)
(*                                                                         *)
(* Nobody ever leaves a chat (no code sets leftAt), so its members are     *)
(* those it was created with.  The transaction of sendMessage() takes      *)
(* effect when it commits, but the message bears the time at which it was  *)
(* inserted: messages are numbered in that order, and `history' lists them *)
(* in the order of their commits.  A message is then pushed to the room by *)
(* the gateway, in a step of its own, or not at all (REST).                *)
(*                                                                         *)
(* Abstracted: texts, typing and read events (they change nothing), and    *)
(* the names of users.  Every user has at most one socket.                 *)
(***************************************************************************)
EXTENDS Naturals, Sequences, FiniteSets, Functions

CONSTANTS
    Users, NoUser,
    ChatIds, NoChat,
    Requests,     \* slots for concurrently running handlers
    MaxMessages,  \* bound of the runs: messages that are ever inserted
    CanFail       \* TRUE: a handler may die at an await

ASSUME ChatsAssumption == NoUser \notin Users /\ NoChat \notin ChatIds

VARIABLES
    active,         \* User.status = ACTIVE
    tokens,         \* users whose access token has not expired
    blocks,         \* UserBlock: pairs <<blockerId, blockedId>>
    members,        \* ChatMember: the users of each chat, {} when there is none
    direct,         \* Chat.directKey: the pair of a direct chat, {} otherwise
    lastMessageAt,  \* Chat.lastMessageAt, as the number of a message
    sent,           \* messages inserted so far: their chat and sender
    history,        \* numbers of the committed messages
    receipts,       \* MessageReceipt: pairs <<message, user>>
    unread,         \* those with readAt null
    sockets,        \* connected users
    rooms,          \* pairs <<user, chat>>: the room the user's socket has joined
    overlapped,     \* chats in which two sends have overlapped (read by properties)
    handler         \* the handlers in progress

accounts == <<active, tokens, blocks>>
chats == <<members, direct>>
messages == <<lastMessageAt, sent, history, receipts, unread, overlapped>>
gateway == <<sockets, rooms>>
vars == <<accounts, chats, messages, gateway, handler>>

Idle == [pc |-> "idle", by |-> NoUser, with |-> {}, chat |-> NoChat, msg |-> 0, ws |-> FALSE]
Handler == [pc : {"idle", "checkBlocks", "upsert", "createDirect", "createGroup",
                  "insert", "commit", "push", "markRead"},
            by : Users \cup {NoUser}, with : SUBSET Users,
            chat : ChatIds \cup {NoChat}, msg : Nat, ws : BOOLEAN]

Begin(r, pc, u, others, c, ws) ==
    /\ handler[r].pc = "idle"
    /\ handler' = [handler EXCEPT ![r] = [pc |-> pc, by |-> u, with |-> others, chat |-> c,
                                          msg |-> 0, ws |-> ws]]
Goto(r, pc) == handler' = [handler EXCEPT ![r].pc = pc]
Done(r) == handler' = [handler EXCEPT ![r] = Idle]

Blocked(a, b) == <<a, b>> \in blocks \/ <<b, a>> \in blocks
Key(r) == {handler[r].by} \cup handler[r].with

\* A request passes the JWT guard, which looks at the status; a socket does not.
MayCall(u, ws) == IF ws THEN u \in sockets ELSE u \in tokens \cap active

-----------------------------------------------------------------------------
Init ==
    /\ active = Users /\ tokens = Users /\ blocks = {}
    /\ members = [c \in ChatIds |-> {}] /\ direct = [c \in ChatIds |-> {}]
    /\ lastMessageAt = [c \in ChatIds |-> 0]
    /\ sent = <<>> /\ history = <<>> /\ receipts = {} /\ unread = {}
    /\ sockets = {} /\ rooms = {}
    /\ overlapped = {}
    /\ handler = [r \in Requests |-> Idle]

(* getOrCreateDirect(): the other user exists and is not the caller.       *)
OpenDirect(r, a, b) ==
    /\ a # b /\ MayCall(a, FALSE)
    /\ Begin(r, "checkBlocks", a, {b}, NoChat, FALSE)
    /\ UNCHANGED <<accounts, chats, messages, gateway>>

\* Faulty variant: only the caller's own blocks are looked at.
CheckBlocks_OneWay(r) ==
    /\ handler[r].pc = "checkBlocks"
    /\ IF \E b \in handler[r].with : <<handler[r].by, b>> \in blocks THEN Done(r) ELSE Goto(r, "upsert")
    /\ UNCHANGED <<accounts, chats, messages, gateway>>

CheckBlocks(r) ==
    /\ handler[r].pc = "checkBlocks"
    /\ IF \E b \in handler[r].with : Blocked(handler[r].by, b) THEN Done(r) ELSE Goto(r, "upsert")
    /\ UNCHANGED <<accounts, chats, messages, gateway>>

(* The upsert, which creates members too, is a query followed by an        *)
(* insert; an existing chat is answered as it is.                          *)
FindDirect(r) ==
    /\ handler[r].pc = "upsert"
    /\ IF \E c \in ChatIds : direct[c] = Key(r) THEN Done(r) ELSE Goto(r, "createDirect")
    /\ UNCHANGED <<accounts, chats, messages, gateway>>

\* (A run that has no id left creates nothing.)
NewChat(key, us) ==
    IF \A c \in ChatIds : members[c] # {} THEN UNCHANGED chats
    ELSE \E c \in ChatIds :
            /\ members[c] = {}
            /\ members' = [members EXCEPT ![c] = us]
            /\ direct' = [direct EXCEPT ![c] = key]

(* The unique key refuses the second of two chats: 409 for the caller.     *)
CreateDirect(r) ==
    /\ handler[r].pc = "createDirect"
    /\ IF \E c \in ChatIds : direct[c] = Key(r) THEN UNCHANGED chats
                                                ELSE NewChat(Key(r), Key(r))
    /\ Done(r)
    /\ UNCHANGED <<accounts, messages, gateway>>

(* createGroup(): of the users that are named, those who are active.       *)
CreateGroup(r, a, named) ==
    /\ MayCall(a, FALSE)
    /\ Begin(r, "createGroup", a, named \cap active, NoChat, FALSE)
    /\ UNCHANGED <<accounts, chats, messages, gateway>>
InsertGroup(r) ==
    /\ handler[r].pc = "createGroup"
    /\ NewChat({}, Key(r))
    /\ Done(r)
    /\ UNCHANGED <<accounts, messages, gateway>>

-----------------------------------------------------------------------------
(* assertMember() in front of a send, a mark or a join.                    *)
IsMember(c, u) == u \in members[c]

Send(r, u, c, ws) ==
    /\ MayCall(u, ws) /\ IsMember(c, u)
    /\ Len(sent) + Cardinality({s \in Requests : handler[s].pc = "insert"}) < MaxMessages
    /\ Begin(r, "insert", u, members[c] \ {u}, c, ws)
    /\ UNCHANGED <<accounts, chats, messages, gateway>>

(* The transaction begins: the message has its time, and nobody sees it.   *)
InsertMessage(r) ==
    /\ handler[r].pc = "insert"
    /\ sent' = Append(sent, [chat |-> handler[r].chat, by |-> handler[r].by])
    /\ handler' = [handler EXCEPT ![r].pc = "commit", ![r].msg = Len(sent')]
    /\ overlapped' = IF \E s \in Requests : handler[s].pc = "commit" /\ handler[s].chat = handler[r].chat
                     THEN overlapped \cup {handler[r].chat} ELSE overlapped
    /\ UNCHANGED <<accounts, chats, gateway, lastMessageAt, history, receipts, unread>>

Receipts(r) == {handler[r].msg} \X handler[r].with
CommitWith(r, at, told) ==
    /\ handler[r].pc = "commit"
    /\ history' = Append(history, handler[r].msg)
    /\ lastMessageAt' = [lastMessageAt EXCEPT ![handler[r].chat] = at]
    /\ receipts' = receipts \cup told /\ unread' = unread \cup told
    /\ IF handler[r].ws THEN Goto(r, "push") ELSE Done(r)
    /\ UNCHANGED <<accounts, chats, gateway, sent, overlapped>>

\* Faulty variants: receipts only for those who are connected; the time of
\* the message before.
Commit_Connected(r) == CommitWith(r, handler[r].msg, {p \in Receipts(r) : p[2] \in sockets})
Commit_Late(r) == CommitWith(r, handler[r].msg - 1, Receipts(r))

Commit(r) == CommitWith(r, handler[r].msg, Receipts(r))

(* The gateway's broadcast to the sockets that are in the room by now: it  *)
(* leaves no trace on the server.                                          *)
Push(r) ==
    /\ handler[r].pc = "push"
    /\ Done(r)
    /\ UNCHANGED <<accounts, chats, messages, gateway>>

(* markRead(), and chat:read.                                              *)
MarkRead(r, u, c) ==
    /\ \E ws \in BOOLEAN : MayCall(u, ws)
    /\ IsMember(c, u)
    /\ Begin(r, "markRead", u, {}, c, FALSE)
    /\ UNCHANGED <<accounts, chats, messages, gateway>>
SetRead(r) ==
    /\ handler[r].pc = "markRead"
    /\ unread' = {p \in unread : ~(p[2] = handler[r].by /\ sent[p[1]].chat = handler[r].chat)}
    /\ Done(r)
    /\ UNCHANGED <<accounts, chats, gateway, lastMessageAt, sent, history, receipts, overlapped>>

(* unreadCountsByChat(), which listMine() shows on the user's chats;       *)
(* getMessages().                                                          *)
UnreadCount(u, c) == Cardinality({p \in unread : p[2] = u /\ sent[p[1]].chat = c})
Badges(u) == [c \in {d \in ChatIds : u \in members[d]} |-> UnreadCount(u, c)]
Messages(c) == {m \in Range(history) : sent[m].chat = c}

-----------------------------------------------------------------------------
\* Faulty variant: the handshake takes an expired token.
Connect_Expired(u) ==
    /\ u \notin sockets
    /\ sockets' = sockets \cup {u}
    /\ UNCHANGED <<accounts, chats, messages, rooms, handler>>

(* handleConnection(): the token of the handshake is verified, once.       *)
Connect(u) ==
    /\ u \notin sockets /\ u \in tokens
    /\ sockets' = sockets \cup {u}
    /\ UNCHANGED <<accounts, chats, messages, rooms, handler>>
Disconnect(u) ==
    /\ u \in sockets
    /\ sockets' = sockets \ {u}
    /\ rooms' = {p \in rooms : p[1] # u}
    /\ UNCHANGED <<accounts, chats, messages, handler>>

Join(u, c) ==
    /\ u \in sockets /\ IsMember(c, u)
    /\ rooms' = rooms \cup {<<u, c>>}
    /\ UNCHANGED <<accounts, chats, messages, sockets, handler>>
Leave(u, c) ==
    /\ u \in sockets
    /\ rooms' = rooms \ {<<u, c>>}
    /\ UNCHANGED <<accounts, chats, messages, sockets, handler>>

-----------------------------------------------------------------------------
(* What happens elsewhere: block(), unblock(), deleteAccount(), refresh()  *)
(* for accounts that are active, and time.                                 *)
Account ==
    /\ \/ \E a, b \in Users :
             /\ a # b /\ a \in active /\ a \in tokens
             /\ blocks' \in {blocks \cup {<<a, b>>}, blocks \ {<<a, b>>}}
             /\ UNCHANGED <<active, tokens>>
       \/ \E u \in active \cap tokens : active' = active \ {u} /\ UNCHANGED <<tokens, blocks>>
       \/ \E u \in tokens : tokens' = tokens \ {u} /\ UNCHANGED <<active, blocks>>
       \/ \E u \in active \ tokens : tokens' = tokens \cup {u} /\ UNCHANGED <<active, blocks>>
    /\ UNCHANGED <<chats, messages, gateway, handler>>

\* A handler dies; what it has not committed is rolled back.
Fail(r) ==
    /\ CanFail /\ handler[r].pc # "idle"
    /\ Done(r)
    /\ UNCHANGED <<accounts, chats, messages, gateway>>

Continue(r) ==
    \/ CheckBlocks(r) \/ FindDirect(r) \/ CreateDirect(r) \/ InsertGroup(r)
    \/ InsertMessage(r) \/ Commit(r) \/ Push(r) \/ SetRead(r)

Call(r) ==
    \E u \in Users :
        \/ \E b \in Users : OpenDirect(r, u, b)
        \/ \E named \in SUBSET Users : CreateGroup(r, u, named)
        \/ \E c \in ChatIds, ws \in BOOLEAN : Send(r, u, c, ws)
        \/ \E c \in ChatIds : MarkRead(r, u, c)

Next ==
    \/ \E r \in Requests : Call(r) \/ Continue(r) \/ Fail(r)
    \/ \E u \in Users : Connect(u) \/ Disconnect(u)
    \/ \E u \in Users, c \in ChatIds : Join(u, c) \/ Leave(u, c)
    \/ Account

Spec == Init /\ [][Next]_vars

-----------------------------------------------------------------------------
(* Types, and what rows say of one another: a message that is not          *)
(* committed has no receipts, direct chats have two members.               *)
TypeOK ==
    /\ active \subseteq Users /\ tokens \subseteq Users /\ blocks \subseteq Users \X Users
    /\ members \in [ChatIds -> SUBSET Users] /\ direct \in [ChatIds -> SUBSET Users]
    /\ lastMessageAt \in [ChatIds -> Nat]
    /\ sent \in Seq([chat : ChatIds, by : Users])
    /\ history \in Seq(Nat) /\ Range(history) \subseteq 1..Len(sent)
    /\ unread \subseteq receipts /\ receipts \subseteq Range(history) \X Users
    /\ sockets \subseteq Users /\ rooms \subseteq sockets \X ChatIds
    /\ overlapped \subseteq ChatIds
    /\ handler \in [Requests -> Handler]

(* Every committed message has a receipt for each member but its sender,   *)
(* and the badge of a chat counts messages of its history, however sends,  *)
(* marks and deaths of handlers fall (sendMessage(): "all atomically").    *)
EveryOtherMemberIsTold ==
    /\ \A m \in Range(history) :
        {u \in Users : <<m, u>> \in receipts} = members[sent[m].chat] \ {sent[m].by}
    /\ \A u \in Users : \A c \in DOMAIN Badges(u) :
        Badges(u)[c] <= Cardinality({m \in Messages(c) : sent[m].by # u})

(* A pair has one direct chat, whoever opens it and however often at once  *)
(* ("Canonical key prevents duplicate DMs regardless of who initiates").   *)
OneDirectChat ==
    \A c, d \in ChatIds : direct[c] # {} /\ direct[c] = direct[d] => c = d

(* A chat's place in the list (lastMessageAt) is that of its newest        *)
(* message as long as no two sends to it have overlapped.  (When they do,  *)
(* the message that commits last decides, and it may be the older one.)    *)
InOrderUnlessOverlapped ==
    \A c \in ChatIds \ overlapped :
        \A m \in Messages(c) : lastMessageAt[c] >= m

(* Whoever hears a message is a member of its chat and finds it in the     *)
(* history: rooms admit members only, nothing is pushed before it is       *)
(* committed.                                                              *)
Audience(r) == {u \in Users : <<u, handler[r].chat>> \in rooms}
RoomsHearHistory ==
    \A r \in Requests : handler[r].pc = "push" =>
        /\ handler[r].msg \in Messages(handler[r].chat)
        /\ Audience(r) \subseteq members[handler[r].chat]

(* What rows, rooms and receipts say of one another.                       *)
ChatsConsistent == TypeOK /\ OneDirectChat /\ EveryOtherMemberIsTold /\ RoomsHearHistory

(* While a block stands between two users, no direct chat of theirs is     *)
(* created, unless an opener had passed its check before.  (A chat that    *)
(* exists goes on: sendMessage() does not ask for blocks.)                 *)
PastCheck(p) == \E r \in Requests : handler[r].pc \in {"upsert", "createDirect"} /\ Key(r) = p
NoChatAcrossBlock ==
    [][\A a, b \in Users :
        Blocked(a, b) /\ ~PastCheck({a, b}) /\ (\A c \in ChatIds : direct[c] # {a, b})
            => ~PastCheck({a, b})' /\ (\A c \in ChatIds : direct'[c] # {a, b})]_vars

(* A deleted account whose token has expired and whose socket is closed    *)
(* is silent for good, and a live token or socket is all that lets it      *)
(* speak until then (handleConnection() looks at the token only).          *)
Silenced(u) ==
    /\ u \notin active /\ u \notin tokens /\ u \notin sockets
    /\ \A r \in Requests : handler[r].by # u
DeletedAccountFallsSilent == [][\A u \in Users : Silenced(u) => Silenced(u)']_vars

=============================================================================
