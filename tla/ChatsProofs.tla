----------------------------- MODULE ChatsProofs -----------------------------
(***************************************************************************)
(* Proofs about Chats for any users, chats, handlers and messages, with or *)
(* without failing handlers.                                               *)
(***************************************************************************)
EXTENDS Chats, FiniteSetTheorems, TLAPS

USE ChatsAssumption

Message == [chat : ChatIds, by : Users]
Numbers == 1..Len(sent)

-----------------------------------------------------------------------------
(* What the record h of a handler says of the rows.                        *)
RecordOK(h) ==
    /\ h \in Handler
    /\ h.pc # "idle" => h.by \in Users
    /\ h.pc \in {"checkBlocks", "upsert", "createDirect"} => \E b \in Users : b # h.by /\ h.with = {b}
    /\ h.pc \in {"insert", "commit"} =>
          h.chat \in ChatIds /\ h.by \in members[h.chat] /\ h.with = members[h.chat] \ {h.by}
    /\ h.pc = "commit" =>
          /\ h.msg \in Numbers /\ sent[h.msg].chat = h.chat /\ sent[h.msg].by = h.by
          /\ h.msg \notin Range(history)
          /\ h.chat \notin overlapped => \A m \in Messages(h.chat) : m < h.msg
    /\ h.pc = "push" => h.chat \in ChatIds /\ h.msg \in Messages(h.chat)
    /\ h.pc = "markRead" => h.chat \in ChatIds

(* Two handlers do not commit the same message, nor, where no sends have   *)
(* overlapped, to the same chat.                                           *)
Apart ==
    \A r, s \in Requests :
        r # s /\ handler[r].pc = "commit" /\ handler[s].pc = "commit" =>
            /\ handler[r].msg # handler[s].msg
            /\ handler[r].chat = handler[s].chat => handler[r].chat \in overlapped

(* Senders and those who have joined a room are members.                   *)
MembersOK ==
    /\ \A m \in Numbers : sent[m].by \in members[sent[m].chat]
    /\ \A u \in Users, c \in ChatIds : <<u, c>> \in rooms => u \in members[c]

Told ==
    \A m \in Range(history) :
        {u \in Users : <<m, u>> \in receipts} = members[sent[m].chat] \ {sent[m].by}

(* The inductive invariant.                                                *)
IInv ==
    /\ TypeOK /\ OneDirectChat /\ MembersOK /\ Told /\ InOrderUnlessOverlapped
    /\ Apart /\ \A r \in Requests : RecordOK(handler[r])

-----------------------------------------------------------------------------
LEMMA IdleOK == RecordOK(Idle) /\ Idle.pc = "idle"
BY DEF RecordOK, Idle, Handler

LEMMA RangeAppend ==
    ASSUME NEW S, NEW s \in Seq(S), NEW e \in S
    PROVE  Range(Append(s, e)) = Range(s) \cup {e}
<1>1. /\ DOMAIN Append(s, e) = 1..(Len(s) + 1) /\ DOMAIN s = 1..Len(s) /\ Len(s) \in Nat
      /\ Append(s, e)[Len(s) + 1] = e
      /\ \A i \in 1..Len(s) : Append(s, e)[i] = s[i]
  OBVIOUS
<1>2. 1..(Len(s) + 1) = 1..Len(s) \cup {Len(s) + 1}
  BY <1>1
<1>3. QED BY <1>1, <1>2 DEF Range

LEMMA InitIInv == Init => IInv
<1> SUFFICES ASSUME Init PROVE IInv
  OBVIOUS
<1>1. \A r \in Requests : handler[r] = Idle
  BY DEF Init
<1>2. sent = <<>> /\ history = <<>> /\ Range(history) = {} /\ Len(sent) = 0 /\ sent \in Seq(Message)
      /\ history \in Seq(Nat)
  BY DEF Init, Range
<1>3. TypeOK
  BY <1>2, IdleOK DEF Init, TypeOK, RecordOK, Message
<1>4. OneDirectChat
  BY DEF Init, OneDirectChat
<1>5. MembersOK /\ Told /\ InOrderUnlessOverlapped
  BY <1>2 DEF Init, MembersOK, Numbers, Told, InOrderUnlessOverlapped, Messages
<1>6. Apart /\ \A r \in Requests : RecordOK(handler[r])
  BY <1>1, IdleOK DEF Apart
<1>7. QED BY <1>3, <1>4, <1>5, <1>6 DEF IInv

-----------------------------------------------------------------------------
(* Steps that move one handler, not into its commit, and leave the rows.   *)
Rows == <<chats, lastMessageAt, sent, history, receipts, overlapped>>

LEMMA RowsKept ==
    ASSUME UNCHANGED Rows
    PROVE  \A h : RecordOK(h)' <=> RecordOK(h)
BY DEF Rows, RecordOK, chats, Numbers, Messages

LEMMA HandlerMoves ==
    ASSUME IInv, NEW r \in Requests, NEW h, RecordOK(h), h.pc # "commit",
           handler' = [handler EXCEPT ![r] = h],
           UNCHANGED Rows, UNCHANGED <<accounts, gateway>>, unread' \subseteq unread
    PROVE  IInv'
<1>1. handler' \in [Requests -> Handler] /\ handler'[r] = h
      /\ \A s \in Requests : s # r => handler'[s] = handler[s]
  BY DEF IInv, TypeOK, RecordOK
<1>2. TypeOK'
  BY <1>1 DEF IInv, TypeOK, Rows, chats, accounts, gateway
<1>3. Apart'
  BY <1>1 DEF IInv, Apart, Rows
<1>4. \A s \in Requests : RecordOK(handler'[s])
  BY <1>1 DEF IInv
<1>5. \A s \in Requests : RecordOK(handler[s])'
  BY <1>4, RowsKept
<1>6. (OneDirectChat /\ MembersOK /\ Told /\ InOrderUnlessOverlapped)'
  BY DEF IInv, OneDirectChat, MembersOK, Told, InOrderUnlessOverlapped, Numbers, Messages,
         Rows, chats, gateway
<1>7. QED BY <1>2, <1>3, <1>5, <1>6 DEF IInv

\* Begin, Goto and Done as moves to a record.
LEMMA BeginRecord ==
    ASSUME IInv, NEW r \in Requests, NEW pc \in {"checkBlocks", "createGroup", "insert", "markRead"},
           NEW u \in Users, NEW others \in SUBSET Users, NEW c \in ChatIds \cup {NoChat},
           NEW ws \in BOOLEAN, Begin(r, pc, u, others, c, ws),
           pc = "checkBlocks" => \E b \in Users : b # u /\ others = {b},
           pc = "insert" => c \in ChatIds /\ u \in members[c] /\ others = members[c] \ {u},
           pc = "markRead" => c \in ChatIds
    PROVE  \E h : RecordOK(h) /\ h.pc # "commit" /\ handler' = [handler EXCEPT ![r] = h]
<1> DEFINE h == [pc |-> pc, by |-> u, with |-> others, chat |-> c, msg |-> 0, ws |-> ws]
<1>1. h \in Handler
  BY DEF Handler
<1>2. RecordOK(h) /\ h.pc # "commit"
  BY <1>1 DEF RecordOK
<1>3. handler' = [handler EXCEPT ![r] = h]
  BY DEF Begin
<1>4. QED BY <1>2, <1>3

LEMMA GotoRecord ==
    ASSUME IInv, NEW r \in Requests, NEW pc \in {"upsert", "createDirect"}, Goto(r, pc),
           handler[r].pc \in {"checkBlocks", "upsert"}
    PROVE  \E h : RecordOK(h) /\ h.pc # "commit" /\ handler' = [handler EXCEPT ![r] = h]
<1> DEFINE h == [handler[r] EXCEPT !.pc = pc]
<1>1. handler[r] \in Handler /\ RecordOK(handler[r])
  BY DEF IInv, TypeOK
<1>2. h \in Handler /\ h.pc = pc /\ h.by = handler[r].by /\ h.with = handler[r].with
  BY <1>1 DEF Handler
<1> HIDE DEF h
<1>3. RecordOK(h)
  BY <1>1, <1>2 DEF RecordOK
<1>4. handler' = [handler EXCEPT ![r] = h]
  BY <1>1 DEF Goto, h
<1>5. QED BY <1>2, <1>3, <1>4

LEMMA QuietSteps ==
    ASSUME IInv, NEW r \in Requests,
           \/ \E u, b \in Users : OpenDirect(r, u, b)
           \/ \E u \in Users, named \in SUBSET Users : CreateGroup(r, u, named)
           \/ \E u \in Users, c \in ChatIds, ws \in BOOLEAN : Send(r, u, c, ws)
           \/ \E u \in Users, c \in ChatIds : MarkRead(r, u, c)
           \/ CheckBlocks(r) \/ FindDirect(r) \/ Push(r) \/ SetRead(r) \/ Fail(r)
    PROVE  IInv'
<1> USE DEF Rows, messages
<1>1. ASSUME NEW u \in Users, NEW b \in Users, OpenDirect(r, u, b) PROVE IInv'
  <2>1. {b} \in SUBSET Users /\ FALSE \in BOOLEAN
    OBVIOUS
  <2>2. PICK h : RecordOK(h) /\ h.pc # "commit" /\ handler' = [handler EXCEPT ![r] = h]
    BY <1>1, <2>1, BeginRecord DEF OpenDirect
  <2>3. QED BY <1>1, <2>2, HandlerMoves DEF OpenDirect
<1>2. ASSUME NEW u \in Users, NEW named \in SUBSET Users, CreateGroup(r, u, named) PROVE IInv'
  <2>1. named \cap active \in SUBSET Users /\ FALSE \in BOOLEAN
    OBVIOUS
  <2>2. PICK h : RecordOK(h) /\ h.pc # "commit" /\ handler' = [handler EXCEPT ![r] = h]
    BY <1>2, <2>1, BeginRecord DEF CreateGroup
  <2>3. QED BY <1>2, <2>2, HandlerMoves DEF CreateGroup
<1>3. ASSUME NEW u \in Users, NEW c \in ChatIds, NEW ws \in BOOLEAN, Send(r, u, c, ws) PROVE IInv'
  <2>1. members[c] \ {u} \in SUBSET Users
    BY DEF IInv, TypeOK
  <2>2. PICK h : RecordOK(h) /\ h.pc # "commit" /\ handler' = [handler EXCEPT ![r] = h]
    BY <1>3, <2>1, BeginRecord DEF Send, IsMember
  <2>3. QED BY <1>3, <2>2, HandlerMoves DEF Send
<1>4. ASSUME NEW u \in Users, NEW c \in ChatIds, MarkRead(r, u, c) PROVE IInv'
  <2>1. {} \in SUBSET Users /\ FALSE \in BOOLEAN
    OBVIOUS
  <2>2. PICK h : RecordOK(h) /\ h.pc # "commit" /\ handler' = [handler EXCEPT ![r] = h]
    BY <1>4, <2>1, BeginRecord DEF MarkRead
  <2>3. QED BY <1>4, <2>2, HandlerMoves DEF MarkRead
<1>5. CASE CheckBlocks(r) \/ FindDirect(r)
  <2>1. CASE Done(r)
    BY <1>5, <2>1, IdleOK, HandlerMoves DEF Done, CheckBlocks, FindDirect
  <2>2. CASE Goto(r, "upsert") \/ Goto(r, "createDirect")
    <3>1. PICK h : RecordOK(h) /\ h.pc # "commit" /\ handler' = [handler EXCEPT ![r] = h]
      BY <1>5, <2>2, GotoRecord DEF CheckBlocks, FindDirect
    <3>2. QED BY <1>5, <3>1, HandlerMoves DEF CheckBlocks, FindDirect
  <2>3. QED BY <1>5, <2>1, <2>2 DEF CheckBlocks, FindDirect
<1>6. CASE Push(r) \/ Fail(r)
  BY <1>6, IdleOK, HandlerMoves DEF Push, Fail, Done
<1>7. CASE SetRead(r)
  BY <1>7, IdleOK, HandlerMoves DEF SetRead, Done
<1>8. QED BY <1>1, <1>2, <1>3, <1>4, <1>5, <1>6, <1>7

-----------------------------------------------------------------------------
(* The creation of a chat: nothing is said of a chat that was not there.   *)
LEMMA NewChatStep ==
    ASSUME IInv, NEW r \in Requests, NEW key \in SUBSET Users, NEW us \in SUBSET Users,
           NewChat(key, us), Done(r),
           key # {} => \A c \in ChatIds : direct[c] # key,
           UNCHANGED <<accounts, messages, gateway>>
    PROVE  IInv'
<1>1. CASE UNCHANGED chats
  BY <1>1, IdleOK, HandlerMoves DEF Done, Rows, messages
<1>2. CASE \E c \in ChatIds :
            /\ members[c] = {}
            /\ members' = [members EXCEPT ![c] = us]
            /\ direct' = [direct EXCEPT ![c] = key]
  <2>1. PICK c \in ChatIds :
            /\ members[c] = {}
            /\ members' = [members EXCEPT ![c] = us]
            /\ direct' = [direct EXCEPT ![c] = key]
    BY <1>2
  <2>2. /\ members' \in [ChatIds -> SUBSET Users] /\ direct' \in [ChatIds -> SUBSET Users]
        /\ \A d \in ChatIds : members[d] # {} => members'[d] = members[d]
        /\ direct'[c] = key /\ \A d \in ChatIds : d # c => direct'[d] = direct[d]
    BY <2>1 DEF IInv, TypeOK
  <2>3. handler' \in [Requests -> Handler] /\ \A s \in Requests : handler'[s] \in {handler[s], Idle}
        /\ handler'[r] = Idle
    BY IdleOK DEF IInv, TypeOK, Done, RecordOK
  <2>4. TypeOK'
    BY <2>2, <2>3 DEF IInv, TypeOK, messages, accounts, gateway
  <2>5. OneDirectChat'
    BY <2>2 DEF IInv, OneDirectChat
  <2>6. \A m \in Numbers : sent[m].chat \in ChatIds /\ members[sent[m].chat] # {}
    <3>1. sent \in Seq(Message)
      BY DEF IInv, TypeOK, Message
    <3>2. \A m \in Numbers : sent[m] \in Message
      BY <3>1 DEF Numbers
    <3>3. QED BY <3>2 DEF IInv, MembersOK, Message
  <2>7. MembersOK' /\ Told'
    BY <2>2, <2>6 DEF IInv, MembersOK, Told, Numbers, TypeOK, messages, gateway
  <2>8. InOrderUnlessOverlapped'
    BY DEF IInv, InOrderUnlessOverlapped, Messages, messages
  <2>9. Apart'
    BY <2>3, IdleOK DEF IInv, Apart, messages
  <2>10. \A h : RecordOK(h) => RecordOK(h)'
    BY <2>2 DEF RecordOK, Numbers, Messages, messages
  <2>11. \A s \in Requests : RecordOK(handler[s])'
    BY <2>3, <2>10, IdleOK DEF IInv
  <2>12. QED BY <2>4, <2>5, <2>7, <2>8, <2>9, <2>11 DEF IInv
<1>3. QED BY <1>1, <1>2 DEF NewChat

LEMMA CreateSteps ==
    ASSUME IInv, NEW r \in Requests, CreateDirect(r) \/ InsertGroup(r)
    PROVE  IInv'
<1>1. Key(r) \in SUBSET Users
  BY DEF IInv, TypeOK, RecordOK, Handler, Key, CreateDirect, InsertGroup
<1>2. CASE CreateDirect(r) /\ \E c \in ChatIds : direct[c] = Key(r)
  BY <1>2, IdleOK, HandlerMoves DEF CreateDirect, Done, Rows, messages
<1>3. CASE CreateDirect(r) /\ ~\E c \in ChatIds : direct[c] = Key(r)
  BY <1>1, <1>3, NewChatStep DEF CreateDirect
<1>4. CASE InsertGroup(r)
  BY <1>1, <1>4, NewChatStep DEF InsertGroup
<1>5. QED BY <1>2, <1>3, <1>4

-----------------------------------------------------------------------------
(* A message that is inserted is the newest of all.                        *)
LEMMA InsertMessageStep ==
    ASSUME IInv, NEW r \in Requests, InsertMessage(r)
    PROVE  IInv'
<1> DEFINE n == Len(sent) + 1
           h == handler[r]
           row == [chat |-> h.chat, by |-> h.by]
<1>1. h \in Handler /\ h.pc = "insert" /\ h.chat \in ChatIds /\ h.by \in members[h.chat]
      /\ h.with = members[h.chat] \ {h.by} /\ h.by \in Users
  BY DEF IInv, TypeOK, RecordOK, InsertMessage
<1>2. Len(sent) \in Nat /\ n \in Nat /\ sent \in Seq(Message) /\ row \in Message
  BY <1>1 DEF IInv, TypeOK, Message
<1>3. /\ sent' \in Seq(Message) /\ Len(sent') = n /\ sent'[n] = row
      /\ \A m \in 1..Len(sent) : sent'[m] = sent[m] /\ sent[m] \in Message
  BY <1>2 DEF InsertMessage
<1>4. row.chat = h.chat /\ row.by = h.by
  OBVIOUS
<1>5. PICK nh : /\ nh \in Handler /\ nh.pc = "commit" /\ nh.by = h.by /\ nh.with = h.with
                /\ nh.chat = h.chat /\ nh.msg = n /\ handler' = [handler EXCEPT ![r] = nh]
  <2> DEFINE new == [h EXCEPT !.pc = "commit", !.msg = Len(sent')]
  <2>1. handler' = [handler EXCEPT ![r] = new]
    BY DEF InsertMessage, IInv, TypeOK
  <2>2. new \in Handler /\ new.pc = "commit" /\ new.by = h.by /\ new.with = h.with
        /\ new.chat = h.chat /\ new.msg = n
    BY <1>1, <1>2, <1>3 DEF Handler
  <2> HIDE DEF new
  <2>3. QED BY <2>1, <2>2
<1> HIDE DEF row
<1>7. /\ handler' \in [Requests -> Handler] /\ handler'[r] = nh
      /\ \A s \in Requests : s # r => handler'[s] = handler[s]
  BY <1>5 DEF IInv, TypeOK
<1> HIDE DEF h
<1>8. /\ members' = members /\ direct' = direct /\ rooms' = rooms /\ sockets' = sockets
      /\ UNCHANGED accounts /\ lastMessageAt' = lastMessageAt
      /\ history' = history /\ receipts' = receipts /\ unread' = unread
  BY DEF InsertMessage, chats, gateway
<1>9. /\ overlapped \subseteq overlapped' /\ overlapped' \subseteq ChatIds
      /\ (\E s \in Requests : handler[s].pc = "commit" /\ handler[s].chat = h.chat) => h.chat \in overlapped'
  BY <1>1 DEF InsertMessage, IInv, TypeOK, h
<1>10. \A m \in Range(history) : m \in 1..Len(sent) /\ m < n
  BY <1>2 DEF IInv, TypeOK
<1>11. TypeOK'
  <2>1. 1..Len(sent) \subseteq 1..Len(sent')
    BY <1>2, <1>3
  <2>2. QED BY <1>3, <1>7, <1>8, <1>9, <2>1 DEF IInv, TypeOK, accounts, Message
<1>12. \A c : Messages(c)' = Messages(c)
  BY <1>3, <1>8, <1>10 DEF Messages
<1>13. OneDirectChat' /\ InOrderUnlessOverlapped'
  BY <1>8, <1>9, <1>12 DEF IInv, OneDirectChat, InOrderUnlessOverlapped
<1>14. \A m \in 1..Len(sent') : m = n \/ m \in 1..Len(sent)
  BY <1>2, <1>3
<1>15. MembersOK'
  BY <1>1, <1>3, <1>4, <1>8, <1>14 DEF IInv, MembersOK, Numbers
<1>16. Told'
  BY <1>3, <1>8, <1>10 DEF IInv, Told
<1>17. \A s \in Requests : s # r => RecordOK(handler[s])'
  <2>1. \A k : RecordOK(k) => RecordOK(k)'
    BY <1>2, <1>3, <1>8, <1>9, <1>12 DEF RecordOK, Numbers
  <2>2. QED BY <1>7, <2>1 DEF IInv
<1>18. RecordOK(nh)'
  BY <1>1, <1>2, <1>3, <1>4, <1>5, <1>8, <1>10, <1>12 DEF RecordOK, Numbers, Messages
<1>19. Apart'
  <2>1. \A s \in Requests : handler[s].pc = "commit" => handler[s].msg < n
    BY <1>2 DEF IInv, RecordOK, Numbers
  <2>2. QED BY <1>2, <1>5, <1>7, <1>9, <2>1 DEF IInv, Apart
<1>20. QED BY <1>7, <1>11, <1>13, <1>15, <1>16, <1>17, <1>18, <1>19 DEF IInv

LEMMA CommitStep ==
    ASSUME IInv, NEW r \in Requests, Commit(r)
    PROVE  IInv'
<1> DEFINE h == handler[r]
           m == handler[r].msg
<1>1. /\ h \in Handler /\ h.pc = "commit" /\ h.chat \in ChatIds /\ h.with = members[h.chat] \ {h.by}
      /\ m \in Numbers /\ sent[m].chat = h.chat /\ sent[m].by = h.by /\ m \notin Range(history)
      /\ h.chat \notin overlapped => \A o \in Messages(h.chat) : o < m
      /\ h.with \subseteq Users /\ m \in Nat /\ h.by \in Users
  BY DEF IInv, TypeOK, RecordOK, Commit, CommitWith, Handler
<1>2. history \in Seq(Nat) /\ history' = Append(history, m)
  BY DEF IInv, TypeOK, Commit, CommitWith
<1>3. history' \in Seq(Nat) /\ Range(history') = Range(history) \cup {m}
  BY <1>1, <1>2, RangeAppend
<1>4. /\ lastMessageAt' = [lastMessageAt EXCEPT ![h.chat] = m]
      /\ receipts' = receipts \cup ({m} \X h.with) /\ unread' = unread \cup ({m} \X h.with)
      /\ members' = members /\ direct' = direct /\ rooms' = rooms /\ sockets' = sockets
      /\ UNCHANGED accounts /\ sent' = sent /\ overlapped' = overlapped
  BY DEF Commit, CommitWith, Receipts, chats, gateway
<1>5. PICK nh : /\ nh \in Handler /\ nh.pc \in {"idle", "push"}
                /\ nh.pc = "push" => nh.chat = h.chat /\ nh.msg = m /\ nh.by \in Users
                /\ handler' = [handler EXCEPT ![r] = nh]
  <2> DEFINE pushed == [h EXCEPT !.pc = "push"]
  <2>1. pushed \in Handler /\ pushed.pc = "push" /\ pushed.chat = h.chat /\ pushed.msg = m
        /\ pushed.by \in Users
    BY <1>1 DEF Handler
  <2>2. handler' \in {[handler EXCEPT ![r] = pushed], [handler EXCEPT ![r] = Idle]}
    BY <1>1 DEF Commit, CommitWith, Goto, Done, IInv, TypeOK
  <2> HIDE DEF pushed
  <2>3. Idle \in Handler /\ Idle.pc = "idle"
    BY IdleOK DEF RecordOK
  <2>4. QED BY <2>1, <2>2, <2>3
<1>7. /\ handler' \in [Requests -> Handler] /\ handler'[r] = nh
      /\ \A s \in Requests : s # r => handler'[s] = handler[s]
  BY <1>5 DEF IInv, TypeOK
<1>8. \A s \in Requests : s # r /\ handler[s].pc = "commit" =>
         handler[s].msg # m /\ (handler[s].chat = h.chat => h.chat \in overlapped)
  BY <1>1 DEF IInv, Apart
<1> HIDE DEF h, m
<1>9. \A c : Messages(c)' = Messages(c) \cup (IF c = h.chat THEN {m} ELSE {})
  BY <1>1, <1>3, <1>4 DEF Messages
<1>10. TypeOK'
  <2>1. lastMessageAt' \in [ChatIds -> Nat]
    BY <1>1, <1>4 DEF IInv, TypeOK
  <2>2. receipts' \subseteq Range(history') \X Users /\ unread' \subseteq receipts'
    BY <1>1, <1>3, <1>4 DEF IInv, TypeOK
  <2>3. Range(history') \subseteq 1..Len(sent')
    BY <1>1, <1>3, <1>4 DEF IInv, TypeOK, Numbers
  <2>4. QED BY <1>3, <1>4, <1>7, <2>1, <2>2, <2>3 DEF IInv, TypeOK, accounts
<1>11. OneDirectChat' /\ MembersOK'
  BY <1>4 DEF IInv, OneDirectChat, MembersOK, Numbers
<1>12. Told'
  <2>1. \A u \in Users : <<m, u>> \notin receipts
    BY <1>1 DEF IInv, TypeOK
  <2>2. \A u \in Users : <<m, u>> \in receipts' <=> u \in h.with
    BY <1>1, <1>4, <2>1
  <2>3. \A o \in Range(history), u \in Users : <<o, u>> \in receipts' <=> <<o, u>> \in receipts
    BY <1>1, <1>4
  <2>4. {u \in Users : <<m, u>> \in receipts'} = h.with
    BY <1>1, <2>2
  <2>5. \A o \in Range(history) :
           {u \in Users : <<o, u>> \in receipts'} = {u \in Users : <<o, u>> \in receipts}
    BY <2>3
  <2>6. QED BY <1>1, <1>3, <1>4, <2>4, <2>5 DEF IInv, Told
<1>13. InOrderUnlessOverlapped'
  <2>1. ASSUME NEW c \in ChatIds \ overlapped', NEW o \in Messages(c)' PROVE lastMessageAt'[c] >= o
    <3>1. CASE c = h.chat
      <4>1. o = m \/ o < m
        BY <1>1, <1>4, <1>9, <2>1, <3>1
      <4>2. o \in Nat /\ lastMessageAt'[c] = m
        BY <1>1, <1>3, <1>4, <2>1, <3>1 DEF IInv, TypeOK, Messages
      <4>3. QED BY <1>1, <4>1, <4>2
    <3>2. CASE c # h.chat
      BY <1>4, <1>9, <2>1, <3>2 DEF IInv, TypeOK, InOrderUnlessOverlapped
    <3>3. QED BY <3>1, <3>2
  <2>2. QED BY <2>1 DEF InOrderUnlessOverlapped
<1>14. Apart'
  BY <1>4, <1>5, <1>7 DEF IInv, Apart
<1>15. RecordOK(nh)'
  BY <1>1, <1>5, <1>9 DEF RecordOK, h
<1>16. ASSUME NEW s \in Requests, s # r PROVE RecordOK(handler[s])'
  <2>1. RecordOK(handler[s]) /\ handler'[s] = handler[s]
    BY <1>7, <1>16 DEF IInv
  <2>2. CASE handler[s].pc = "commit"
    <3>1. handler[s].chat # h.chat \/ handler[s].chat \in overlapped
      BY <1>8, <1>16, <2>2
    <3>2. handler[s].msg # m
      BY <1>8, <1>16, <2>2
    <3>3. QED BY <1>3, <1>4, <1>9, <2>1, <2>2, <3>1, <3>2 DEF RecordOK, Numbers
  <2>3. CASE handler[s].pc # "commit"
    BY <1>4, <1>9, <2>1, <2>3 DEF RecordOK
  <2>4. QED BY <2>2, <2>3
<1>17. QED BY <1>7, <1>10, <1>11, <1>12, <1>13, <1>14, <1>15, <1>16 DEF IInv

-----------------------------------------------------------------------------
(* Sockets, rooms and accounts leave handlers and rows as they are.        *)
LEMMA GatewaySteps ==
    ASSUME IInv,
           \/ \E u \in Users : Connect(u) \/ Disconnect(u)
           \/ \E u \in Users, c \in ChatIds : Join(u, c) \/ Leave(u, c)
           \/ Account
    PROVE  IInv'
<1>1. UNCHANGED <<chats, messages, handler>>
  BY DEF Connect, Disconnect, Join, Leave, Account
<1>2. active' \subseteq Users /\ tokens' \subseteq Users /\ blocks' \subseteq Users \X Users
  <2>1. CASE Account
    BY <2>1 DEF IInv, TypeOK, Account
  <2>2. CASE UNCHANGED accounts
    BY <2>2 DEF IInv, TypeOK, accounts
  <2>3. QED BY <2>1, <2>2 DEF Connect, Disconnect, Join, Leave
<1>3. sockets' \subseteq Users /\ rooms' \subseteq sockets' \X ChatIds
  BY DEF IInv, TypeOK, Connect, Disconnect, Join, Leave, Account, gateway
<1>4. \A u \in Users, c \in ChatIds : <<u, c>> \in rooms' => <<u, c>> \in rooms \/ u \in members[c]
  BY DEF Connect, Disconnect, Join, Leave, Account, gateway, IsMember
<1>5. TypeOK'
  BY <1>1, <1>2, <1>3 DEF IInv, TypeOK, chats, messages
<1>6. (OneDirectChat /\ MembersOK /\ Told /\ InOrderUnlessOverlapped /\ Apart)'
  BY <1>1, <1>4 DEF IInv, OneDirectChat, MembersOK, Told, InOrderUnlessOverlapped, Apart,
         Numbers, Messages, chats, messages
<1>7. \A r \in Requests : RecordOK(handler[r])'
  BY <1>1, RowsKept DEF IInv, Rows, messages
<1>8. QED BY <1>5, <1>6, <1>7 DEF IInv

LEMMA NextIInv == IInv /\ [Next]_vars => IInv'
<1> SUFFICES ASSUME IInv, [Next]_vars PROVE IInv'
  OBVIOUS
<1>1. ASSUME NEW r \in Requests, Call(r) PROVE IInv'
  BY <1>1, QuietSteps DEF Call
<1>2. ASSUME NEW r \in Requests, Continue(r) \/ Fail(r) PROVE IInv'
  BY <1>2, QuietSteps, CreateSteps, InsertMessageStep, CommitStep DEF Continue
<1>3. CASE UNCHANGED vars
  <2>1. UNCHANGED <<accounts, chats, messages, gateway, handler>>
    BY <1>3 DEF vars
  <2>2. TypeOK'
    BY <2>1 DEF IInv, TypeOK, accounts, chats, messages, gateway
  <2>3. (OneDirectChat /\ MembersOK /\ Told /\ InOrderUnlessOverlapped /\ Apart)'
    BY <2>1 DEF IInv, OneDirectChat, MembersOK, Told, InOrderUnlessOverlapped, Apart,
           Numbers, Messages, chats, messages, gateway
  <2>4. \A r \in Requests : RecordOK(handler[r])'
    BY <2>1, RowsKept DEF IInv, Rows, messages
  <2>5. QED BY <2>2, <2>3, <2>4 DEF IInv
<1>4. QED BY <1>1, <1>2, <1>3, GatewaySteps DEF Next

LEMMA AlwaysIInv == Spec => []IInv
BY InitIInv, NextIInv, PTL DEF Spec

-----------------------------------------------------------------------------
(* A badge counts receipts of distinct messages of the chat's history.     *)
LEMMA BadgeBound ==
    ASSUME IInv, NEW u \in Users, NEW c \in ChatIds
    PROVE  UnreadCount(u, c) <= Cardinality({m \in Messages(c) : sent[m].by # u})
<1> DEFINE S == {m \in Messages(c) : sent[m].by # u}
           T == {<<m, u>> : m \in S}
           f == [m \in S |-> <<m, u>>]
           P == {p \in unread : p[2] = u /\ sent[p[1]].chat = c}
<1>1. IsFiniteSet(S) /\ Cardinality(S) \in Nat
  <2>1. Len(sent) \in Nat
    BY DEF IInv, TypeOK
  <2>2. IsFiniteSet(1..Len(sent))
    BY <2>1, FS_Interval
  <2>3. S \in SUBSET (1..Len(sent))
    BY DEF IInv, TypeOK, Messages
  <2>4. QED BY <2>2, <2>3, FS_Subset, FS_CardinalityType
<1>2. f \in Surjection(S, T)
  BY DEF Surjection
<1>3. IsFiniteSet(T) /\ Cardinality(T) <= Cardinality(S)
  BY <1>1, <1>2, FS_Surjection
<1>4. P \in SUBSET T
  <2>1. ASSUME NEW p \in P PROVE p \in T
    <3>1. PICK m \in Range(history), v \in Users : p = <<m, v>> /\ <<m, v>> \in receipts
      <4>1. p \in receipts /\ receipts \subseteq Range(history) \X Users
        BY DEF IInv, TypeOK
      <4>2. QED BY <4>1
    <3>2. v = u /\ sent[m].chat = c
      BY <3>1
    <3>3. sent[m].by # u
      BY <3>1, <3>2 DEF IInv, Told
    <3>4. QED BY <3>1, <3>2, <3>3 DEF Messages
  <2>2. QED BY <2>1
<1>5. Cardinality(P) <= Cardinality(T) /\ Cardinality(P) \in Nat /\ Cardinality(T) \in Nat
  BY <1>3, <1>4, FS_Subset, FS_CardinalityType
<1>6. Cardinality(P) <= Cardinality(S)
  BY <1>1, <1>3, <1>5
<1>7. QED BY <1>6 DEF UnreadCount

\* Rows, receipts, badges and rooms agree: one direct chat per pair, a receipt for
\* every other member, nothing heard that is not in the history.
THEOREM ChatsConsistentCorrect == Spec => []ChatsConsistent
<1>1. IInv => EveryOtherMemberIsTold
  <2> SUFFICES ASSUME IInv PROVE EveryOtherMemberIsTold
    OBVIOUS
  <2>1. ASSUME NEW u \in Users, NEW c \in DOMAIN Badges(u)
        PROVE  Badges(u)[c] <= Cardinality({m \in Messages(c) : sent[m].by # u})
    <3>1. c \in ChatIds /\ Badges(u)[c] = UnreadCount(u, c)
      BY DEF Badges
    <3>2. QED BY <3>1, BadgeBound
  <2>2. QED BY <2>1 DEF EveryOtherMemberIsTold, IInv, Told
<1>2. IInv => RoomsHearHistory
  BY DEF IInv, RoomsHearHistory, RecordOK, MembersOK, Audience
<1>3. IInv => ChatsConsistent
  BY <1>1, <1>2 DEF IInv, ChatsConsistent
<1>4. QED BY <1>3, AlwaysIInv, PTL

\* A chat whose sends never overlapped stands in the list where its newest message
\* puts it (ChatsService.sendMessage: lastMessageAt).
THEOREM InOrderUnlessOverlappedCorrect == Spec => []InOrderUnlessOverlapped
<1>1. IInv => InOrderUnlessOverlapped
  BY DEF IInv
<1>2. QED BY <1>1, AlwaysIInv, PTL

-----------------------------------------------------------------------------
(* A handler acts for one user all along, who was let in when it began.    *)
LEMMA ActsForOne ==
    ASSUME IInv, [Next]_vars, NEW s \in Requests
    PROVE  \/ handler'[s].by \in {handler[s].by, NoUser}
           \/ \E u \in Users : (u \in sockets \/ u \in tokens) /\ handler'[s].by = u
<1>1. handler \in [Requests -> Handler] /\ Idle.by = NoUser
  BY DEF IInv, TypeOK, Idle
<1>2. ASSUME NEW r \in Requests, Call(r)
      PROVE  \E u \in Users : (u \in sockets \/ u \in tokens)
                /\ handler'[s].by \in {handler[s].by, u}
  <2>1. PICK u \in Users :
           \/ \E b \in Users : OpenDirect(r, u, b)
           \/ \E named \in SUBSET Users : CreateGroup(r, u, named)
           \/ \E c \in ChatIds, ws \in BOOLEAN : Send(r, u, c, ws)
           \/ \E c \in ChatIds : MarkRead(r, u, c)
    BY <1>2 DEF Call
  <2>2. u \in sockets \/ u \in tokens
    BY <2>1 DEF OpenDirect, CreateGroup, Send, MarkRead, MayCall
  <2>3. \E pc, others, c, ws : Begin(r, pc, u, others, c, ws)
    BY <2>1 DEF OpenDirect, CreateGroup, Send, MarkRead
  <2>4. handler'[s].by \in {handler[s].by, u}
    BY <1>1, <2>3 DEF Begin
  <2>5. QED BY <2>2, <2>4
<1>3. ASSUME NEW r \in Requests, Continue(r) \/ Fail(r)
      PROVE  handler'[s].by \in {handler[s].by, NoUser}
  <2>1. CASE InsertMessage(r)
    BY <1>1, <2>1 DEF InsertMessage, Handler
  <2>2. CASE \E pc : Goto(r, pc)
    BY <1>1, <2>2 DEF Goto, Handler
  <2>3. CASE Done(r)
    BY <1>1, <2>3 DEF Done
  <2>4. QED BY <1>3, <2>1, <2>2, <2>3
        DEF Continue, Fail, CheckBlocks, FindDirect, CreateDirect, InsertGroup, Commit, CommitWith,
            Push, SetRead
<1>4. CASE UNCHANGED handler
  BY <1>4
<1>5. QED BY <1>2, <1>3, <1>4 DEF Next, Connect, Disconnect, Join, Leave, Account, vars

\* Once the account is deleted, its token expired and its socket closed, nothing is
\* done in its name again (the JWT guard and ChatGateway.handleConnection).
THEOREM DeletedAccountFallsSilentCorrect == Spec => DeletedAccountFallsSilent
<1>1. ASSUME IInv, [Next]_vars, NEW u \in Users, Silenced(u) PROVE Silenced(u)'
  <2>1. u \notin active /\ u \notin tokens /\ u \notin sockets
    BY <1>1 DEF Silenced
  <2>2. u \notin active' /\ u \notin tokens'
    <3>1. CASE Account
      BY <2>1, <3>1 DEF Account
    <3>2. CASE UNCHANGED accounts
      BY <2>1, <3>2 DEF accounts
    <3>3. QED BY <1>1, <3>1, <3>2
          DEF Next, Call, Continue, Fail, OpenDirect, CreateGroup, Send, MarkRead, CheckBlocks,
              FindDirect, CreateDirect, InsertGroup, InsertMessage, Commit, CommitWith, Push, SetRead,
              Connect, Disconnect, Join, Leave, vars
  <2>3. u \notin sockets'
    <3>1. CASE \E v \in Users : Connect(v) \/ Disconnect(v)
      BY <2>1, <3>1 DEF Connect, Disconnect
    <3>2. CASE UNCHANGED sockets
      BY <2>1, <3>2
    <3>3. QED BY <1>1, <3>1, <3>2
          DEF Next, Call, Continue, Fail, OpenDirect, CreateGroup, Send, MarkRead, CheckBlocks,
              FindDirect, CreateDirect, InsertGroup, InsertMessage, Commit, CommitWith, Push, SetRead,
              Account, Join, Leave, vars, gateway
  <2>4. \A r \in Requests : handler'[r].by # u
    BY <1>1, <2>1, ActsForOne DEF Silenced
  <2>5. QED BY <2>2, <2>3, <2>4 DEF Silenced
<1>2. IInv /\ [Next]_vars => (\A u \in Users : Silenced(u) => Silenced(u)')
  BY <1>1
<1>3. QED BY <1>2, AlwaysIInv, PTL DEF Spec, DeletedAccountFallsSilent

-----------------------------------------------------------------------------
(* A handler that is past its check was so before, for the same pair, or   *)
(* has just found no block; only such a handler gives a chat a key.        *)
LEMMA PassesCheck ==
    ASSUME IInv, [Next]_vars, NEW s \in Requests,
           handler'[s].pc \in {"upsert", "createDirect"}
    PROVE  /\ Key(s)' = Key(s)
           /\ \/ handler[s].pc \in {"upsert", "createDirect"}
              \/ handler[s].pc = "checkBlocks" /\ ~\E b \in handler[s].with : Blocked(handler[s].by, b)
<1>1. handler \in [Requests -> Handler] /\ Idle.pc = "idle"
  BY DEF IInv, TypeOK, Idle
<1>2. CASE handler'[s] = handler[s]
  BY <1>2 DEF Key
<1>3. CASE handler'[s] # handler[s]
  <2>1. CASE \E r \in Requests : Call(r)
    <3>1. PICK r \in Requests : Call(r)
      BY <2>1
    <3>2. \E pc \in {"checkBlocks", "createGroup", "insert", "markRead"} :
             \E u, others, c, ws : Begin(r, pc, u, others, c, ws)
      BY <3>1 DEF Call, OpenDirect, CreateGroup, Send, MarkRead
    <3>3. handler'[s].pc \in {handler[s].pc, "checkBlocks", "createGroup", "insert", "markRead"}
      BY <1>1, <3>2 DEF Begin
    <3>4. s # r => handler'[s] = handler[s]
      BY <1>1, <3>2 DEF Begin
    <3>5. handler'[r].pc \in {"checkBlocks", "createGroup", "insert", "markRead"}
      BY <1>1, <3>2 DEF Begin
    <3>6. QED BY <1>3, <3>4, <3>5
  <2>2. CASE \E r \in Requests : Done(r)
    BY <1>1, <1>3, <2>2 DEF Done
  <2>3. CASE \E r \in Requests : InsertMessage(r)
    <3>1. PICK r \in Requests : InsertMessage(r)
      BY <2>3
    <3>2. (s # r => handler'[s] = handler[s]) /\ handler'[r].pc = "commit"
      BY <1>1, <3>1 DEF InsertMessage, Handler
    <3>3. QED BY <1>3, <3>2
  <2>4. CASE \E r \in Requests : Goto(r, "push")
    <3>1. PICK r \in Requests : Goto(r, "push")
      BY <2>4
    <3>2. (s # r => handler'[s] = handler[s]) /\ handler'[r].pc = "push"
      BY <1>1, <3>1 DEF Goto, Handler
    <3>3. QED BY <1>3, <3>2
  <2>5. CASE \E r \in Requests : (CheckBlocks(r) \/ FindDirect(r)) /\ ~Done(r)
    <3>1. PICK r \in Requests : (CheckBlocks(r) \/ FindDirect(r)) /\ ~Done(r)
      BY <2>5
    <3>2. \E pc : Goto(r, pc)
      BY <3>1 DEF CheckBlocks, FindDirect
    <3>3. /\ s # r => handler'[s] = handler[s]
          /\ handler'[r].by = handler[r].by /\ handler'[r].with = handler[r].with
      BY <1>1, <3>2 DEF Goto, Handler
    <3>4. s = r
      BY <1>3, <3>3
    <3>5. Key(s)' = Key(s)
      BY <3>3, <3>4 DEF Key
    <3>6. QED BY <3>1, <3>4, <3>5 DEF CheckBlocks, FindDirect
  <2>6. CASE UNCHANGED handler
    BY <1>3, <2>6
  <2>7. QED BY <2>1, <2>2, <2>3, <2>4, <2>5, <2>6
        DEF Next, Continue, Fail, CheckBlocks, FindDirect, CreateDirect, InsertGroup, Commit, CommitWith,
            Push, SetRead, Connect, Disconnect, Join, Leave, Account, vars
<1>4. QED BY <1>2, <1>3

LEMMA GivesKey ==
    ASSUME IInv, [Next]_vars, NEW c \in ChatIds
    PROVE  \/ direct'[c] \in {direct[c], {}}
           \/ \E r \in Requests : handler[r].pc = "createDirect" /\ direct'[c] = Key(r)
<1>1. direct \in [ChatIds -> SUBSET Users]
  BY DEF IInv, TypeOK
<1>2. \A key, us : NewChat(key, us) => direct'[c] \in {direct[c], key}
  BY <1>1 DEF NewChat, chats
<1>3. CASE \E r \in Requests : CreateDirect(r) \/ InsertGroup(r)
  BY <1>2, <1>3 DEF CreateDirect, InsertGroup, chats
<1>4. CASE UNCHANGED direct
  BY <1>4
<1>5. QED BY <1>3, <1>4
      DEF Next, Call, Continue, Fail, OpenDirect, CreateGroup, Send, MarkRead, CheckBlocks, FindDirect,
          InsertMessage, Commit, CommitWith, Push, SetRead, Connect, Disconnect, Join, Leave, Account,
          vars, chats

\* No direct chat begins between two users while one of them blocks the other, but
\* for an opener whose check was before the block (getOrCreateDirect()).
THEOREM NoChatAcrossBlockCorrect == Spec => NoChatAcrossBlock
<1> DEFINE Parted(a, b) == /\ Blocked(a, b) /\ ~PastCheck({a, b})
                           /\ \A c \in ChatIds : direct[c] # {a, b}
<1>1. ASSUME IInv, [Next]_vars, NEW a \in Users, NEW b \in Users, Parted(a, b)
      PROVE  ~PastCheck({a, b})' /\ (\A c \in ChatIds : direct'[c] # {a, b})
  <2>1. ASSUME NEW s \in Requests, handler'[s].pc \in {"upsert", "createDirect"}, Key(s)' = {a, b}
        PROVE  FALSE
    <3>1. Key(s) = {a, b}
      BY <1>1, <2>1, PassesCheck
    <3>2. handler[s].pc = "checkBlocks" /\ ~\E x \in handler[s].with : Blocked(handler[s].by, x)
      BY <1>1, <2>1, <3>1, PassesCheck DEF PastCheck
    <3>3. PICK x \in Users : x # handler[s].by /\ handler[s].with = {x}
      BY <1>1, <3>2 DEF IInv, RecordOK
    <3>4. (handler[s].by = a /\ x = b) \/ (handler[s].by = b /\ x = a)
      BY <3>1, <3>3 DEF Key
    <3>5. Blocked(handler[s].by, x)
      BY <1>1, <3>4 DEF Blocked
    <3>6. QED BY <3>2, <3>3, <3>5
  <2>2. ~PastCheck({a, b})'
    BY <2>1 DEF PastCheck
  <2>3. \A c \in ChatIds : direct'[c] # {a, b}
    BY <1>1, GivesKey DEF PastCheck
  <2>4. QED BY <2>2, <2>3
<1>2. IInv /\ [Next]_vars =>
        \A a, b \in Users :
            Blocked(a, b) /\ ~PastCheck({a, b}) /\ (\A c \in ChatIds : direct[c] # {a, b})
                => ~PastCheck({a, b})' /\ (\A c \in ChatIds : direct'[c] # {a, b})
  BY <1>1
<1>3. QED BY <1>2, AlwaysIInv, PTL DEF Spec, NoChatAcrossBlock
=============================================================================
