------------------------------ MODULE Messages ------------------------------
(***************************************************************************)
(* The messages of one chat room (internal/application/chat: sending,      *)
(* history, read marks, room list; the Postgres repositories of messages,  *)
(* members and participants).                                              *)
(*                                                                         *)
(* A message has three orders that need not agree: created_at is the time  *)
(* its insert began, its id is drawn from the sequence a little later, and *)
(* it becomes visible when the insert commits.  The first page of the      *)
(* history and the unread count go by created_at, the following pages go   *)
(* by id, and a read mark is the time at which a request was served.       *)
(*                                                                         *)
(* Contents, names and avatars are left out, and messages are not deleted: *)
(* no use case does it.  No use case removes a member.  The clock of the   *)
(* server and that of the database are taken to agree.                     *)
(***************************************************************************)
EXTENDS Integers, FiniteSets, FiniteSetsExt

CONSTANTS
    ChatUsers,      \* users who may take part in the room
    Founder,    \* the user who created the room
    Reader,     \* the user whose client reads the history
    Guests,     \* users with the role guest
    Calls,      \* requests that send a message at the same time
    Marks,      \* requests that mark the room as read at the same time
    PageSize,   \* limit
    MaxSends,   \* bound: messages sent
    MaxMarks,   \* bound: read marks
    MaxClock    \* bound: the clock

ASSUME MessagesAssumption ==
    /\ {Founder, Reader} \cup Guests \subseteq ChatUsers
    /\ Founder \notin Guests
    /\ PageSize \in Nat \ {0} /\ MaxSends \in Nat /\ MaxMarks \in Nat /\ MaxClock \in Nat

VARIABLES
    participants, \* users who have a participant
    members,      \* chat_members
    records,      \* chat_records: [id, at, by, raced], the visible ones
    nextId,       \* the identity sequence
    clock,        \* the time
    send,         \* inserts in progress
    mark,         \* last_read_at of the reader, joined_at before the first mark
    marking,      \* requests that mark the room as read
    marks,        \* how many there were
    view,         \* the reader's client
    read          \* history: ids that were visible at the time of the stored mark

messagesVars == <<participants, members, records, nextId, clock, send, mark, marking, marks, view, read>>
room == <<participants, members, records, nextId, clock, send>>
reading == <<mark, marking, marks, read>>

NoSend == [pc |-> "idle", by |-> Founder, at |-> 0, id |-> 0, raced |-> FALSE]
NoMark == [pc |-> "idle", at |-> 0, seen |-> {}]
Closed == [pc |-> "closed", known |-> {}, before |-> 0, shown |-> {}, again |-> FALSE,
           due |-> {}, unnamed |-> {}, joined |-> {}]

Ids(rows) == {m.id : m \in rows}

MessagesInit ==
    /\ participants = {Founder} /\ members = {Founder}
    /\ records = {} /\ nextId = 1 /\ clock = 0
    /\ send = [c \in Calls |-> NoSend]
    /\ mark = 0 /\ read = {} /\ marks = 0
    /\ marking = [k \in Marks |-> NoMark]
    /\ view = Closed

Tick == clock < MaxClock /\ clock' = clock + 1
        /\ UNCHANGED <<participants, members, records, nextId, send, reading, view>>

-----------------------------------------------------------------------------
\* Participants and members

\* ParticipantRepository: the user's participant; an insert, unique per user.
FindByUserID(u) == u \in participants
ParticipantCreate(u) == participants \cup {u}

\* CreateUserParticipantUseCase: one transaction, refused for a second one.
CreateUserParticipant(u) ==
    /\ ~FindByUserID(u)
    /\ participants' = ParticipantCreate(u)
    /\ UNCHANGED <<members, records, nextId, clock, send, reading, view>>

\* The sends in progress, told that a read mark was taken before they committed.
Overlapped == [c \in Calls |-> [send[c] EXCEPT !.raced = @ \/ send[c].pc # "idle"]]

\* ChatMemberRepository.Add for a new member; Rooms models who gets in.
MemberAdd(u) ==
    /\ FindByUserID(u) /\ u \notin members
    /\ members' = members \cup {u}
    /\ view' = [view EXCEPT !.joined = IF view.pc = "load" THEN @ \cup {u} ELSE @]
    /\ IF u = Reader
       THEN mark' = clock /\ read' = Ids(records) /\ send' = Overlapped
       ELSE UNCHANGED <<mark, read, send>>
    /\ UNCHANGED <<participants, records, nextId, clock, marking, marks>>

\* Who is a member of the room, and who may write.
FindByRoomAndParticipant(u) == FindByUserID(u) /\ u \in members
CanSendMessage(u) == u \notin Guests

-----------------------------------------------------------------------------
\* Sending

\* SendMessageUseCase: the checks; the insert begins, which fixes created_at, ...
SendMessage(c, u) ==
    /\ send[c].pc = "idle"
    /\ nextId + Cardinality({d \in Calls : send[d].pc = "insert"}) <= MaxSends
    /\ FindByRoomAndParticipant(u) /\ CanSendMessage(u)
    /\ send' = [send EXCEPT ![c] = [NoSend EXCEPT !.pc = "insert", !.by = u, !.at = clock]]
    /\ UNCHANGED <<participants, members, records, nextId, clock, reading, view>>

\* ... draws the id, ...
InsertNumber(c) ==
    /\ send[c].pc = "insert"
    /\ send' = [send EXCEPT ![c].pc = "commit", ![c].id = nextId]
    /\ nextId' = nextId + 1
    /\ UNCHANGED <<participants, members, records, clock, reading, view>>

\* ... and makes the row visible, or fails.
Create(c) ==
    /\ send[c].pc = "commit"
    /\ records' = records \cup {[id |-> send[c].id, at |-> send[c].at, by |-> send[c].by, raced |-> send[c].raced]}
    /\ send' = [send EXCEPT ![c] = NoSend]
    /\ UNCHANGED <<participants, members, nextId, clock, reading, view>>

CreateFails(c) ==
    /\ send[c].pc = "commit"
    /\ send' = [send EXCEPT ![c] = NoSend]
    /\ UNCHANGED <<participants, members, records, nextId, clock, reading, view>>

-----------------------------------------------------------------------------
\* History

\* ChatMessageRepository.FindByRoom: the latest rows by created_at; rows with
\* the same time come in any order.
FindByRoom(limit) ==
    {page \in kSubset(Min({limit, Cardinality(records)}), records) :
        \A m \in page, k \in records \ page : m.at >= k.at}

\* Mutant: the cursor's own row is returned again.
FindByRoomBefore_Inclusive(before, limit) ==
    LET older == {m \in records : m.id <= before} IN
    {m \in older : Cardinality({k \in older : k.id > m.id}) < limit}

\* FindByRoomBefore: the latest rows by id, below the cursor.
FindByRoomBefore(before, limit) ==
    LET older == {m \in records : m.id < before} IN
    {m \in older : Cardinality({k \in older : k.id > m.id}) < limit}

\* The oldest row of a page comes first: the next cursor is its id.
Oldest(page, byTime) ==
    IF byTime THEN {m \in page : \A k \in page : m.at <= k.at}
              ELSE {m \in page : \A k \in page : m.id <= k.id}

\* GetChatRoomMessagesUseCase and GetChatRoomDetailUseCase read the members, ...
LoadMembers ==
    /\ view.pc \in {"closed", "open"}
    /\ FindByRoomAndParticipant(Reader)
    /\ view' = [view EXCEPT !.pc = "load", !.known = members, !.joined = {}]
    /\ UNCHANGED <<room, reading>>

\* What the client makes of a page: it shows the rows, remembers the cursor, and
\* notes a row that it has already and one whose sender it was not told.
Shown(page, byTime, pc) ==
    /\ view' \in {[view EXCEPT !.pc = pc, !.before = b, !.shown = @ \cup Ids(page),
                               !.again = @ \/ Ids(page) \cap view.shown # {},
                               !.due = IF view.before = 0 THEN Ids(records) ELSE @,
                               !.unnamed = @ \cup ({m.by : m \in page} \ (view.known \cup view.joined))] :
                     b \in IF page = {} THEN {view.before} ELSE Ids(Oldest(page, byTime))}
    /\ UNCHANGED <<room, reading>>

HasMore(page) == Cardinality(page) = PageSize

\* ... and then the first page, ...
GetFirstPage ==
    /\ view.pc = "load" /\ view.before = 0
    /\ \E page \in FindByRoom(PageSize) : Shown(page, TRUE, IF HasMore(page) THEN "open" ELSE "done")

\* ... which the detail of the room holds too, without saying whether there is
\* more, ...
GetChatRoomDetail ==
    /\ view.pc = "load" /\ view.before = 0
    /\ \E page \in FindByRoom(PageSize) : Shown(page, TRUE, IF page = {} THEN "done" ELSE "open")

\* ... or the page before the cursor.
GetEarlierPage ==
    /\ view.pc = "load" /\ view.before # 0
    /\ LET page == FindByRoomBefore(view.before, PageSize) IN
       Shown(page, FALSE, IF HasMore(page) THEN "open" ELSE "done")

-----------------------------------------------------------------------------
\* Read marks

\* UpdateMemberStatusUseCase: take the time ...
MarkFind(k) ==
    /\ marking[k].pc = "idle" /\ marks < MaxMarks
    /\ FindByRoomAndParticipant(Reader)
    /\ marking' = [marking EXCEPT ![k] = [pc |-> "write", at |-> clock, seen |-> Ids(records)]]
    /\ marks' = marks + 1
    /\ send' = Overlapped
    /\ UNCHANGED <<participants, members, records, nextId, clock, mark, read, view>>

\* ChatMemberRepository.Update: the row as read, with the new mark.
MemberUpdate(at) == mark' = at

\* ... and write it.  Of two requests the later one to write wins.
MarkWrite(k) ==
    /\ marking[k].pc = "write"
    /\ MemberUpdate(marking[k].at)
    /\ read' = marking[k].seen
    /\ marking' = [marking EXCEPT ![k] = NoMark]
    /\ UNCHANGED <<room, marks, view>>

\* Mutant: a message of the very time of the mark counts.
CountByRoomAfter_OrAt(since) == {m \in records : m.at >= since}

\* GetUserChatRoomsUseCase: the messages that the room list counts as unread.
CountByRoomAfter(since) == {m \in records : m.at > since}
Unread == CountByRoomAfter(mark)

MessagesNext ==
    \/ Tick
    \/ \E u \in ChatUsers : CreateUserParticipant(u) \/ MemberAdd(u)
    \/ \E c \in Calls :
        \/ \E u \in ChatUsers : SendMessage(c, u)
        \/ InsertNumber(c) \/ Create(c) \/ CreateFails(c)
    \/ LoadMembers \/ GetFirstPage \/ GetChatRoomDetail \/ GetEarlierPage
    \/ \E k \in Marks : MarkFind(k) \/ MarkWrite(k)

MessagesSpec == MessagesInit /\ [][MessagesNext]_messagesVars

-----------------------------------------------------------------------------
\* Properties

\* What the tables, the requests and the client hold (chat_message_record.go, chat_member_record.go,
\* and the answers of get_chat_room_messages.go).
Rows == [id : Nat, at : Nat, by : ChatUsers, raced : BOOLEAN]
Sends == [pc : {"idle", "insert", "commit"}, by : ChatUsers, at : Nat, id : Nat, raced : BOOLEAN]
Views == [pc : {"closed", "load", "open", "done"}, known : SUBSET ChatUsers, before : Nat,
          shown : SUBSET Nat, again : BOOLEAN, due : SUBSET Nat,
          unnamed : SUBSET ChatUsers, joined : SUBSET ChatUsers]
MessagesTypeOK ==
    /\ participants \subseteq ChatUsers /\ members \subseteq participants
    /\ records \subseteq Rows /\ nextId \in Nat \ {0} /\ clock \in Nat
    /\ send \in [Calls -> Sends]
    /\ mark \in Nat /\ marks \in Nat /\ read \subseteq Nat
    /\ marking \in [Marks -> [pc : {"idle", "write"}, at : Nat, seen : SUBSET Nat]]
    /\ view \in Views

\* Two messages whose ids and times do not ascend together: their inserts
\* overlapped, or fell on the same instant.
Disordered == \E m, k \in records : m.id < k.id /\ m.at >= k.at

\* A client that pages back to the end, with the id of the oldest message of a
\* page as the next cursor, has every message that was visible when it began,
\* none of them twice, although others are sent meanwhile; and it is told the
\* sender of each, unless he joined while the page was loaded.  Only two
\* messages sent at the same time may be skipped or repeated, because the first
\* page goes by time and the others by id (get_chat_room_messages.go:83, :90).
HistoryIsComplete ==
    /\ view.unnamed = {}
    /\ Disordered \/ (~view.again /\ (view.pc = "done" => view.due \subseteq view.shown))

\* The room list counts as unread exactly the messages that were not visible at
\* the time of the reader's mark, or of his joining.  A message is counted as
\* read unseen only if its insert had begun when the mark was taken, or began in
\* the same instant (update_member_status.go:61, get_user_chat_rooms.go:103).
UnreadIsExact ==
    /\ \A m \in Unread : m.id \notin read
    /\ \A m \in records \ Unread : m.id \in read \/ m.raced \/ m.at = mark
=============================================================================
