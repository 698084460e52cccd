------------------------------- MODULE Rooms -------------------------------
(***************************************************************************)
(* How users get into chat rooms (internal/application/chat): an owner     *)
(* creates a room and invites, an invitee accepts, rejects or blocks; a    *)
(* user asks to join and the owner approves or rejects.  Every use case is *)
(* a transaction at READ COMMITTED: reads take no lock, an update locks    *)
(* its row until the end, and the trigger on chat_members locks the row of *)
(* the room.  What a transaction has written takes effect when it commits. *)
(*                                                                         *)
(* A call is a request being served.  A read whose checks fail returns an  *)
(* error and changes nothing; a statement that has to wait for a lock is   *)
(* disabled.  Users stand for their participants.  No use case removes a   *)
(* member or changes a role: the owner is the only member that may decide  *)
(* on join requests.                                                       *)
(***************************************************************************)
EXTENDS Naturals, Sequences, FiniteSets

CONSTANTS
    Users,
    Owners,     \* users that create rooms
    Acquainted, \* pairs whose friendship changes
    Rooms,      \* chat_rooms.id
    MaxInv,     \* bound: invitations ever made
    Capacities, \* values of max_members; 0: no limit
    Lists,      \* the member_ids rooms are created with
    Calls,      \* requests served at the same time
    NoUser

ASSUME RoomsAssumption ==
    /\ IsFiniteSet(Users)
    /\ NoUser \notin Users
    /\ Owners \subseteq Users
    /\ Acquainted \subseteq Users \X Users
    /\ MaxInv \in Nat
    /\ Capacities \subseteq Nat
    /\ Lists \subseteq Seq(Users)

Invitations == 1..MaxInv
Pairs == Users \X Users

VARIABLES
    room,     \* chat_rooms: [type, max, owner]; type "none": no such row
    members,  \* chat_members of each room
    inv,      \* chat_invitations: [room, from, to, kind, st]
    nextInv,
    rows,     \* user_friendships: status of the row of each pair
    call,     \* requests in progress: [pc, me, inv, rm, who, max, st, added, row]
    \* history
    answers,  \* how many calls have resolved each invitation
    agreed,   \* <<u, rm>>: u accepted an invitation to rm or asked to join
    admitted, \* <<u, rm>>: the owner of rm invited u or approved u's request
    shut,     \* <<u, v>>: u blocked v through an invitation
    orderly   \* no two requests have overlapped so far

vars == <<room, members, inv, nextInv, rows, call, answers, agreed, admitted, shut, orderly>>
history == <<answers, agreed, admitted, shut>>
tables == <<room, members, inv, nextInv, rows>>

NoRoom == [type |-> "none", max |-> 0, owner |-> NoUser]
NoInv == [room |-> {}, from |-> NoUser, to |-> NoUser, kind |-> "none", st |-> "none"]
NoPair == <<NoUser, NoUser>>
Returned == [pc |-> "idle", me |-> NoUser, inv |-> 0, rm |-> {}, who |-> NoUser, max |-> 0,
             st |-> "none", added |-> FALSE, row |-> NoPair]

Init ==
    /\ room = [rm \in Rooms |-> NoRoom]
    /\ members = [rm \in Rooms |-> {}]
    /\ inv = [i \in Invitations |-> NoInv]
    /\ nextInv = 1
    /\ rows = [p \in Pairs |-> "none"]
    /\ call = [r \in Calls |-> Returned]
    /\ answers = [i \in Invitations |-> 0]
    /\ agreed = {} /\ admitted = {} /\ shut = {} /\ orderly = TRUE

Goto(r, pc) == call' = [call EXCEPT ![r].pc = pc]
Return(r) == call' = [call EXCEPT ![r] = Returned]

-----------------------------------------------------------------------------
\* The repositories

\* FindBetweenUsers: the status of the row it may return, of up to two.
RowsBetween(u, v) == {p \in {<<u, v>>, <<v, u>>} : rows[p] # "none"}
FindBetweenUsers(u, v) ==
    IF RowsBetween(u, v) = {} THEN {"none"} ELSE {rows[p] : p \in RowsBetween(u, v)}

FindDirectByParticipants(u, v) ==
    {rm \in Rooms : room[rm].type = "direct" /\ {u, v} \subseteq members[rm]}

\* FindByRoomAndInvitee: pending invitations and join requests.
FindByRoomAndInvitee(rm, u) ==
    {i \in Invitations : inv[i].room = rm /\ inv[i].to = u /\ inv[i].st = "pending"}

\* The trigger of an insert that has not committed holds the row of the room.
RoomLocked(rm) == \E q \in Calls : call[q].added /\ call[q].rm = rm

\* A status written and not committed.
InvLocked(i) == \E q \in Calls : call[q].pc = "commit" /\ call[q].inv = i
RowLocked(p) == \E q \in Calls : call[q].pc \in {"mark", "commit"} /\ call[q].row = p

\* limit_member_of_room: a limit of 0 is none.
Full(rm) == room[rm].max > 0 /\ Cardinality(members[rm]) >= room[rm].max

-----------------------------------------------------------------------------
\* CreateChatRoom

\* The inserts: room, owner, one invitation for each entry of the list, which
\* may name a user twice, or the owner.
Inserted(rm, u, type, max, list) ==
    /\ room[rm].type = "none" /\ nextInv + Len(list) <= MaxInv + 1
    /\ room' = [room EXCEPT ![rm] = [type |-> type, max |-> max, owner |-> u]]
    /\ members' = [members EXCEPT ![rm] = {u}]
    /\ inv' = [i \in Invitations |->
          IF i \in nextInv .. (nextInv + Len(list) - 1)
          THEN [room |-> rm, from |-> u, to |-> list[i - nextInv + 1],
                kind |-> "invitation", st |-> "pending"]
          ELSE inv[i]]
    /\ nextInv' = nextInv + Len(list)
    /\ admitted' = admitted \cup {<<list[k], rm>> : k \in 1..Len(list)}
    /\ UNCHANGED <<rows, answers, agreed, shut>>

\* A direct room for one other user: neither a block nor a room may exist.
CreateDirectFind(r, u, v, max) ==
    /\ call[r].pc = "idle" /\ <<v>> \in Lists
    /\ \E st \in FindBetweenUsers(u, v) : st # "blocked"
    /\ FindDirectByParticipants(u, v) = {}
    /\ call' = [call EXCEPT ![r] = [Returned EXCEPT !.pc = "create", !.me = u,
                                                    !.who = v, !.max = max]]
    /\ UNCHANGED <<tables, history>>

CreateDirect(r) ==
    /\ call[r].pc = "create"
    /\ \/ \E rm \in Rooms :
             Inserted(rm, call[r].me, "direct", call[r].max, <<call[r].who>>)
       \/ /\ nextInv > MaxInv \/ \A rm \in Rooms : room[rm].type # "none"
          /\ UNCHANGED <<tables, history>>
    /\ Return(r)

\* Any other room.  Nothing is read that another call could change.
CreateRoom(r, u, max, list) ==
    /\ call[r].pc = "idle"
    /\ \E rm \in Rooms, type \in {"direct", "group"} :
          /\ type = "direct" => Len(list) # 1
          /\ Inserted(rm, u, type, max, list)
    /\ UNCHANGED call

-----------------------------------------------------------------------------
\* JoinChatRoom: two reads, then a join request

JoinFind(r, u, rm) ==
    /\ call[r].pc = "idle"
    /\ IF room[rm].type = "none" \/ u \in members[rm] THEN UNCHANGED call
       ELSE call' = [call EXCEPT ![r] = [Returned EXCEPT !.pc = "joinFind", !.me = u, !.rm = rm]]
    /\ UNCHANGED <<tables, history>>

\* Mutant: a second join request is not refused.
JoinFindInvitation_NoCheck(r) ==
    /\ call[r].pc = "joinFind"
    /\ Goto(r, "joinCreate")
    /\ UNCHANGED <<tables, history>>

JoinFindInvitation(r) ==
    /\ call[r].pc = "joinFind"
    /\ IF FindByRoomAndInvitee(call[r].rm, call[r].me) = {} THEN Goto(r, "joinCreate") ELSE Return(r)
    /\ UNCHANGED <<tables, history>>

\* The insert refers to the room: it waits for the trigger's lock.
JoinCreate(r) ==
    LET u == call[r].me
        rm == call[r].rm
    IN /\ call[r].pc = "joinCreate" /\ ~RoomLocked(rm)
       /\ Return(r)
       /\ \/ /\ nextInv <= MaxInv
             /\ inv' = [inv EXCEPT ![nextInv] =
                   [room |-> rm, from |-> u, to |-> u, kind |-> "join_request", st |-> "pending"]]
             /\ nextInv' = nextInv + 1
             /\ agreed' = agreed \cup {<<u, rm>>}
             /\ UNCHANGED <<room, members, rows, answers, admitted, shut>>
          \/ nextInv > MaxInv /\ UNCHANGED <<tables, history>>

-----------------------------------------------------------------------------
\* RespondToInvitation and ApproveJoinRequest

\* Call r will set invitation i to status st, after the step pc.
Decides(r, u, i, pc, st) ==
    call' = [call EXCEPT ![r] = [Returned EXCEPT !.pc = pc, !.me = u, !.inv = i,
                                   !.rm = inv[i].room, !.who = inv[i].to, !.st = st]]

\* Mutant: anyone may answer an invitation.
RespondFind_AnyCaller(r, u, i) ==
    /\ call[r].pc = "idle"
    /\ inv[i].st = "pending" /\ inv[i].kind = "invitation"
    /\ \/ Decides(r, u, i, "guard", "accepted")
       \/ Decides(r, u, i, "mark", "rejected")
       \/ Decides(r, u, i, "block", "blocked")
    /\ UNCHANGED <<tables, history>>

\* The invitee answers a pending invitation: accept, reject or block.
RespondFind(r, u, i) ==
    /\ call[r].pc = "idle"
    /\ inv[i].st = "pending" /\ inv[i].kind = "invitation" /\ inv[i].to = u
    /\ \/ Decides(r, u, i, "guard", "accepted")
       \/ Decides(r, u, i, "mark", "rejected")
       \/ Decides(r, u, i, "block", "blocked")
    /\ UNCHANGED <<tables, history>>

\* Mutant: a request that is resolved already can be decided again.
ApproveFind_Resolved(r, u, i) ==
    /\ call[r].pc = "idle"
    /\ inv[i].kind = "join_request"
    /\ room[inv[i].room].owner = u
    /\ \/ Decides(r, u, i, "guard", "accepted")
       \/ Decides(r, u, i, "mark", "rejected")
    /\ UNCHANGED <<tables, history>>

\* The owner decides on a pending join request.
ApproveFind(r, u, i) ==
    /\ call[r].pc = "idle"
    /\ inv[i].st = "pending" /\ inv[i].kind = "join_request"
    /\ room[inv[i].room].owner = u
    /\ \/ Decides(r, u, i, "guard", "accepted")
       \/ Decides(r, u, i, "mark", "rejected")
    /\ UNCHANGED <<tables, history>>

\* Guard against active membership before upsert.
Guard(r) ==
    /\ call[r].pc = "guard"
    /\ IF call[r].who \in members[call[r].rm] THEN Return(r) ELSE Goto(r, "add")
    /\ UNCHANGED <<tables, history>>

\* Mutant: the trigger counts without locking the room.
Add_NoLock(r) ==
    /\ call[r].pc = "add"
    /\ IF Full(call[r].rm) THEN Return(r)
       ELSE call' = [call EXCEPT ![r].pc = "mark", ![r].added = TRUE]
    /\ UNCHANGED <<tables, history>>

\* Mutant: the trigger waits for a place instead of refusing.
Add_WaitForPlace(r) ==
    /\ call[r].pc = "add" /\ ~RoomLocked(call[r].rm) /\ ~Full(call[r].rm)
    /\ call' = [call EXCEPT ![r].pc = "mark", ![r].added = TRUE]
    /\ UNCHANGED <<tables, history>>

\* Add: the trigger locks the room and refuses a member too many; an insert of
\* a member that exists by now changes nothing (ON CONFLICT).
Add(r) ==
    /\ call[r].pc = "add" /\ ~RoomLocked(call[r].rm)
    /\ IF Full(call[r].rm) THEN Return(r)
       ELSE call' = [call EXCEPT ![r].pc = "mark", ![r].added = TRUE]
    /\ UNCHANGED <<tables, history>>

\* Block: look for a friendship row of the two users, either one ...
Block(r) ==
    LET between == RowsBetween(call[r].me, inv[call[r].inv].from)
    IN /\ call[r].pc = "block"
       /\ \/ \E p \in between :
                call' = [call EXCEPT ![r].pc = "blockUpdate", ![r].row = p]
          \/ /\ between = {}
             /\ call' = [call EXCEPT ![r].pc = "blockCreate",
                                     ![r].row = <<call[r].me, inv[call[r].inv].from>>]
       /\ UNCHANGED <<tables, history>>

\* ... and set it to blocked, or insert one.  Errors are discarded, but a
\* duplicate key has aborted the transaction.
BlockRow(r) ==
    /\ call[r].pc \in {"blockUpdate", "blockCreate"} /\ ~RowLocked(call[r].row)
    /\ IF call[r].pc = "blockCreate" /\ rows[call[r].row] # "none"
       THEN Return(r) ELSE Goto(r, "mark")
    /\ UNCHANGED <<tables, history>>

\* UpdateStatus of the invitation, whatever its status is by now.
Mark(r) ==
    /\ call[r].pc = "mark" /\ ~InvLocked(call[r].inv)
    /\ Goto(r, "commit")
    /\ UNCHANGED <<tables, history>>

\* Mutant: the member is not part of the transaction.
Commit_NoMember(r) ==
    LET i == call[r].inv
    IN /\ call[r].pc = "commit"
       /\ inv' = [inv EXCEPT ![i].st = call[r].st]
       /\ answers' = [answers EXCEPT ![i] = @ + 1]
       /\ Return(r)
       /\ UNCHANGED <<room, members, rows, nextInv, agreed, admitted, shut>>

Commit(r) ==
    LET i == call[r].inv
        entry == <<call[r].who, call[r].rm>>
        yes == call[r].st = "accepted"
    IN /\ call[r].pc = "commit"
       /\ inv' = [inv EXCEPT ![i].st = call[r].st]
       /\ members' = IF call[r].added
                     THEN [members EXCEPT ![call[r].rm] = @ \cup {call[r].who}] ELSE members
       /\ rows' = IF call[r].row # NoPair THEN [rows EXCEPT ![call[r].row] = "blocked"] ELSE rows
       /\ answers' = [answers EXCEPT ![i] = @ + 1]
       /\ agreed' = IF yes /\ call[r].me = inv[i].to THEN agreed \cup {entry} ELSE agreed
       /\ admitted' = IF yes /\ call[r].me = room[call[r].rm].owner
                      THEN admitted \cup {entry} ELSE admitted
       /\ shut' = IF call[r].st = "blocked" THEN shut \cup {<<call[r].me, inv[i].from>>} ELSE shut
       /\ Return(r)
       /\ UNCHANGED <<room, nextInv>>

-----------------------------------------------------------------------------
\* The friendship use cases (module Friendship), reduced to the states they
\* leave a pair in, between the calls of this module that use the rows.
FriendshipChanges(u, v) ==
    /\ u # v
    /\ \A r \in Calls : call[r].pc \notin {"block", "blockUpdate", "blockCreate"} /\ call[r].row = NoPair
    /\ \E st \in {<<"none", "none">>, <<"pending", "none">>, <<"accepted", "accepted">>,
                 <<"blocked", "none">>} :
          rows' = [rows EXCEPT ![<<u, v>>] = st[1], ![<<v, u>>] = st[2]]
    /\ shut' = shut \ {<<u, v>>, <<v, u>>}
    /\ UNCHANGED <<room, members, inv, nextInv, call, answers, agreed, admitted>>

Start(r) ==
    \/ \E u \in Owners, max \in Capacities :
          \/ \E list \in Lists : CreateRoom(r, u, max, list)
          \/ \E v \in Users : CreateDirectFind(r, u, v, max)
    \/ \E u \in Users, rm \in Rooms : JoinFind(r, u, rm)
    \/ \E u \in Users, i \in Invitations : RespondFind(r, u, i) \/ ApproveFind(r, u, i)

Continue(r) ==
    \/ CreateDirect(r) \/ JoinFindInvitation(r) \/ JoinCreate(r)
    \/ Guard(r) \/ Add(r) \/ Block(r) \/ BlockRow(r) \/ Mark(r) \/ Commit(r)

Step ==
    \/ \E r \in Calls : Start(r) \/ Continue(r)
    \/ \E p \in Acquainted : FriendshipChanges(p[1], p[2])

\* The history variable orderly watches the calls.
InProgress == {r \in Calls : call[r].pc # "idle"}
Watch == orderly' = (orderly /\ Cardinality(InProgress') <= 1)

Next == Step /\ Watch

Spec == Init /\ [][Next]_vars

-----------------------------------------------------------------------------
\* Properties

Statuses == {"none", "pending", "accepted", "rejected", "blocked"}

RoomRow == [type : {"none", "direct", "group"}, max : Capacities \cup {0},
            owner : Users \cup {NoUser}]
InvRow == [room : Rooms \cup {{}}, from : Users \cup {NoUser}, to : Users \cup {NoUser},
           kind : {"none", "invitation", "join_request"}, st : Statuses]
Call == [pc : {"idle", "create", "joinFind", "joinCreate", "guard", "add", "block",
               "blockUpdate", "blockCreate", "mark", "commit"},
         me : Users \cup {NoUser}, inv : 0..MaxInv, rm : Rooms \cup {{}},
         who : Users \cup {NoUser}, max : Capacities \cup {0}, st : Statuses,
         added : BOOLEAN, row : Pairs \cup {NoPair}]

RowsOK ==
    /\ room \in [Rooms -> RoomRow]
    /\ \A rm \in Rooms : room[rm].type = "none" <=> room[rm].owner = NoUser
    /\ members \in [Rooms -> SUBSET Users]
    /\ inv \in [Invitations -> InvRow]
    /\ nextInv \in 1..(MaxInv + 1)
    /\ rows \in [Pairs -> {"none", "pending", "accepted", "blocked"}]
    /\ call \in [Calls -> Call]
    /\ answers \in [Invitations -> Nat]
    /\ agreed \subseteq Users \X Rooms /\ admitted \subseteq Users \X Rooms
    /\ shut \subseteq Pairs

TypeOK == RowsOK /\ orderly \in BOOLEAN

\* A room with a limit never has more members than that, also when several
\* invitees and requests compete for the last place (limit_member_of_room).
CapacityKept ==
    \A rm \in Rooms : room[rm].max > 0 => Cardinality(members[rm]) <= room[rm].max

\* A user is in a room only if it is his, or if both sides have said yes: he
\* asked or accepted, and the owner invited him or approved.
BothConsent ==
    \A rm \in Rooms : \A u \in members[rm] :
        u = room[rm].owner \/ (<<u, rm>> \in agreed /\ <<u, rm>> \in admitted)

\* Whoever was told that the invitation or request is accepted is a member.
AcceptedIsMember ==
    \A i \in Invitations : inv[i].st = "accepted" => inv[i].to \in members[inv[i].room]

\* "Accept, reject, or block a pending invitation": as long as requests do not
\* overlap, an invitation or join request is resolved at most once.  (Requests
\* that overlap may both resolve it.)
ResolvedOnce == orderly => \A i \in Invitations : answers[i] <= 1

\* As long as requests do not overlap: a user with a rejected or blocked
\* invitation is in the room only by another invitation or as its owner, a user
\* waits for at most one decision about joining a room he is not in, and a block
\* is in a friendship row that CreateChatRoom may find (of friends, who have two
\* rows, it may find the other one).
RefusalsCount ==
    orderly /\ InProgress = {} =>
      /\ \A p \in shut : "blocked" \in FindBetweenUsers(p[2], p[1])
      /\ \A i \in Invitations :
        /\ inv[i].st \in {"rejected", "blocked"} /\ inv[i].to \in members[inv[i].room] =>
              \/ inv[i].to = room[inv[i].room].owner
              \/ \E j \in Invitations : /\ inv[j].room = inv[i].room /\ inv[j].to = inv[i].to
                                        /\ inv[j].st = "accepted"
        /\ \A j \in Invitations \ {i} :
              (inv[i].kind = "join_request" /\ inv[j].kind = "join_request"
                 /\ inv[i].st = "pending" /\ inv[j].st = "pending" /\ inv[i].room = inv[j].room)
              => inv[i].to # inv[j].to

\* Statements wait for a room, an invitation or a friendship row that another
\* transaction holds, but never in a circle: while requests are in progress, one
\* of them can go on.
NoCircularWait == InProgress # {} => \E r \in InProgress : ENABLED Continue(r)
=============================================================================
