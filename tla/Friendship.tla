----------------------------- MODULE Friendship -----------------------------
(***************************************************************************)
(* Friend requests, friendships and blocks (internal/application/          *)
(* friendship and its Postgres repository).  A friendship is two rows of   *)
(* user_friendships, (a, b) and (b, a), kept in step by hand: every use    *)
(* case is a sequence of separate statements, and only Accept runs in a    *)
(* transaction (READ COMMITTED: reads take no lock, an update locks its    *)
(* row, an insert its key, until commit).  An Accept then looks for a      *)
(* direct room of the two and creates one if there is none; the rooms that *)
(* users create themselves (CreateChatRoom, module Rooms) are there too.   *)
(*                                                                         *)
(* A call is a request being served.  Its first step is the read whose     *)
(* checks pass; a read whose checks fail returns an error and changes      *)
(* nothing.  Statements that would wait for a lock are disabled.           *)
(***************************************************************************)
EXTENDS Naturals, Sequences, FiniteSets

CONSTANTS
    Users,
    Pairs,      \* the pairs of users that requests are about
    OldRooms,   \* pairs that may share a room of an earlier Accept (it outlives a friendship)
    Newcomers,  \* users who may not have a participant yet
    Hosts,      \* users who create direct rooms themselves
    Calls,      \* requests served at the same time
    MaxId,      \* bound: rows ever inserted
    MaxRooms,   \* bound: direct rooms created
    Faulty      \* whether the best-effort steps of Accept may fail

ASSUME FriendshipAssumption ==
    /\ Pairs \subseteq Users \X Users /\ OldRooms \subseteq Pairs
    /\ Newcomers \subseteq Users /\ Hosts \subseteq Users
    /\ \A p \in Pairs : <<p[2], p[1]>> \in Pairs
    /\ MaxId \in Nat /\ MaxRooms \in Nat \ {0} /\ Faulty \in BOOLEAN

Reverse(p) == <<p[2], p[1]>>

VARIABLES
    table,   \* user_friendships: (user_id, friend_id) to [id, st]; UNIQUE
    nextId,
    participants, \* the users who have a row in participant_users
    rooms,   \* direct rooms: the set of members of each
    call,    \* requests in progress: [pc, me, pair, id, held]
    \* history
    asked,   \* <<a, b>>: a has sent b a request
    agreed,  \* <<b, a>>: b has accepted a request of a
    blocking,\* <<a, b>>: a's last completed act towards b was to block b
    made,    \* the rooms that an Accept created
    roomless,\* pairs whose last Accept found a participant missing
    orderly  \* no two calls have overlapped and no step has failed so far

vars == <<table, nextId, participants, rooms, call, asked, agreed, blocking, made, roomless, orderly>>
history == <<asked, agreed, blocking, orderly>>
roomVars == <<participants, rooms, made, roomless>>

NoRow == [id |-> 0, st |-> "none"]
Returned == [pc |-> "idle", me |-> "none", pair |-> <<>>, id |-> 0, held |-> FALSE]

Init ==
    /\ table = [p \in Pairs |-> NoRow]
    /\ nextId = 1
    /\ rooms \in {<<>>} \cup {<<{p[1], p[2]}>> : p \in OldRooms}
    /\ made = 1..Len(rooms)
    /\ \E us \in SUBSET Newcomers : participants = Users \ us
    /\ \A k \in 1..Len(rooms) : rooms[k] \subseteq participants
    /\ roomless = {}
    /\ call = [r \in Calls |-> Returned]
    /\ asked = {} /\ agreed = {} /\ blocking = {}
    /\ orderly = TRUE

-----------------------------------------------------------------------------
\* The repository

\* FindByID, FindByUserIDAndFriendID: both give the row of a pair, if any.
FindByID(p, i) == i # 0 /\ table[p].id = i
FindByUserIDAndFriendID(p) == table[p]

\* A row updated, or a key inserted, by an Accept that has not committed.
RowLocked(i) == \E r \in Calls : call[r].pc \in {"insert", "commit"} /\ call[r].held /\ call[r].id = i

\* What the insert of key p by call r waits for: another Accept has inserted the
\* key, or updated the row that has it.
KeyLocked(r, p) ==
    \E q \in Calls \ {r} :
        \/ call[q].pc = "commit" /\ Reverse(call[q].pair) = p
        \/ call[q].pc \in {"insert", "commit"} /\ call[q].held /\ call[q].pair = p

\* Two Accepts of requests that crossed: each has updated the row whose key the
\* other is about to insert.
Crossed(q, r) ==
    /\ q # r
    /\ \A x \in {q, r} : call[x].pc = "insert" /\ call[x].held
    /\ call[q].pair = Reverse(call[r].pair)

\* createWithStatus when the key is free: UNIQUE (user_id, friend_id).
CreateWithStatus(p, status) ==
    /\ nextId <= MaxId
    /\ table' = [table EXCEPT ![p] = [id |-> nextId, st |-> status]]
    /\ nextId' = nextId + 1

\* UPDATE ... WHERE id = i and DELETE ... WHERE id = i: no row, no effect, no error.
UpdateStatus(p, i, status) ==
    table' = IF table[p].id = i THEN [table EXCEPT ![p].st = status] ELSE table
Delete(p, i) == table' = IF table[p].id = i THEN [table EXCEPT ![p] = NoRow] ELSE table

\* Call r goes on at pc; the call returns.
Begin(r, pc, me, p, i) ==
    /\ call[r].pc = "idle"
    /\ call' = [call EXCEPT ![r] = [pc |-> pc, me |-> me, pair |-> p, id |-> i, held |-> FALSE]]
    /\ orderly' = (orderly /\ \A q \in Calls : call[q].pc = "idle")
    /\ UNCHANGED <<asked, agreed, blocking>>
Goto(r, pc) == call' = [call EXCEPT ![r].pc = pc]
Return(r) == call' = [call EXCEPT ![r] = Returned]

\* me does something to other than block: it no longer counts as blocking.
Acts(p) == blocking' = blocking \ {p}

-----------------------------------------------------------------------------
\* ApplyFriendship: neither row may exist; two reads, then the insert

ApplyFind(r, p) ==
    /\ FindByUserIDAndFriendID(p) = NoRow
    /\ Begin(r, "applyReverse", p[1], p, 0)
    /\ UNCHANGED <<table, nextId, roomVars>>

ApplyFindReverse(r) ==
    /\ call[r].pc = "applyReverse"
    /\ IF FindByUserIDAndFriendID(Reverse(call[r].pair)) = NoRow
       THEN Goto(r, "applyCreate") ELSE Return(r)
    /\ UNCHANGED <<table, nextId, roomVars, history>>

\* The insert; a duplicate key is returned as ErrFriendshipAlreadyExists.
ApplyCreate(r) ==
    LET p == call[r].pair
    IN /\ call[r].pc = "applyCreate" /\ ~KeyLocked(r, p)
       /\ Return(r)
       /\ \/ /\ table[p] = NoRow
             /\ CreateWithStatus(p, "pending")
             /\ asked' = asked \cup {p} /\ Acts(p)
             /\ UNCHANGED <<agreed, orderly>>
          \/ /\ table[p] # NoRow
             /\ UNCHANGED <<table, nextId, history>>
       /\ UNCHANGED roomVars

-----------------------------------------------------------------------------
\* AcceptFriendship: a transaction, then the direct room

\* Mutant: anyone may accept the request.
AcceptFind_AnyCaller(r, p) ==
    /\ table[p].st = "pending"
    /\ \E me \in Users : Begin(r, "update", me, p, table[p].id)
    /\ UNCHANGED <<table, nextId, roomVars>>

\* FindByID in the transaction, without a lock; only the addressee of a pending
\* request may accept it.
AcceptFind(r, p) ==
    /\ table[p].st = "pending"
    /\ Begin(r, "update", p[2], p, table[p].id)
    /\ UNCHANGED <<table, nextId, roomVars>>

\* UpdateStatus(f.ID, accepted): locks the row if it still exists.
AcceptUpdate(r) ==
    /\ call[r].pc = "update" /\ ~RowLocked(call[r].id)
    /\ call' = [call EXCEPT ![r].pc = "insert",
                            ![r].held = FindByID(call[r].pair, call[r].id)]
    /\ UNCHANGED <<table, nextId, roomVars, history>>

\* Mutant: the insert waits until the key is free.
AcceptInsert_WaitForKey(r) ==
    LET p == Reverse(call[r].pair)
    IN /\ call[r].pc = "insert" /\ ~KeyLocked(r, p) /\ table[p] = NoRow
       /\ Goto(r, "commit")
       /\ UNCHANGED <<table, nextId, roomVars, history>>

\* Create the reverse row.  A duplicate key is meant to be ignored, but it
\* aborts the transaction: the next statement fails and all is rolled back.
AcceptInsert(r) ==
    LET p == Reverse(call[r].pair)
    IN /\ call[r].pc = "insert" /\ ~KeyLocked(r, p)
       /\ IF table[p] = NoRow
          THEN Goto(r, "commit") ELSE Return(r)
       /\ UNCHANGED <<table, nextId, roomVars, history>>

\* Accepts that have crossed wait for each other until Postgres ends one of them
\* (ERROR 40P01) and its transaction is rolled back.
AcceptDeadlock(r) ==
    /\ \E q \in Calls : Crossed(q, r)
    /\ Return(r)
    /\ UNCHANGED <<table, nextId, roomVars, history>>

\* The reverse row is found, set to accepted, and everything committed.
AcceptCommit(r) ==
    LET p == call[r].pair
    IN /\ call[r].pc = "commit" /\ nextId <= MaxId
       /\ table' = [table EXCEPT
              ![p] = IF call[r].held THEN [@ EXCEPT !.st = "accepted"] ELSE @,
              ![Reverse(p)] = [id |-> nextId, st |-> "accepted"]]
       /\ nextId' = nextId + 1
       /\ agreed' = agreed \cup {<<call[r].me, p[1]>>}
       /\ Acts(Reverse(p))
       /\ Goto(r, "findRoom")
       /\ UNCHANGED <<roomVars, asked, orderly>>

\* Mutant: a room is created without looking for one.
AcceptRoom_NoLookup(r) ==
    LET us == {call[r].pair[1], call[r].pair[2]}
    IN /\ call[r].pc = "findRoom"
       /\ IF ~(us \subseteq participants)
          THEN Return(r) /\ roomless' = roomless \cup {us}
          ELSE Goto(r, "createRoom") /\ roomless' = roomless \ {us}
       /\ UNCHANGED <<table, nextId, participants, rooms, made, history>>

\* FindByUserID of both: without a participant there is no room, and the request
\* succeeds.  FindDirectByParticipants; without one, Create (best effort) ...
AcceptRoom(r) ==
    LET us == {call[r].pair[1], call[r].pair[2]}
    IN /\ call[r].pc = "findRoom"
       /\ IF ~(us \subseteq participants)
          THEN Return(r) /\ roomless' = roomless \cup {us}
          ELSE /\ IF \E k \in 1..Len(rooms) : us \subseteq rooms[k]
                  THEN Return(r) ELSE Goto(r, "createRoom")
               /\ roomless' = roomless \ {us}
       /\ UNCHANGED <<table, nextId, participants, rooms, made, history>>

\* ... with the accepter as first member.  call.id is reused for the room.
AcceptCreateRoom(r) ==
    LET p == call[r].pair
    IN /\ call[r].pc = "createRoom"
       /\ \/ /\ Len(rooms) < MaxRooms
             /\ \E ms \in {{p[2]}} \cup (IF Faulty THEN {{}} ELSE {}) :
                    rooms' = Append(rooms, ms) /\ orderly' = (orderly /\ ms # {})
             /\ made' = made \cup {Len(rooms) + 1}
             /\ call' = [call EXCEPT ![r].pc = "addRequester", ![r].id = Len(rooms) + 1]
          \/ /\ Faulty \/ Len(rooms) = MaxRooms
             /\ Return(r) /\ orderly' = FALSE /\ UNCHANGED <<rooms, made>>
       /\ UNCHANGED <<table, nextId, participants, roomless, asked, agreed, blocking>>

AcceptAddRequester(r) ==
    /\ call[r].pc = "addRequester"
    /\ \/ /\ rooms' = [rooms EXCEPT ![call[r].id] = @ \cup {call[r].pair[1]}]
          /\ UNCHANGED orderly
       \/ Faulty /\ orderly' = FALSE /\ UNCHANGED rooms
    /\ Return(r)
    /\ UNCHANGED <<table, nextId, participants, made, roomless, asked, agreed, blocking>>

-----------------------------------------------------------------------------
\* Participants and the direct rooms users create (Rooms has their use cases in
\* full): a room starts with its creator, for whom an invitation is no reason not
\* to accept a request, and others join it later.

CreateUserParticipant(u) ==
    /\ u \notin participants
    /\ participants' = participants \cup {u}
    /\ UNCHANGED <<table, nextId, rooms, call, made, roomless, history>>

CreateChatRoom(u) ==
    /\ u \in participants \cap Hosts /\ Len(rooms) < MaxRooms
    /\ rooms' = Append(rooms, {u})
    /\ UNCHANGED <<table, nextId, participants, call, made, roomless, history>>

\* RespondToInvitation, ApproveJoinRequest.  Rooms of an Accept have no owner:
\* nobody invites to them or admits to them.
JoinRoom(u, k) ==
    /\ u \in participants /\ k \notin made /\ u \notin rooms[k]
    /\ rooms' = [rooms EXCEPT ![k] = @ \cup {u}]
    /\ UNCHANGED <<table, nextId, participants, call, made, roomless, history>>

-----------------------------------------------------------------------------
\* BlockUser: block the row (me, other), then delete the reverse one

\* An existing row that is not blocked is to be updated; without one, created.
BlockFind(r, p) ==
    /\ table[p].st # "blocked"
    /\ Begin(r, IF table[p] = NoRow THEN "blockCreate" ELSE "blockUpdate",
             p[1], p, table[p].id)
    /\ UNCHANGED <<table, nextId, roomVars>>

BlockUpdate(r) ==
    /\ call[r].pc = "blockUpdate" /\ ~RowLocked(call[r].id)
    /\ UpdateStatus(call[r].pair, call[r].id, "blocked")
    /\ Goto(r, "blockReverse")
    /\ UNCHANGED <<nextId, roomVars, history>>

\* CreateBlocked; a duplicate key is returned as ErrAlreadyBlocked.
BlockCreate(r) ==
    LET p == call[r].pair
    IN /\ call[r].pc = "blockCreate" /\ ~KeyLocked(r, p)
       /\ \/ /\ table[p] = NoRow /\ CreateWithStatus(p, "blocked")
             /\ Goto(r, "blockReverse")
          \/ /\ table[p] # NoRow /\ Return(r)
             /\ UNCHANGED <<table, nextId>>
       /\ UNCHANGED <<roomVars, history>>

\* Find the reverse row: nothing to do, or delete it.
BlockReverse(r) ==
    LET p == call[r].pair
        reverse == FindByUserIDAndFriendID(Reverse(p))
    IN /\ call[r].pc = "blockReverse"
       /\ IF reverse = NoRow
          THEN Return(r) /\ blocking' = blocking \cup {p}
          ELSE /\ call' = [call EXCEPT ![r].pc = "blockDelete", ![r].id = reverse.id]
               /\ UNCHANGED blocking
       /\ UNCHANGED <<table, nextId, roomVars, asked, agreed, orderly>>

BlockDelete(r) ==
    LET p == call[r].pair
    IN /\ call[r].pc = "blockDelete" /\ ~RowLocked(call[r].id)
       /\ Delete(Reverse(p), call[r].id)
       /\ blocking' = blocking \cup {p}
       /\ Return(r)
       /\ UNCHANGED <<nextId, roomVars, asked, agreed, orderly>>

-----------------------------------------------------------------------------
\* CancelSentRequest, UnblockUser, RemoveFriendship

\* Cancel: only the initiator, only a pending request.
CancelFind(r, p) ==
    /\ table[p].st = "pending"
    /\ Begin(r, "delete", p[1], p, table[p].id)
    /\ UNCHANGED <<table, nextId, roomVars>>

\* Unblock: only a blocked row.
UnblockFind(r, p) ==
    /\ table[p].st = "blocked"
    /\ Begin(r, "delete", p[1], p, table[p].id)
    /\ UNCHANGED <<table, nextId, roomVars>>

\* The single delete of both.
DeleteOwn(r) ==
    /\ call[r].pc = "delete" /\ ~RowLocked(call[r].id)
    /\ Delete(call[r].pair, call[r].id)
    /\ Acts(call[r].pair)
    /\ Return(r)
    /\ UNCHANGED <<nextId, roomVars, asked, agreed, orderly>>

\* Remove: either party, a row of any status.
RemoveFind(r, p) ==
    /\ table[p] # NoRow
    /\ \E me \in {p[1], p[2]} : Begin(r, "remove", me, p, table[p].id)
    /\ UNCHANGED <<table, nextId, roomVars>>

RemoveDelete(r) ==
    LET p == call[r].pair
        other == IF call[r].me = p[1] THEN p[2] ELSE p[1]
    IN /\ call[r].pc = "remove" /\ ~RowLocked(call[r].id)
       /\ Delete(p, call[r].id)
       /\ Acts(<<call[r].me, other>>)
       /\ Goto(r, "removeReverse")
       /\ UNCHANGED <<nextId, roomVars, asked, agreed, orderly>>

\* Mutant: the reverse row of a removed friendship stays.
RemoveReverse_Keep(r) ==
    /\ call[r].pc = "removeReverse"
    /\ Return(r)
    /\ UNCHANGED <<table, nextId, roomVars, history>>

\* The reverse row, found and deleted (its id is read just before).
RemoveReverse(r) ==
    LET p == Reverse(call[r].pair)
    IN /\ call[r].pc = "removeReverse"
       /\ IF table[p] = NoRow THEN Return(r)
          ELSE call' = [call EXCEPT ![r].pc = "removeReverseDelete", ![r].id = table[p].id]
       /\ UNCHANGED <<table, nextId, roomVars, history>>

RemoveReverseDelete(r) ==
    /\ call[r].pc = "removeReverseDelete" /\ ~RowLocked(call[r].id)
    /\ Delete(Reverse(call[r].pair), call[r].id)
    /\ Return(r)
    /\ UNCHANGED <<nextId, roomVars, history>>

-----------------------------------------------------------------------------
Start(r) ==
    \E p \in Pairs : \/ ApplyFind(r, p) \/ AcceptFind(r, p) \/ BlockFind(r, p)
                     \/ CancelFind(r, p) \/ UnblockFind(r, p) \/ RemoveFind(r, p)

\* The bound MaxId cuts off calls that would insert yet another row; what they
\* would do is to return an error.
OutOfIds(r) ==
    /\ nextId > MaxId
    /\ call[r].pc \in {"applyCreate", "blockCreate", "commit"}
    /\ Return(r)
    /\ UNCHANGED <<table, nextId, roomVars, history>>

Continue(r) ==
    \/ ApplyFindReverse(r) \/ ApplyCreate(r)
    \/ AcceptUpdate(r) \/ AcceptInsert(r) \/ AcceptCommit(r)
    \/ AcceptRoom(r) \/ AcceptCreateRoom(r) \/ AcceptAddRequester(r)
    \/ BlockUpdate(r) \/ BlockCreate(r) \/ BlockReverse(r) \/ BlockDelete(r)
    \/ DeleteOwn(r) \/ RemoveDelete(r) \/ RemoveReverse(r) \/ RemoveReverseDelete(r)
    \/ OutOfIds(r)

Next ==
    \/ \E r \in Calls : Start(r) \/ Continue(r) \/ AcceptDeadlock(r)
    \/ \E u \in Users : CreateUserParticipant(u) \/ CreateChatRoom(u)
    \/ \E u \in Users, k \in 1..Len(rooms) : JoinRoom(u, k)

Spec == Init /\ [][Next]_vars

-----------------------------------------------------------------------------
\* Properties

TypeOK ==
    /\ table \in [Pairs -> [id : 0..MaxId, st : {"none", "pending", "accepted", "blocked"}]]
    /\ nextId \in 1..(MaxId + 1)
    /\ participants \subseteq Users
    /\ rooms \in Seq(SUBSET Users) /\ Len(rooms) <= MaxRooms
    /\ made \subseteq 1..Len(rooms) /\ roomless \subseteq SUBSET Users
    /\ DOMAIN call = Calls
    /\ asked \subseteq Pairs /\ agreed \subseteq Users \X Users /\ blocking \subseteq Pairs
    /\ orderly \in BOOLEAN

\* Nothing in progress, and nothing has overlapped or failed so far.
Quiet == orderly /\ \A r \in Calls : call[r].pc = "idle"

\* Between calls that do not overlap, a pair of users is strangers, one waiting
\* for the other, friends on both sides, or one blocking the other: no use case
\* leaves one of the two rows behind, and a user who blocked the other is no friend
\* until he asks or accepts again.  No use case refuses a user who names himself, yet
\* nobody becomes his own friend or stays blocked by himself.
PairIsConsistent ==
    Quiet => \A p \in Pairs :
        IF p[1] = p[2] THEN table[p].st \in {"none", "pending"}
        ELSE /\ <<table[p].st, table[Reverse(p)].st>> \in
                   {<<"none", "none">>, <<"accepted", "accepted">>,
                    <<"pending", "none">>, <<"none", "pending">>,
                    <<"blocked", "none">>, <<"none", "blocked">>}
             /\ p \in blocking => table[p].st # "accepted"

\* The direct rooms that the two users of p share.
Shared(p) == {k \in 1..Len(rooms) : {p[1], p[2]} \subseteq rooms[k]}

\* Accept sees to it that friends share a direct room, unless one of them had no
\* participant at the time, and makes no second one for the same two, also after
\* they part and make up again.  (They may have another: the invitation to a room
\* that one of them created is no shared room yet, so Accept does not find it.)
FriendsShareOneRoom ==
    Quiet => \A p \in Pairs : table[p].st = "accepted" =>
        /\ Shared(p) # {} \/ {p[1], p[2]} \in roomless
        /\ Cardinality(Shared(p) \cap made) <= 1

\* However the calls interleave, users are friends only if one of them asked
\* and the other agreed.
FriendshipNeedsBoth ==
    \A p \in Pairs : table[p].st = "accepted" =>
        \/ p \in asked /\ Reverse(p) \in agreed
        \/ Reverse(p) \in asked /\ p \in agreed

\* Statements wait for rows and keys that an Accept holds.  The only circle that
\* makes is that of two Accepts that crossed: in all other states with requests in
\* progress, one of them can go on.
OnlyCrossedAcceptsDeadlock ==
    (\E r \in Calls : call[r].pc # "idle") =>
        \/ \E r \in Calls : call[r].pc # "idle" /\ ENABLED Continue(r)
        \/ \E q, r \in Calls : Crossed(q, r)
=============================================================================
