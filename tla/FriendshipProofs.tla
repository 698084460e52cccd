-------------------------- MODULE FriendshipProofs --------------------------
(***************************************************************************)
(* Proofs about Friendship, for any users, pairs and number of requests.   *)
(*                                                                         *)
(* That friends have asked and agreed is carried by two facts about what   *)
(* is under way: a pending row was asked for, and an Accept between its    *)
(* read and its commit is one of the addressee, for a request that was     *)
(* sent (Consent).  The two properties about calls that do not overlap     *)
(* need what the only call in progress still has to do (View): the rows    *)
(* of all pairs but the one it is about to repair are consistent, the ids  *)
(* it has read are still those of the rows, and a room is missing only     *)
(* while the Accept that creates it is on its way, or where that found a   *)
(* participant missing.                                                    *)
(***************************************************************************)
EXTENDS Friendship, FiniteSetTheorems, TLAPS

Statuses == {"none", "pending", "accepted", "blocked"}
Steps == {"applyReverse", "applyCreate", "update", "insert", "commit", "findRoom",
          "createRoom", "addRequester", "blockUpdate", "blockCreate", "blockReverse",
          "blockDelete", "delete", "remove", "removeReverse", "removeReverseDelete"}
Request == [pc : Steps, me : Users, pair : Pairs, id : Nat, held : BOOLEAN]

\* The requests in progress, which TypeOK leaves open.
CallsOK == call \in [Calls -> {Returned} \cup Request]

\* A request was sent, and only its addressee is accepting it.
Consent ==
    /\ \A p \in Pairs : table[p].st = "pending" => p \in asked
    /\ \A r \in Calls : call[r].pc \in {"update", "insert", "commit"} =>
           call[r].pair \in asked /\ call[r].me = call[r].pair[2]

\* The rows of two users between calls: the body of PairIsConsistent.
Consistent(p) ==
    IF p[1] = p[2] THEN table[p].st \in {"none", "pending"}
    ELSE <<table[p].st, table[Reverse(p)].st>> \in
             {<<"none", "none">>, <<"accepted", "accepted">>,
              <<"pending", "none">>, <<"none", "pending">>,
              <<"blocked", "none">>, <<"none", "blocked">>}

\* A row and its id go together, and who blocks is neither asking nor a friend.
Rows ==
    \A p \in Pairs : /\ table[p].st = "none" <=> table[p].id = 0
                     /\ p \in blocking => table[p].st \in {"none", "blocked"}

\* Only one call is in progress.
Alone == \A q, r \in Calls : call[q].pc # "idle" /\ call[r].pc # "idle" => q = r

\* The rows of all pairs are consistent but those of the pair of a Block or a
\* Remove between its two writes.
About(r) == {call[r].pair, Reverse(call[r].pair)}
HalfDone(r) == call[r].pc \in {"blockReverse", "blockDelete", "removeReverse", "removeReverseDelete"}
Settled == \A p \in Pairs : Consistent(p) \/ \E r \in Calls : HalfDone(r) /\ p \in About(r)

\* What the call in progress has read still holds.
View(r) ==
    LET p == call[r].pair
        q == Reverse(p)
        st == table[p].st
    IN /\ call[r].pc = "applyReverse" => st = "none"
       /\ call[r].pc = "applyCreate" => st = "none" /\ table[q].st = "none"
       /\ call[r].pc \in {"update", "insert", "commit"} => st = "pending" /\ call[r].id = table[p].id
       /\ call[r].pc \in {"insert", "commit"} => call[r].held
       /\ call[r].pc = "commit" => p[1] # p[2]
       /\ call[r].pc \in {"findRoom", "createRoom", "addRequester"} => p[1] # p[2]
       /\ call[r].pc = "blockUpdate" => st # "none" /\ call[r].id = table[p].id
       /\ call[r].pc = "blockCreate" => st = "none"
       /\ call[r].pc \in {"blockReverse", "blockDelete"} => st = "blocked"
       /\ call[r].pc \in {"blockDelete", "removeReverseDelete"} => call[r].id = table[q].id
       /\ call[r].pc \in {"delete", "remove"} => st # "none" /\ call[r].id = table[p].id
       /\ call[r].pc = "delete" => st \in {"pending", "blocked"}
       /\ call[r].pc \in {"removeReverse", "removeReverseDelete"} => st = "none"

Orderly == orderly => Rows /\ Alone /\ Settled /\ \A r \in Calls : View(r)

\* Direct rooms: room k is one of the two users of p.
RoomOf(k, p) == {p[1], p[2]} \subseteq rooms[k]
Creating(r) == call[r].pc \in {"createRoom", "addRequester"}

\* Accepts made no pair two rooms, and friends have one unless a participant was
\* missing, or the Accept that made them friends is about to create it.
RoomsOrderly ==
    orderly =>
        /\ \A p \in Pairs : p[1] # p[2] => \A j, k \in made : RoomOf(j, p) /\ RoomOf(k, p) => j = k
        /\ \A r \in Calls : Creating(r) => \A k \in made : ~RoomOf(k, call[r].pair)
        /\ \A r \in Calls : call[r].pc = "addRequester" =>
               call[r].id \in made /\ rooms[call[r].id] = {call[r].pair[2]}
        /\ \A p \in Pairs : table[p].st = "accepted" =>
               \/ \E k \in 1..Len(rooms) : RoomOf(k, p)
               \/ {p[1], p[2]} \in roomless
               \/ \E r \in Calls : call[r].pc \in {"findRoom", "createRoom", "addRequester"} /\ p \in About(r)

IInv == TypeOK /\ CallsOK /\ Consent /\ FriendshipNeedsBoth /\ Orderly /\ RoomsOrderly

-----------------------------------------------------------------------------
\* Pairs are closed under Reverse, which is its own inverse.
LEMMA PairFacts ==
    ASSUME NEW p \in Pairs
    PROVE  /\ Reverse(p) \in Pairs /\ Reverse(Reverse(p)) = p
           /\ p[1] \in Users /\ p[2] \in Users
           /\ Reverse(p)[1] = p[2] /\ Reverse(p)[2] = p[1]
           /\ Reverse(p) = p <=> p[1] = p[2]
<1>1. p \in Users \X Users
  BY FriendshipAssumption
<1>2. PICK a \in Users, b \in Users : p = <<a, b>>
  BY <1>1
<1>3. <<p[2], p[1]>> \in Pairs
  BY FriendshipAssumption
<1> QED BY <1>2, <1>3 DEF Reverse

\* Init: no rows, no requests, at most one room.
LEMMA IInvInit == Init => IInv
<1> SUFFICES ASSUME Init PROVE IInv
  OBVIOUS
<1>1. \A r \in Calls : call[r] = Returned
  BY DEF Init
<1>2. rooms \in Seq(SUBSET Users) /\ Len(rooms) \in {0, 1}
  <2>1. CASE rooms = <<>>
    BY <2>1
  <2>2. ASSUME NEW p \in OldRooms, rooms = <<{p[1], p[2]}>> PROVE rooms \in Seq(SUBSET Users) /\ Len(rooms) \in {0, 1}
    <3>1. p[1] \in Users /\ p[2] \in Users
      BY PairFacts, FriendshipAssumption
    <3> QED BY <2>2, <3>1
  <2> QED BY <2>1, <2>2 DEF Init
<1>3. \A p \in Pairs : table[p] = NoRow
  BY DEF Init
<1>4. TypeOK /\ CallsOK
  <2>1. made = 1..Len(rooms) /\ roomless = {} /\ participants \subseteq Users
    BY DEF Init
  <2> QED BY <1>2, <2>1, FriendshipAssumption DEF Init, TypeOK, CallsOK, NoRow
<1>5. Consent /\ FriendshipNeedsBoth
  BY <1>1, <1>3 DEF Consent, FriendshipNeedsBoth, NoRow, Returned
<1>6. Rows /\ Alone /\ (\A r \in Calls : View(r))
  BY <1>1, <1>3 DEF Init, Rows, Alone, View, NoRow, Returned
<1>7. Settled
  BY <1>3, PairFacts DEF Settled, Consistent, NoRow
<1>8. RoomsOrderly
  <2>1. \A j, k \in made : j = k
    <3>1. PICK n \in {0, 1} : Len(rooms) = n
      BY <1>2
    <3>2. \A j, k \in 1..n : j = k
      OBVIOUS
    <3> QED BY <3>1, <3>2 DEF Init
  <2> QED BY <1>1, <2>1, <1>3 DEF RoomsOrderly, Creating, NoRow, Returned
<1> QED BY <1>4, <1>5, <1>6, <1>7, <1>8 DEF IInv, Orderly

-----------------------------------------------------------------------------
\* No step leaves the types.
LEMMA TypeStep == TypeOK /\ CallsOK /\ [Next]_vars => TypeOK' /\ CallsOK'
<1> SUFFICES ASSUME TypeOK, CallsOK, [Next]_vars PROVE TypeOK' /\ CallsOK'
  OBVIOUS
<1>0. CallsOK' => DOMAIN call' = Calls
  BY DEF CallsOK
<1> USE FriendshipAssumption, PairFacts, <1>0 DEF roomVars
<1>1. ASSUME NEW r \in Calls, NEW p \in Pairs, NEW me \in Users, NEW pc \in Steps, NEW i \in Nat,
             Begin(r, pc, me, p, i), UNCHANGED <<table, nextId, roomVars>>
      PROVE  TypeOK' /\ CallsOK'
  BY <1>1 DEF Begin, TypeOK, CallsOK, Request
<1>2. ASSUME NEW r \in Calls, Start(r) PROVE TypeOK' /\ CallsOK'
  <2>1. PICK p \in Pairs : \/ ApplyFind(r, p) \/ AcceptFind(r, p) \/ BlockFind(r, p)
                           \/ CancelFind(r, p) \/ UnblockFind(r, p) \/ RemoveFind(r, p)
    BY <1>2 DEF Start
  <2>2. table[p].id \in Nat /\ 0 \in Nat /\ p[1] \in Users /\ p[2] \in Users
    BY DEF TypeOK
  <2> QED BY <2>1, <2>2, <1>1
    DEF ApplyFind, AcceptFind, BlockFind, CancelFind, UnblockFind, RemoveFind, Steps
<1>3. ASSUME NEW r \in Calls, call[r].pc # "idle" PROVE call[r] \in Request
  BY <1>3 DEF CallsOK, Returned
<1>4. ASSUME NEW r \in Calls, NEW pc \in Steps, call[r].pc # "idle", Goto(r, pc) PROVE CallsOK'
  BY <1>3, <1>4 DEF Goto, CallsOK, Request
<1>5. ASSUME NEW r \in Calls, Return(r) PROVE CallsOK'
  BY <1>5 DEF Return, CallsOK
<1>6. ASSUME NEW p \in Pairs, NEW st \in Statuses, CreateWithStatus(p, st)
      PROVE  /\ table' \in [Pairs -> [id : 0..MaxId, st : Statuses]]
             /\ nextId' \in 1..(MaxId + 1)
  BY <1>6 DEF CreateWithStatus, TypeOK, Statuses
<1>7. ASSUME NEW p \in Pairs, NEW i, Delete(p, i)
      PROVE  table' \in [Pairs -> [id : 0..MaxId, st : Statuses]]
  BY <1>7 DEF Delete, TypeOK, Statuses, NoRow
<1>8. ASSUME NEW r \in Calls, Continue(r) PROVE TypeOK' /\ CallsOK'
  <2> DEFINE p == call[r].pair
  <2>1. CASE ApplyFindReverse(r)
    BY <2>1, <1>4, <1>5 DEF ApplyFindReverse, TypeOK, Steps, history, CallsOK, Goto, Return
  <2>2. CASE ApplyCreate(r)
    <3>1. p \in Pairs /\ CallsOK'
      BY <2>2, <1>3, <1>5 DEF ApplyCreate, Request
    <3>2. CASE table[p] = NoRow
      BY <2>2, <3>1, <3>2, <1>6 DEF ApplyCreate, TypeOK, Statuses, Acts, history
    <3>3. CASE table[p] # NoRow
      BY <2>2, <3>1, <3>3 DEF ApplyCreate, TypeOK, history
    <3> QED BY <3>2, <3>3
  <2>3. CASE AcceptUpdate(r)
    <3>1. call[r] \in Request
      BY <2>3, <1>3 DEF AcceptUpdate
    <3>2. CallsOK'
      BY <2>3, <3>1 DEF AcceptUpdate, CallsOK, Request, Steps, FindByID
    <3> QED BY <2>3, <3>2 DEF AcceptUpdate, TypeOK, history
  <2>4. CASE AcceptInsert(r)
    BY <2>4, <1>4, <1>5 DEF AcceptInsert, TypeOK, Steps, history
  <2>5. CASE AcceptCommit(r)
    <3>1. p \in Pairs /\ call[r].me \in Users /\ CallsOK'
      BY <2>5, <1>3, <1>4 DEF AcceptCommit, Request, Steps
    <3>2. table' \in [Pairs -> [id : 0..MaxId, st : Statuses]] /\ nextId' \in 1..(MaxId + 1)
      <4>1. p \in Pairs /\ Reverse(p) \in Pairs /\ nextId \in 0..MaxId /\ nextId \in Nat
        BY <2>5, <3>1 DEF AcceptCommit, TypeOK
      <4>2. table \in [Pairs -> [id : 0..MaxId, st : Statuses]]
        BY DEF TypeOK, Statuses
      <4>3. PICK x : x = IF call[r].held THEN [table[p] EXCEPT !.st = "accepted"] ELSE table[p]
        OBVIOUS
      <4>4. table[p] \in [id : 0..MaxId, st : Statuses] /\ "accepted" \in Statuses
        BY <4>1, <4>2 DEF Statuses
      <4>5. x \in [id : 0..MaxId, st : Statuses]
        BY <4>3, <4>4
      <4>6. /\ nextId \in 0..MaxId
            /\ table' = [table EXCEPT ![p] = x, ![Reverse(p)] = [id |-> nextId, st |-> "accepted"]]
            /\ nextId' = nextId + 1
        BY <2>5, <4>1, <4>3 DEF AcceptCommit
      <4>7. [id |-> nextId, st |-> "accepted"] \in [id : 0..MaxId, st : Statuses]
        BY <4>4, <4>6
      <4>8. table' \in [Pairs -> [id : 0..MaxId, st : Statuses]]
        BY <4>1, <4>2, <4>5, <4>6, <4>7
      <4>9. nextId' \in 1..(MaxId + 1)
        BY <4>6, FriendshipAssumption
      <4> QED BY <4>8, <4>9
    <3>3. <<call[r].me, p[1]>> \in Users \X Users
      BY <3>1
    <3> QED BY <2>5, <3>1, <3>2, <3>3 DEF AcceptCommit, TypeOK, Statuses, Acts
  <2>6. CASE AcceptRoom(r)
    <3>1. CallsOK'
      BY <2>6, <1>4, <1>5 DEF AcceptRoom, Steps
    <3>2. roomless' \subseteq SUBSET Users
      <4>1. p[1] \in Users /\ p[2] \in Users
        BY <2>6, <1>3 DEF AcceptRoom, Request
      <4>2. \/ roomless' = roomless \cup {{p[1], p[2]}}
            \/ roomless' = roomless \ {{p[1], p[2]}}
        BY <2>6 DEF AcceptRoom
      <4> QED BY <4>1, <4>2 DEF TypeOK
    <3> QED BY <2>6, <3>1, <3>2 DEF AcceptRoom, TypeOK, history
  <2>7. CASE AcceptCreateRoom(r)
    <3>1. call[r] \in Request /\ p[2] \in Users
      BY <2>7, <1>3 DEF AcceptCreateRoom, Request
    <3>2. ASSUME NEW ms \in SUBSET Users, Len(rooms) < MaxRooms, rooms' = Append(rooms, ms)
          PROVE  /\ rooms' \in Seq(SUBSET Users) /\ Len(rooms') <= MaxRooms
                 /\ made \cup {Len(rooms) + 1} \subseteq 1..Len(rooms')
      <4>1. rooms \in Seq(SUBSET Users) /\ Len(rooms) \in Nat /\ made \subseteq 1..Len(rooms)
        BY DEF TypeOK
      <4>2. rooms' \in Seq(SUBSET Users) /\ Len(rooms') = Len(rooms) + 1
        BY <3>2, <4>1
      <4>3. MaxRooms \in Nat
        OBVIOUS
      <4>4. Len(rooms') <= MaxRooms
        <5>1. PICK n \in Nat : n = Len(rooms)
          BY <4>1
        <5>2. n + 1 <= MaxRooms
          BY <3>2, <4>3, <5>1
        <5> QED BY <4>2, <5>1, <5>2
      <4>5. made \cup {Len(rooms) + 1} \subseteq 1..(Len(rooms) + 1)
        <5>1. PICK n \in Nat : n = Len(rooms)
          BY <4>1
        <5>2. made \subseteq 1..n
          BY <4>1, <5>1
        <5>3. 1..n \subseteq 1..(n + 1) /\ n + 1 \in 1..(n + 1)
          OBVIOUS
        <5>4. made \cup {n + 1} \subseteq 1..(n + 1)
          BY <5>2, <5>3
        <5> QED BY <5>1, <5>4
      <4> QED BY <4>2, <4>4, <4>5
    <3>3. /\ rooms' \in Seq(SUBSET Users) /\ Len(rooms') <= MaxRooms /\ orderly' \in BOOLEAN
          /\ made' \subseteq 1..Len(rooms')
      <4>1. CASE UNCHANGED <<rooms, made>> /\ orderly' = FALSE
        BY <4>1 DEF TypeOK
      <4>2. CASE ~(UNCHANGED <<rooms, made>> /\ orderly' = FALSE)
        <5>1. PICK ms : /\ ms \in {{p[2]}} \cup (IF Faulty THEN {{}} ELSE {}) /\ rooms' = Append(rooms, ms)
                        /\ orderly' = (orderly /\ ms # {})
                        /\ Len(rooms) < MaxRooms /\ made' = made \cup {Len(rooms) + 1}
          BY <2>7, <4>2 DEF AcceptCreateRoom
        <5>2. ms \in SUBSET Users
          BY <3>1, <5>1
        <5>3. orderly' \in BOOLEAN
          BY <5>1 DEF TypeOK
        <5> QED BY <3>2, <5>1, <5>2, <5>3
      <4> QED BY <4>1, <4>2
    <3>4. CallsOK'
      <4>1. Len(rooms) + 1 \in Nat /\ "addRequester" \in Steps
        BY DEF TypeOK, Steps
      <4>2. [call[r] EXCEPT !.pc = "addRequester", !.id = Len(rooms) + 1] \in Request
        BY <3>1, <4>1 DEF Request
      <4> QED BY <2>7, <4>2, <1>5 DEF AcceptCreateRoom, CallsOK
    <3> QED BY <2>7, <3>3, <3>4 DEF AcceptCreateRoom, TypeOK
  <2>8. CASE AcceptAddRequester(r)
    <3>1. p[1] \in Users /\ CallsOK'
      BY <2>8, <1>3, <1>5 DEF AcceptAddRequester, Request
    <3>2. rooms' \in Seq(SUBSET Users) /\ Len(rooms') = Len(rooms)
      BY <2>8, <3>1 DEF AcceptAddRequester, TypeOK
    <3> QED BY <2>8, <3>1, <3>2 DEF AcceptAddRequester, TypeOK
  <2>9. CASE BlockUpdate(r)
    <3>1. p \in Pairs /\ CallsOK'
      BY <2>9, <1>3, <1>4 DEF BlockUpdate, Request, Steps
    <3> QED BY <2>9, <3>1 DEF BlockUpdate, UpdateStatus, TypeOK, history
  <2>10. CASE BlockCreate(r)
    <3>1. p \in Pairs
      BY <2>10, <1>3 DEF BlockCreate, Request
    <3>2. CallsOK'
      BY <2>10, <1>4, <1>5 DEF BlockCreate, Steps
    <3> QED BY <2>10, <3>1, <3>2, <1>6 DEF BlockCreate, TypeOK, Statuses, history
  <2>11. CASE BlockReverse(r)
    <3>1. call[r] \in Request /\ p \in Pairs /\ Reverse(p) \in Pairs
      BY <2>11, <1>3 DEF BlockReverse, Request
    <3>2. CallsOK'
      <4>1. table[Reverse(p)].id \in Nat /\ "blockDelete" \in Steps
        BY <3>1 DEF TypeOK, Steps
      <4>2. [call[r] EXCEPT !.pc = "blockDelete", !.id = table[Reverse(p)].id] \in Request
        BY <3>1, <4>1 DEF Request
      <4> QED BY <2>11, <4>2, <1>5 DEF BlockReverse, CallsOK, FindByUserIDAndFriendID
    <3> QED BY <2>11, <3>1, <3>2 DEF BlockReverse, TypeOK, history
  <2>12. CASE BlockDelete(r)
    <3>1. p \in Pairs /\ Reverse(p) \in Pairs /\ CallsOK'
      BY <2>12, <1>3, <1>5 DEF BlockDelete, Request
    <3> QED BY <2>12, <3>1, <1>7 DEF BlockDelete, TypeOK, Statuses
  <2>13. CASE DeleteOwn(r)
    <3>1. p \in Pairs /\ CallsOK'
      BY <2>13, <1>3, <1>5 DEF DeleteOwn, Request
    <3> QED BY <2>13, <3>1, <1>7 DEF DeleteOwn, TypeOK, Statuses, Acts
  <2>14. CASE RemoveDelete(r)
    <3>1. p \in Pairs /\ CallsOK'
      BY <2>14, <1>3, <1>4 DEF RemoveDelete, Request, Steps
    <3> QED BY <2>14, <3>1, <1>7 DEF RemoveDelete, TypeOK, Statuses, Acts
  <2>15. CASE RemoveReverse(r)
    <3>1. call[r] \in Request /\ p \in Pairs /\ Reverse(p) \in Pairs
      BY <2>15, <1>3 DEF RemoveReverse, Request
    <3>2. CallsOK'
      <4>1. table[Reverse(p)].id \in Nat /\ "removeReverseDelete" \in Steps
        BY <3>1 DEF TypeOK, Steps
      <4>2. [call[r] EXCEPT !.pc = "removeReverseDelete", !.id = table[Reverse(p)].id] \in Request
        BY <3>1, <4>1 DEF Request
      <4> QED BY <2>15, <4>2, <1>5 DEF RemoveReverse, CallsOK
    <3> QED BY <2>15, <3>1, <3>2 DEF RemoveReverse, TypeOK, history
  <2>16. CASE RemoveReverseDelete(r)
    <3>1. p \in Pairs /\ Reverse(p) \in Pairs /\ CallsOK'
      BY <2>16, <1>3, <1>5 DEF RemoveReverseDelete, Request
    <3> QED BY <2>16, <3>1, <1>7 DEF RemoveReverseDelete, TypeOK, Statuses, history
  <2>17. CASE OutOfIds(r)
    BY <2>17, <1>5 DEF OutOfIds, TypeOK, history
  <2> QED BY <1>8, <2>1, <2>2, <2>3, <2>4, <2>5, <2>6, <2>7, <2>8, <2>9, <2>10, <2>11, <2>12,
             <2>13, <2>14, <2>15, <2>16, <2>17 DEF Continue
<1>9. ASSUME NEW r \in Calls, AcceptDeadlock(r) PROVE TypeOK' /\ CallsOK'
  BY <1>5, <1>9 DEF AcceptDeadlock, TypeOK, history
<1>10. ASSUME NEW u \in Users, NEW k \in 1..Len(rooms), JoinRoom(u, k) PROVE TypeOK' /\ CallsOK'
  <2>1. rooms' \in Seq(SUBSET Users) /\ Len(rooms') = Len(rooms)
    BY <1>10 DEF JoinRoom, TypeOK
  <2> QED BY <1>10, <2>1 DEF JoinRoom, TypeOK, CallsOK, history
<1>11. ASSUME NEW u \in Users, CreateUserParticipant(u) PROVE TypeOK' /\ CallsOK'
  BY <1>11 DEF CreateUserParticipant, TypeOK, CallsOK, history
<1>12. ASSUME NEW u \in Users, CreateChatRoom(u) PROVE TypeOK' /\ CallsOK'
  <2>1. /\ rooms' \in Seq(SUBSET Users) /\ Len(rooms') = Len(rooms) + 1 /\ Len(rooms') <= MaxRooms
        /\ made' \subseteq 1..Len(rooms')
    BY <1>12 DEF CreateChatRoom, TypeOK
  <2> QED BY <1>12, <2>1 DEF CreateChatRoom, TypeOK, CallsOK, history
<1>13. CASE UNCHANGED vars
  BY <1>13 DEF vars, TypeOK, CallsOK
<1> QED BY <1>2, <1>8, <1>9, <1>10, <1>11, <1>12, <1>13 DEF Next

-----------------------------------------------------------------------------
\* The steps of Accept until its commit, which need the consent of both.
Accepting(r) == call[r].pc \in {"update", "insert", "commit"}

\* What a delete or a block does to the rows is harmless.
LEMMA RowWrites ==
    ASSUME TypeOK, NEW p \in Pairs, NEW i,
           Delete(p, i) \/ UpdateStatus(p, i, "blocked")
    PROVE  \A x \in Pairs : table'[x].st \in {table[x].st, "none", "blocked"}
<1>1. CASE Delete(p, i)
  BY <1>1 DEF TypeOK, Delete, NoRow
<1>2. CASE UpdateStatus(p, i, "blocked")
  <2>1. \A x \in Pairs : table'[x].st = table[x].st \/ table'[x].st = "blocked"
    BY <1>2 DEF TypeOK, UpdateStatus
  <2> QED BY <2>1
<1> QED BY <1>1, <1>2

\* Steps that neither send a request nor begin or complete an Accept.
LEMMA ConsentKept ==
    ASSUME Consent, FriendshipNeedsBoth,
           asked \subseteq asked', agreed \subseteq agreed',
           \A x \in Pairs : table'[x].st \in {table[x].st, "none", "blocked"},
           \A q \in Calls : Accepting(q)' => Accepting(q) /\ call'[q].pair = call[q].pair
                                                        /\ call'[q].me = call[q].me
    PROVE  Consent' /\ FriendshipNeedsBoth'
<1>1. Consent'
  BY DEF Consent, Accepting
<1>2. FriendshipNeedsBoth'
  BY DEF FriendshipNeedsBoth
<1> QED BY <1>1, <1>2

\* Only the addressee's Accept of a request that was sent makes friends.
LEMMA ConsentStep ==
    TypeOK /\ CallsOK /\ Consent /\ FriendshipNeedsBoth /\ [Next]_vars => Consent' /\ FriendshipNeedsBoth'
<1> SUFFICES ASSUME TypeOK, CallsOK, Consent, FriendshipNeedsBoth, [Next]_vars
             PROVE  Consent' /\ FriendshipNeedsBoth'
  OBVIOUS
<1>0. DOMAIN call = Calls
  BY DEF CallsOK
<1>1. ASSUME NEW r \in Calls, NEW p \in Pairs, NEW me, NEW i, NEW pc, Begin(r, pc, me, p, i),
             UNCHANGED <<table, nextId, roomVars>>,
             pc \in {"update", "insert", "commit"} => p \in asked /\ me = p[2]
      PROVE  Consent' /\ FriendshipNeedsBoth'
  BY <1>0, <1>1 DEF Begin, Consent, FriendshipNeedsBoth
<1>2. ASSUME NEW r \in Calls, Start(r) PROVE Consent' /\ FriendshipNeedsBoth'
  <2>1. PICK p \in Pairs : \/ ApplyFind(r, p) \/ AcceptFind(r, p) \/ BlockFind(r, p)
                           \/ CancelFind(r, p) \/ UnblockFind(r, p) \/ RemoveFind(r, p)
    BY <1>2 DEF Start
  <2>2. table[p].st = "pending" => p \in asked
    BY DEF Consent
  <2> QED BY <2>1, <2>2, <1>1 DEF ApplyFind, AcceptFind, BlockFind, CancelFind, UnblockFind, RemoveFind
<1>3. ASSUME NEW r \in Calls, Continue(r) PROVE Consent' /\ FriendshipNeedsBoth'
  <2> DEFINE p == call[r].pair
  <2>1. call[r].pc # "idle" => p \in Pairs /\ Reverse(p) \in Pairs /\ call[r] \in Request
    BY PairFacts DEF CallsOK, Returned, Request
  <2>2. Return(r) => \A q \in Calls : Accepting(q)' => Accepting(q) /\ call'[q] = call[q]
    BY <1>0 DEF Return, Accepting, Returned
  <2>3. ASSUME NEW pc, Goto(r, pc), Accepting(r) \/ pc \notin {"update", "insert", "commit"}
        PROVE  \A q \in Calls : Accepting(q)' => Accepting(q) /\ call'[q].pair = call[q].pair
                                                             /\ call'[q].me = call[q].me
    BY <1>0, <2>3 DEF Goto, Accepting
  <2>4. CASE ApplyCreate(r)
    <3>1. CASE table[p] = NoRow
      <4>1. p \in Pairs /\ p \in asked' /\ asked \subseteq asked' /\ agreed' = agreed
        BY <2>1, <2>4, <3>1 DEF ApplyCreate
      <4>2. \A x \in Pairs : table'[x] = IF x = p THEN [id |-> nextId, st |-> "pending"] ELSE table[x]
        BY <2>4, <3>1, <4>1 DEF ApplyCreate, CreateWithStatus, TypeOK
      <4>3. \A q \in Calls : Accepting(q)' => Accepting(q) /\ call'[q] = call[q]
        BY <2>2, <2>4 DEF ApplyCreate
      <4>4. Consent'
        BY <4>1, <4>2, <4>3 DEF Consent, Accepting
      <4>5. FriendshipNeedsBoth'
        BY <4>1, <4>2 DEF FriendshipNeedsBoth
      <4> QED BY <4>4, <4>5
    <3>2. CASE table[p] # NoRow
      BY <2>2, <2>4, <3>2, ConsentKept DEF ApplyCreate, history
    <3> QED BY <3>1, <3>2
  <2>5. CASE AcceptCommit(r)
    <3>1. p \in Pairs /\ Reverse(p) \in Pairs /\ p \in asked /\ call[r].me = p[2]
      BY <2>1, <2>5 DEF AcceptCommit, Consent
    <3>2. Reverse(p) \in agreed' /\ agreed \subseteq agreed' /\ asked' = asked
      BY <2>5, <3>1 DEF AcceptCommit, Reverse
    <3>3. \A x \in Pairs : x \notin {p, Reverse(p)} => table'[x] = table[x]
      BY <2>5, <3>1 DEF AcceptCommit, TypeOK
    <3>4. table'[Reverse(p)].st = "accepted"
      BY <2>5, <3>1 DEF AcceptCommit, TypeOK
    <3>5. Reverse(Reverse(p)) = p
      BY <3>1, PairFacts
    <3>6. FriendshipNeedsBoth'
      BY <3>1, <3>2, <3>3, <3>4, <3>5 DEF FriendshipNeedsBoth
    <3>7. Consent'
      <4>1. \A x \in Pairs : table'[x].st = "pending" => x \in asked'
        BY <3>1, <3>2, <3>3, <3>4 DEF Consent
      <4>2. \A q \in Calls : Accepting(q)' => Accepting(q) /\ call'[q].pair = call[q].pair
                                                          /\ call'[q].me = call[q].me
        BY <2>3, <2>5 DEF AcceptCommit
      <4> QED BY <3>2, <4>1, <4>2 DEF Consent, Accepting
    <3> QED BY <3>6, <3>7
  <2>6. CASE ApplyFindReverse(r) \/ AcceptInsert(r) \/ AcceptRoom(r)
    BY <2>2, <2>3, <2>6, ConsentKept DEF ApplyFindReverse, AcceptInsert, AcceptRoom, Accepting, history
  <2>7. CASE AcceptUpdate(r)
    <3>1. \A q \in Calls : Accepting(q)' => Accepting(q) /\ call'[q].pair = call[q].pair
                                                        /\ call'[q].me = call[q].me
      BY <1>0, <2>7 DEF AcceptUpdate, Accepting
    <3> QED BY <2>7, <3>1, ConsentKept DEF AcceptUpdate, history
  <2>8. CASE AcceptCreateRoom(r)
    <3>1. \A q \in Calls : Accepting(q)' => Accepting(q) /\ call'[q] = call[q]
      BY <1>0, <2>1, <2>2, <2>8 DEF AcceptCreateRoom, Accepting, Request
    <3> QED BY <2>8, <3>1, ConsentKept DEF AcceptCreateRoom
  <2>9. CASE AcceptAddRequester(r)
    BY <2>2, <2>9, ConsentKept DEF AcceptAddRequester
  <2>10. CASE BlockUpdate(r)
    BY <2>1, <2>3, <2>10, RowWrites, ConsentKept DEF BlockUpdate, history
  <2>11. CASE BlockCreate(r)
    <3>1. \A q \in Calls : Accepting(q)' => Accepting(q) /\ call'[q].pair = call[q].pair
                                                        /\ call'[q].me = call[q].me
      BY <2>2, <2>3, <2>11 DEF BlockCreate
    <3>2. \A x \in Pairs : table'[x].st \in {table[x].st, "none", "blocked"}
      BY <2>1, <2>11 DEF BlockCreate, CreateWithStatus, TypeOK
    <3> QED BY <2>11, <3>1, <3>2, ConsentKept DEF BlockCreate, history
  <2>12. CASE BlockReverse(r)
    <3>1. \A q \in Calls : Accepting(q)' => Accepting(q) /\ call'[q] = call[q]
      BY <1>0, <2>1, <2>2, <2>12 DEF BlockReverse, Accepting, Request
    <3> QED BY <2>12, <3>1, ConsentKept DEF BlockReverse
  <2>13. CASE BlockDelete(r)
    BY <2>1, <2>2, <2>13, RowWrites, ConsentKept DEF BlockDelete
  <2>14. CASE DeleteOwn(r)
    BY <2>1, <2>2, <2>14, RowWrites, ConsentKept DEF DeleteOwn
  <2>15. CASE RemoveDelete(r)
    BY <2>1, <2>3, <2>15, RowWrites, ConsentKept DEF RemoveDelete
  <2>16. CASE RemoveReverse(r)
    <3>1. \A q \in Calls : Accepting(q)' => Accepting(q) /\ call'[q] = call[q]
      BY <1>0, <2>1, <2>2, <2>16 DEF RemoveReverse, Accepting, Request
    <3> QED BY <2>16, <3>1, ConsentKept DEF RemoveReverse, history
  <2>17. CASE RemoveReverseDelete(r)
    BY <2>1, <2>2, <2>17, RowWrites, ConsentKept DEF RemoveReverseDelete, history
  <2>18. CASE OutOfIds(r)
    BY <2>2, <2>18, ConsentKept DEF OutOfIds, history
  <2> QED BY <1>3, <2>4, <2>5, <2>6, <2>7, <2>8, <2>9, <2>10, <2>11, <2>12,
             <2>13, <2>14, <2>15, <2>16, <2>17, <2>18 DEF Continue
<1>4. ASSUME NEW r \in Calls, AcceptDeadlock(r) PROVE Consent' /\ FriendshipNeedsBoth'
  <2>1. \A q \in Calls : Accepting(q)' => Accepting(q) /\ call'[q] = call[q]
    BY <1>0, <1>4 DEF AcceptDeadlock, Return, Accepting, Returned
  <2> QED BY <1>4, <2>1, ConsentKept DEF AcceptDeadlock, history
<1>5. ASSUME UNCHANGED <<table, call, asked, agreed>> PROVE Consent' /\ FriendshipNeedsBoth'
  BY <1>5 DEF Consent, FriendshipNeedsBoth
<1> QED BY <1>2, <1>3, <1>4, <1>5
        DEF Next, CreateUserParticipant, CreateChatRoom, JoinRoom, vars, history

-----------------------------------------------------------------------------
\* The rows of a pair are consistent seen from either side.
LEMMA Symmetric == ASSUME TypeOK, NEW p \in Pairs PROVE Consistent(p) <=> Consistent(Reverse(p))
<1>1. /\ Reverse(p) \in Pairs /\ Reverse(Reverse(p)) = p
      /\ Reverse(p)[1] = p[2] /\ Reverse(p)[2] = p[1]
      /\ Reverse(p) = p <=> p[1] = p[2]
  BY PairFacts
<1> QED BY <1>1 DEF Consistent

\* The only call in progress goes on: what has to be shown of its pair.
LEMMA OrderlyFrom ==
    ASSUME TypeOK', Rows, Alone, Settled,
           NEW r \in Calls, NEW p \in Pairs, p = call[r].pair, call[r].pc # "idle",
           \A q \in Calls : q # r => call'[q] = call[q],
           \A x \in Pairs : x \notin {p, Reverse(p)} =>
                                table'[x] = table[x] /\ (x \in blocking' => x \in blocking),
           \A x \in {p, Reverse(p)} :
               /\ table'[x].st = "none" <=> table'[x].id = 0
               /\ x \in blocking' => table'[x].st \in {"none", "blocked"},
           (HalfDone(r)' /\ call'[r].pair = p) \/ Consistent(p)',
           View(r)'
    PROVE  Rows' /\ Alone' /\ Settled' /\ \A q \in Calls : View(q)'
<1>0. Reverse(p) \in Pairs /\ Reverse(Reverse(p)) = p
  BY PairFacts
<1>1. \A q \in Calls : q # r => call[q].pc = "idle" /\ call'[q].pc = "idle"
  BY DEF Alone
<1>2. Alone' /\ \A q \in Calls : View(q)'
  BY <1>1 DEF Alone, View
<1>3. Rows'
  BY DEF Rows
<1>4. ASSUME NEW x \in Pairs
      PROVE  Consistent(x)' \/ \E q \in Calls : HalfDone(q)' /\ x \in About(q)'
  <2>1. CASE x \in {p, Reverse(p)}
    <3>1. CASE HalfDone(r)' /\ call'[r].pair = p
      BY <2>1, <3>1 DEF About
    <3>2. CASE Consistent(p)'
      <4>1. Consistent(Reverse(p))'
        BY <3>2, Symmetric, PTL
      <4> QED BY <2>1, <3>2, <4>1
    <3> QED BY <3>1, <3>2
  <2>2. CASE x \notin {p, Reverse(p)}
    <3>1. Reverse(x) \in Pairs /\ Reverse(x) \notin {p, Reverse(p)}
      BY <2>2, <1>0, PairFacts
    <3>2. Consistent(x)
      BY <1>1, <2>2 DEF Settled, HalfDone, About
    <3> QED BY <2>2, <3>1, <3>2 DEF Consistent
  <2> QED BY <2>1, <2>2
<1> QED BY <1>2, <1>3, <1>4 DEF Settled

\* Between calls that do not overlap every pair is consistent, and the only call
\* in progress knows what it is doing.
LEMMA OrderlyStep ==
    TypeOK /\ CallsOK /\ Orderly /\ TypeOK' /\ [Next]_vars => Orderly'
<1> SUFFICES ASSUME TypeOK, CallsOK, Orderly, TypeOK', [Next]_vars, orderly'
             PROVE  Rows' /\ Alone' /\ Settled' /\ \A r \in Calls : View(r)'
  BY DEF Orderly
<1>0. DOMAIN call = Calls
  BY DEF CallsOK
<1> DEFINE Goal == Rows' /\ Alone' /\ Settled' /\ \A r \in Calls : View(r)'
<1>1. ASSUME NEW r \in Calls, Start(r) PROVE Goal
  <2>1. PICK p \in Pairs : \/ ApplyFind(r, p) \/ AcceptFind(r, p) \/ BlockFind(r, p)
                           \/ CancelFind(r, p) \/ UnblockFind(r, p) \/ RemoveFind(r, p)
    BY <1>1 DEF Start
  <2>2. UNCHANGED <<table, blocking>> /\ orderly /\ \A q \in Calls : call[q].pc = "idle"
    BY <2>1 DEF ApplyFind, AcceptFind, BlockFind, CancelFind, UnblockFind, RemoveFind, Begin
  <2>3. \A q \in Calls : q # r => call'[q] = call[q]
    BY <1>0, <2>1 DEF ApplyFind, AcceptFind, BlockFind, CancelFind, UnblockFind, RemoveFind, Begin
  <2>4. Rows /\ Settled
    BY <2>2 DEF Orderly
  <2>5. \A x \in Pairs : Consistent(x)'
    BY <2>2, <2>4 DEF Settled, HalfDone, Consistent
  <2>6. Rows' /\ Alone' /\ Settled'
    BY <2>2, <2>3, <2>4, <2>5 DEF Rows, Alone, Settled
  <2>7. View(r)'
    <3>1. table[p] = NoRow <=> table[p].st = "none"
      BY <2>4 DEF Rows, NoRow, TypeOK
    <3>2. CASE ApplyFind(r, p)
      BY <1>0, <2>2, <3>1, <3>2 DEF ApplyFind, Begin, View, FindByUserIDAndFriendID
    <3>3. CASE AcceptFind(r, p)
      BY <1>0, <2>2, <3>1, <3>3 DEF AcceptFind, Begin, View
    <3>4. CASE BlockFind(r, p)
      BY <1>0, <2>2, <3>1, <3>4 DEF BlockFind, Begin, View
    <3>5. CASE CancelFind(r, p)
      BY <1>0, <2>2, <3>1, <3>5 DEF CancelFind, Begin, View
    <3>6. CASE UnblockFind(r, p)
      BY <1>0, <2>2, <3>1, <3>6 DEF UnblockFind, Begin, View
    <3>7. CASE RemoveFind(r, p)
      BY <1>0, <2>2, <3>1, <3>7 DEF RemoveFind, Begin, View
    <3> QED BY <2>1, <3>2, <3>3, <3>4, <3>5, <3>6, <3>7
  <2>8. \A q \in Calls : q # r => View(q)'
    BY <2>2, <2>3 DEF View
  <2> QED BY <2>6, <2>7, <2>8
<1>2. ASSUME NEW r \in Calls, Continue(r) PROVE Goal
  <2>1. orderly
    BY <1>2 DEF Continue, ApplyFindReverse, ApplyCreate, AcceptUpdate, AcceptInsert, AcceptCommit,
        AcceptRoom, AcceptCreateRoom, AcceptAddRequester, BlockUpdate, BlockCreate, BlockReverse,
        BlockDelete, DeleteOwn, RemoveDelete, RemoveReverse, RemoveReverseDelete, OutOfIds, history
  <2>2. Rows /\ Alone /\ Settled /\ View(r)
    BY <2>1 DEF Orderly
  <2>3. call[r].pc # "idle"
    BY <1>2 DEF Continue, ApplyFindReverse, ApplyCreate, AcceptUpdate, AcceptInsert, AcceptCommit,
        AcceptRoom, AcceptCreateRoom, AcceptAddRequester, BlockUpdate, BlockCreate, BlockReverse,
        BlockDelete, DeleteOwn, RemoveDelete, RemoveReverse, RemoveReverseDelete, OutOfIds
  <2>4. call[r] \in Request
    BY <2>3 DEF CallsOK, Returned
  <2>5. PICK p \in Pairs, q \in Pairs :
            /\ p = call[r].pair /\ q = Reverse(p) /\ Reverse(q) = p
            /\ q[1] = p[2] /\ q[2] = p[1] /\ (q = p <=> p[1] = p[2])
    BY <2>4, PairFacts DEF Request
  <2> USE <2>5
  <2>6. ~HalfDone(r) => Consistent(p)
    BY <2>2, <2>3 DEF Settled, Alone, HalfDone
  <2>7. \A x \in {p, q} : /\ table[x] = NoRow <=> table[x].st = "none"
                          /\ table[x].st = "none" <=> table[x].id = 0
                          /\ x \in blocking => table[x].st \in {"none", "blocked"}
                          /\ table[x] \in [id : 0..MaxId, st : Statuses]
    BY <2>2 DEF Rows, NoRow, TypeOK, Statuses
  <2>8. /\ \A x \in Calls : x # r => call'[x] = call[x]
    BY <1>0, <1>2 DEF Continue, ApplyFindReverse, ApplyCreate, AcceptUpdate, AcceptInsert, AcceptCommit,
        AcceptRoom, AcceptCreateRoom, AcceptAddRequester, BlockUpdate, BlockCreate, BlockReverse,
        BlockDelete, DeleteOwn, RemoveDelete, RemoveReverse, RemoveReverseDelete, OutOfIds, Goto, Return
  <2>9. ASSUME UNCHANGED <<table, blocking>>, ~HalfDone(r), View(r)' PROVE Goal
    BY <2>2, <2>3, <2>6, <2>7, <2>8, <2>9, OrderlyFrom DEF Consistent
  <2>10. Return(r) => View(r)' /\ call'[r].pc = "idle"
    BY <1>0 DEF Return, Returned, View
  <2>11. ASSUME NEW pc, Goto(r, pc)
         PROVE  call'[r].pc = pc /\ call'[r].pair = p /\ call'[r].id = call[r].id /\ call'[r].held = call[r].held
    BY <1>0, <2>4, <2>11 DEF Goto, Request
  <2>12. CASE ApplyFindReverse(r)
    <3>1. View(r)'
      BY <2>2, <2>4, <2>7, <2>10, <2>11, <2>12
      DEF ApplyFindReverse, View, Request, FindByUserIDAndFriendID
    <3> QED BY <2>9, <2>12, <3>1 DEF ApplyFindReverse, HalfDone, history
  <2>13. CASE AcceptUpdate(r)
    <3>1. /\ call'[r].pc = "insert" /\ call'[r].pair = p /\ call'[r].id = call[r].id
          /\ call'[r].held = FindByID(p, call[r].id)
      BY <1>0, <2>4, <2>13 DEF AcceptUpdate, Request
    <3>2. View(r)'
      BY <2>2, <2>4, <2>7, <2>13, <3>1 DEF AcceptUpdate, View, Request, FindByID
    <3> QED BY <2>9, <2>13, <3>2 DEF AcceptUpdate, HalfDone, history
  <2>14. CASE AcceptInsert(r)
    <3>1. View(r)'
      BY <2>2, <2>4, <2>7, <2>10, <2>11, <2>14 DEF AcceptInsert, View, Request
    <3> QED BY <2>9, <2>14, <3>1 DEF AcceptInsert, HalfDone, history
  <2>15. CASE AcceptRoom(r)
    <3>1. View(r)'
      BY <2>2, <2>4, <2>10, <2>11, <2>15 DEF AcceptRoom, View, Request
    <3> QED BY <2>9, <2>15, <3>1 DEF AcceptRoom, HalfDone, history
  <2>16. CASE AcceptCreateRoom(r)
    <3>1. call'[r].pc = "idle" \/ (call'[r].pc = "addRequester" /\ call'[r].pair = p)
      BY <1>0, <2>4, <2>16 DEF AcceptCreateRoom, Return, Returned, Request
    <3>2. View(r)'
      BY <2>2, <2>4, <2>16, <3>1 DEF AcceptCreateRoom, View, Request, Returned
    <3> QED BY <2>9, <2>16, <3>2 DEF AcceptCreateRoom, HalfDone
  <2>17. CASE AcceptAddRequester(r) \/ OutOfIds(r)
    BY <2>9, <2>10, <2>17 DEF AcceptAddRequester, OutOfIds, HalfDone, history
  <2>18. CASE ApplyCreate(r)
    <3>1. table[p] = NoRow /\ table[p].st = "none" /\ table[q].st = "none"
      BY <2>2, <2>7, <2>18 DEF ApplyCreate, View
    <3>2. table' = [table EXCEPT ![p] = [id |-> nextId, st |-> "pending"]] /\ blocking' = blocking \ {p}
      BY <2>18, <3>1 DEF ApplyCreate, CreateWithStatus, Acts
    <3>3. \A x \in Pairs : table'[x] = IF x = p THEN [id |-> nextId, st |-> "pending"] ELSE table[x]
      BY <3>2 DEF TypeOK
    <3>4. Consistent(p)'
      BY <3>1, <3>3 DEF Consistent
    <3>5. nextId # 0
      BY DEF TypeOK
    <3> QED BY <2>2, <2>3, <2>7, <2>8, <2>10, <2>18, <3>2, <3>3, <3>4, <3>5, OrderlyFrom DEF ApplyCreate
  <2>19. CASE AcceptCommit(r)
    <3>1. table[p].st = "pending" /\ call[r].held /\ p # q
      BY <2>2, <2>19 DEF AcceptCommit, View
    <3>2. \A x \in Pairs : table'[x] = IF x = p THEN [table[p] EXCEPT !.st = "accepted"]
                          ELSE IF x = q THEN [id |-> nextId, st |-> "accepted"] ELSE table[x]
      BY <2>19, <3>1 DEF AcceptCommit, TypeOK
    <3>3. table'[p].st = "accepted" /\ table'[p].id = table[p].id /\ table'[q].st = "accepted" /\ table'[q].id = nextId
      BY <2>7, <3>1, <3>2
    <3>4. Consistent(p)'
      BY <3>1, <3>3 DEF Consistent
    <3>5. nextId # 0 /\ blocking' = blocking \ {q} /\ p \notin blocking
      BY <2>7, <2>19, <3>1 DEF TypeOK, AcceptCommit, Acts
    <3>6. View(r)'
      <4>1. call'[r].pc = "findRoom" /\ call'[r].pair = p
        BY <2>11, <2>19 DEF AcceptCommit
      <4> QED BY <3>1, <4>1 DEF View
    <3> QED BY <2>2, <2>3, <2>7, <2>8, <3>1, <3>2, <3>3, <3>4, <3>5, <3>6, OrderlyFrom
  <2>20. CASE BlockUpdate(r)
    <3>1. table[p].st # "none" /\ table[p].id = call[r].id
      BY <2>2, <2>20 DEF BlockUpdate, View
    <3>2. \A x \in Pairs : table'[x] = IF x = p THEN [table[p] EXCEPT !.st = "blocked"] ELSE table[x]
      BY <2>20, <3>1 DEF BlockUpdate, UpdateStatus, TypeOK
    <3>3. table'[p].st = "blocked" /\ table'[p].id = table[p].id
      BY <2>7, <3>2
    <3>4. View(r)' /\ HalfDone(r)' /\ call'[r].pair = p
      BY <2>4, <2>11, <2>20, <3>3 DEF BlockUpdate, View, HalfDone, Request
    <3> QED BY <2>2, <2>3, <2>7, <2>8, <2>20, <3>1, <3>2, <3>3, <3>4, OrderlyFrom DEF BlockUpdate, history
  <2>21. CASE BlockCreate(r)
    <3>1. table[p].st = "none" /\ table[p] = NoRow
      BY <2>2, <2>7, <2>21 DEF BlockCreate, View
    <3>2. \A x \in Pairs : table'[x] = IF x = p THEN [id |-> nextId, st |-> "blocked"] ELSE table[x]
      BY <2>21, <3>1 DEF BlockCreate, CreateWithStatus, TypeOK
    <3>3. View(r)' /\ HalfDone(r)' /\ call'[r].pair = p
      BY <2>4, <2>11, <2>21, <3>1, <3>2 DEF BlockCreate, View, HalfDone, Request
    <3>4. nextId # 0
      BY DEF TypeOK
    <3> QED BY <2>2, <2>3, <2>7, <2>8, <2>21, <3>1, <3>2, <3>3, <3>4, OrderlyFrom DEF BlockCreate, history
  <2>22. CASE BlockReverse(r)
    <3>1. table[p].st = "blocked" /\ UNCHANGED table
      BY <2>2, <2>22 DEF BlockReverse, View
    <3>2. CASE table[q] = NoRow
      <4>1. Consistent(p)' /\ blocking' = blocking \cup {p} /\ View(r)'
        BY <2>7, <2>10, <2>22, <3>1, <3>2 DEF BlockReverse, Consistent, FindByUserIDAndFriendID
      <4> QED BY <2>2, <2>3, <2>7, <2>8, <3>1, <4>1, OrderlyFrom
    <3>3. CASE table[q] # NoRow
      <4>1. call'[r].pc = "blockDelete" /\ call'[r].pair = p /\ call'[r].id = table[q].id /\ UNCHANGED blocking
        BY <1>0, <2>4, <2>22, <3>3 DEF BlockReverse, FindByUserIDAndFriendID, Request
      <4>2. View(r)' /\ HalfDone(r)' /\ call'[r].pair = p
        BY <2>4, <3>1, <4>1 DEF View, HalfDone, Request
      <4> QED BY <2>2, <2>3, <2>7, <2>8, <3>1, <4>1, <4>2, OrderlyFrom
    <3> QED BY <3>2, <3>3
  <2>23. CASE BlockDelete(r)
    <3>1. table[p].st = "blocked" /\ call[r].id = table[q].id
      BY <2>2, <2>23 DEF BlockDelete, View
    <3>2. blocking' = blocking \cup {p} /\ View(r)'
      BY <2>10, <2>23 DEF BlockDelete
    <3>3. \A x \in Pairs : table'[x] = IF x = q THEN NoRow ELSE table[x]
      BY <2>23, <3>1 DEF BlockDelete, Delete, TypeOK
    <3>4. Consistent(p)'
      BY <3>1, <3>3 DEF Consistent, NoRow
    <3> QED BY <2>2, <2>3, <2>7, <2>8, <3>1, <3>2, <3>3, <3>4, OrderlyFrom DEF NoRow
  <2>24. CASE DeleteOwn(r)
    <3>1. table[p].st \in {"pending", "blocked"} /\ call[r].id = table[p].id
      BY <2>2, <2>24 DEF DeleteOwn, View
    <3>2. blocking' = blocking \ {p} /\ View(r)'
      BY <2>10, <2>24 DEF DeleteOwn, Acts
    <3>3. \A x \in Pairs : table'[x] = IF x = p THEN NoRow ELSE table[x]
      BY <2>24, <3>1 DEF DeleteOwn, Delete, TypeOK
    <3>4. Consistent(p)'
      BY <2>6, <2>24, <3>1, <3>3 DEF Consistent, NoRow, DeleteOwn, HalfDone
    <3> QED BY <2>2, <2>3, <2>7, <2>8, <3>1, <3>2, <3>3, <3>4, OrderlyFrom DEF NoRow
  <2>25. CASE RemoveDelete(r)
    <3>1. call[r].id = table[p].id
      BY <2>2, <2>25 DEF RemoveDelete, View
    <3>2. blocking' \subseteq blocking
      BY <2>25 DEF RemoveDelete, Acts
    <3>3. \A x \in Pairs : table'[x] = IF x = p THEN NoRow ELSE table[x]
      BY <2>25, <3>1 DEF RemoveDelete, Delete, TypeOK
    <3>4. View(r)' /\ HalfDone(r)' /\ call'[r].pair = p
      BY <2>4, <2>11, <2>25, <3>3 DEF RemoveDelete, View, HalfDone, Request, NoRow
    <3> QED BY <2>2, <2>3, <2>7, <2>8, <3>2, <3>3, <3>4, OrderlyFrom DEF NoRow
  <2>26. CASE RemoveReverse(r)
    <3>1. table[p].st = "none" /\ UNCHANGED <<table, blocking>>
      BY <2>2, <2>26 DEF RemoveReverse, View, history
    <3>2. CASE table[q] = NoRow
      <4>1. Consistent(p)' /\ View(r)'
        BY <2>7, <2>10, <2>26, <3>1, <3>2 DEF RemoveReverse, Consistent
      <4> QED BY <2>2, <2>3, <2>7, <2>8, <3>1, <4>1, OrderlyFrom
    <3>3. CASE table[q] # NoRow
      <4>1. call'[r].pc = "removeReverseDelete" /\ call'[r].pair = p /\ call'[r].id = table[q].id
        BY <1>0, <2>4, <2>26, <3>3 DEF RemoveReverse, Request
      <4>2. View(r)' /\ HalfDone(r)' /\ call'[r].pair = p
        BY <2>4, <3>1, <4>1 DEF View, HalfDone, Request
      <4> QED BY <2>2, <2>3, <2>7, <2>8, <3>1, <4>1, <4>2, OrderlyFrom
    <3> QED BY <3>2, <3>3
  <2>27. CASE RemoveReverseDelete(r)
    <3>1. table[p].st = "none" /\ call[r].id = table[q].id
      BY <2>2, <2>27 DEF RemoveReverseDelete, View
    <3>2. UNCHANGED blocking /\ View(r)'
      BY <2>10, <2>27 DEF RemoveReverseDelete, history
    <3>3. \A x \in Pairs : table'[x] = IF x = q THEN NoRow ELSE table[x]
      BY <2>27, <3>1 DEF RemoveReverseDelete, Delete, TypeOK
    <3>4. Consistent(p)'
      BY <3>1, <3>3 DEF Consistent, NoRow
    <3> QED BY <2>2, <2>3, <2>7, <2>8, <3>1, <3>2, <3>3, <3>4, OrderlyFrom DEF NoRow
  <2> QED BY <1>2, <2>12, <2>13, <2>14, <2>15, <2>16, <2>17, <2>18, <2>19, <2>20, <2>21, <2>22,
             <2>23, <2>24, <2>25, <2>26, <2>27 DEF Continue
<1>3. ASSUME NEW r \in Calls, AcceptDeadlock(r) PROVE Goal
  <2>1. orderly /\ \E q \in Calls : Crossed(q, r)
    BY <1>3 DEF AcceptDeadlock, history
  <2> QED BY <2>1 DEF Crossed, Orderly, Alone
<1>4. ASSUME UNCHANGED <<table, call, blocking, orderly>> PROVE Goal
  BY <1>4 DEF Orderly, Rows, Alone, Settled, View, Consistent, HalfDone, About
<1> QED BY <1>1, <1>2, <1>3, <1>4
        DEF Next, CreateUserParticipant, CreateChatRoom, JoinRoom, vars, history

-----------------------------------------------------------------------------
\* The steps of Accept after its commit.
Rooming(r) == call[r].pc \in {"findRoom", "createRoom", "addRequester"}

\* Steps that make no friends and leave the rooms, and who is creating one, alone.
LEMMA RoomsKept ==
    ASSUME RoomsOrderly, orderly, UNCHANGED roomVars,
           \A x \in Pairs : table'[x].st = "accepted" => table[x].st = "accepted",
           \A q \in Calls : Rooming(q) \/ Rooming(q)' => call'[q] = call[q]
    PROVE  RoomsOrderly'
<1>1. \A x \in Pairs : table'[x].st = "accepted" =>
               \/ \E k \in 1..Len(rooms) : RoomOf(k, x)
               \/ {x[1], x[2]} \in roomless
               \/ \E r \in Calls : Rooming(r)' /\ x \in About(r)'
  BY DEF RoomsOrderly, Rooming, About
<1>2. \A r \in Calls : Creating(r)' => \A k \in made : ~RoomOf(k, call'[r].pair)
  BY DEF RoomsOrderly, Rooming, Creating
<1>3. \A r \in Calls : call'[r].pc = "addRequester" =>
               call'[r].id \in made /\ rooms[call'[r].id] = {call'[r].pair[2]}
  BY DEF RoomsOrderly, Rooming
<1>4. \A x \in Pairs : x[1] # x[2] => \A j, k \in made : RoomOf(j, x) /\ RoomOf(k, x) => j = k
  BY DEF RoomsOrderly
<1>5. UNCHANGED <<rooms, made, roomless>>
  BY DEF roomVars
<1>6. \A x \in Pairs, k \in 1..Len(rooms) \cup made : RoomOf(k, x)' <=> RoomOf(k, x)
  BY <1>5 DEF RoomOf
<1>7. \A r \in Calls, k \in made : Creating(r)' => ~({call'[r].pair[1], call'[r].pair[2]} \subseteq rooms[k])
  BY <1>2 DEF RoomOf
<1>8. \A x \in Pairs : table'[x].st = "accepted" =>
               \/ \E k \in 1..Len(rooms') : RoomOf(k, x)'
               \/ {x[1], x[2]} \in roomless'
               \/ \E r \in Calls : Rooming(r)' /\ x \in About(r)'
  BY <1>1, <1>5, <1>6
<1>9. \A x \in Pairs : x[1] # x[2] => \A j, k \in made' : RoomOf(j, x)' /\ RoomOf(k, x)' => j = k
  BY <1>4, <1>5, <1>6
<1>10. \A r \in Calls : Creating(r)' => \A k \in made' : ~RoomOf(k, call[r].pair)'
  BY <1>5, <1>7 DEF RoomOf
<1>11. \A r \in Calls : call'[r].pc = "addRequester" =>
               call'[r].id \in made' /\ rooms'[call'[r].id] = {call'[r].pair[2]}
  BY <1>3, <1>5
<1> QED BY <1>8, <1>9, <1>10, <1>11 DEF RoomsOrderly, Rooming

\* Calls that do not overlap give every pair of friends one room.
LEMMA RoomsStep ==
    TypeOK /\ CallsOK /\ Orderly /\ RoomsOrderly /\ [Next]_vars => RoomsOrderly'
<1> SUFFICES ASSUME TypeOK, CallsOK, Orderly, RoomsOrderly, [Next]_vars, orderly' PROVE RoomsOrderly'
  BY DEF RoomsOrderly
<1> USE DEF roomVars
<1>0. DOMAIN call = Calls
  BY DEF CallsOK
<1>1. ASSUME NEW r \in Calls, Start(r) PROVE RoomsOrderly'
  <2>1. PICK p, pc, me, i : /\ p \in Pairs /\ Begin(r, pc, me, p, i)
                              /\ ~(pc \in {"findRoom", "createRoom", "addRequester"})
                              /\ UNCHANGED <<table, roomVars>>
    BY <1>1 DEF Start, ApplyFind, AcceptFind, BlockFind, CancelFind, UnblockFind, RemoveFind
  <2>2. \A q \in Calls : Rooming(q) \/ Rooming(q)' => call'[q] = call[q]
    BY <1>0, <2>1 DEF Begin, Rooming
  <2> QED BY <2>1, <2>2, RoomsKept DEF Begin
<1>2. ASSUME NEW r \in Calls, Continue(r) PROVE RoomsOrderly'
  <2>1. orderly
    BY <1>2 DEF Continue, ApplyFindReverse, ApplyCreate, AcceptUpdate, AcceptInsert, AcceptCommit,
        AcceptRoom, AcceptCreateRoom, AcceptAddRequester, BlockUpdate, BlockCreate, BlockReverse,
        BlockDelete, DeleteOwn, RemoveDelete, RemoveReverse, RemoveReverseDelete, OutOfIds, history
  <2>2. Alone /\ View(r)
    BY <2>1 DEF Orderly
  <2>3. call[r].pc # "idle"
    BY <1>2 DEF Continue, ApplyFindReverse, ApplyCreate, AcceptUpdate, AcceptInsert, AcceptCommit,
        AcceptRoom, AcceptCreateRoom, AcceptAddRequester, BlockUpdate, BlockCreate, BlockReverse,
        BlockDelete, DeleteOwn, RemoveDelete, RemoveReverse, RemoveReverseDelete, OutOfIds
  <2>4. call[r] \in Request
    BY <2>3 DEF CallsOK, Returned
  <2>5. PICK p \in Pairs, q \in Pairs :
            /\ p = call[r].pair /\ q = Reverse(p) /\ Reverse(q) = p
            /\ q[1] = p[2] /\ q[2] = p[1] /\ (q = p <=> p[1] = p[2])
    BY <2>4, PairFacts DEF Request
  <2> USE <2>5
  <2>6. \A x \in Calls : x # r => call'[x] = call[x] /\ ~Rooming(x) /\ ~Rooming(x)'
    <3>1. \A x \in Calls : x # r => call'[x] = call[x]
      BY <1>0, <1>2 DEF Continue, ApplyFindReverse, ApplyCreate, AcceptUpdate, AcceptInsert, AcceptCommit,
          AcceptRoom, AcceptCreateRoom, AcceptAddRequester, BlockUpdate, BlockCreate, BlockReverse,
          BlockDelete, DeleteOwn, RemoveDelete, RemoveReverse, RemoveReverseDelete, OutOfIds, Goto, Return
    <3> QED BY <2>2, <2>3, <3>1 DEF Alone, Rooming
  <2>7. Return(r) => ~Rooming(r)'
    BY <1>0 DEF Return, Returned, Rooming
  <2>8. ASSUME NEW pc, Goto(r, pc) PROVE call'[r].pc = pc /\ call'[r].pair = p
    BY <1>0, <2>4, <2>8 DEF Goto, Request
  <2>9. ASSUME ~Rooming(r), ~Rooming(r)', UNCHANGED roomVars,
               \A x \in Pairs : table'[x].st = "accepted" => table[x].st = "accepted"
        PROVE  RoomsOrderly'
    BY <2>1, <2>6, <2>9, RoomsKept
  <2>10. CASE ApplyFindReverse(r) \/ AcceptInsert(r) \/ OutOfIds(r)
    <3>1. ~Rooming(r) /\ ~Rooming(r)'
      BY <2>7, <2>8, <2>10 DEF ApplyFindReverse, AcceptInsert, OutOfIds, Rooming
    <3> QED BY <2>9, <2>10, <3>1 DEF ApplyFindReverse, AcceptInsert, OutOfIds
  <2>11. CASE AcceptUpdate(r)
    <3>1. ~Rooming(r) /\ ~Rooming(r)'
      BY <1>0, <2>4, <2>11 DEF AcceptUpdate, Rooming, Request
    <3> QED BY <2>9, <2>11, <3>1 DEF AcceptUpdate
  <2>12. CASE ApplyCreate(r)
    <3>1. ~Rooming(r) /\ ~Rooming(r)'
      BY <2>7, <2>12 DEF ApplyCreate, Rooming
    <3>2. \A x \in Pairs : table'[x].st = "accepted" => table[x].st = "accepted"
      <4>1. table' = table \/ table' = [table EXCEPT ![p] = [id |-> nextId, st |-> "pending"]]
        BY <2>12 DEF ApplyCreate, CreateWithStatus
      <4>2. \A x \in Pairs : table'[x] = table[x] \/ table'[x] = [id |-> nextId, st |-> "pending"]
        BY <4>1 DEF TypeOK
      <4> QED BY <4>2
    <3> QED BY <2>9, <2>12, <3>1, <3>2 DEF ApplyCreate
  <2>13. CASE BlockCreate(r)
    <3>1. ~Rooming(r) /\ ~Rooming(r)'
      BY <2>7, <2>8, <2>13 DEF BlockCreate, Rooming
    <3>2. \A x \in Pairs : table'[x].st = "accepted" => table[x].st = "accepted"
      <4>1. table' = table \/ table' = [table EXCEPT ![p] = [id |-> nextId, st |-> "blocked"]]
        BY <2>13 DEF BlockCreate, CreateWithStatus
      <4>2. \A x \in Pairs : table'[x] = table[x] \/ table'[x] = [id |-> nextId, st |-> "blocked"]
        BY <4>1 DEF TypeOK
      <4> QED BY <4>2
    <3> QED BY <2>9, <2>13, <3>1, <3>2 DEF BlockCreate
  <2>14. CASE BlockReverse(r) \/ RemoveReverse(r)
    <3>1. ~Rooming(r) /\ ~Rooming(r)'
      BY <1>0, <2>4, <2>7, <2>14 DEF BlockReverse, RemoveReverse, Rooming, Request
    <3> QED BY <2>9, <2>14, <3>1 DEF BlockReverse, RemoveReverse
  <2>15. CASE BlockUpdate(r) \/ RemoveDelete(r)
    <3>1. ~Rooming(r) /\ ~Rooming(r)'
      <4>1. call[r].pc \in {"blockUpdate", "remove"} /\ call'[r].pc \in {"blockReverse", "removeReverse"}
        BY <2>8, <2>15 DEF BlockUpdate, RemoveDelete
      <4> QED BY <4>1 DEF Rooming
    <3>2. \A x \in Pairs : table'[x].st \in {table[x].st, "none", "blocked"}
      BY <2>15, RowWrites DEF BlockUpdate, RemoveDelete
    <3> QED BY <2>9, <2>15, <3>1, <3>2 DEF BlockUpdate, RemoveDelete
  <2>16. CASE BlockDelete(r) \/ DeleteOwn(r) \/ RemoveReverseDelete(r)
    <3>1. ~Rooming(r) /\ ~Rooming(r)'
      BY <2>7, <2>16 DEF BlockDelete, DeleteOwn, RemoveReverseDelete, Rooming
    <3>2. \A x \in Pairs : table'[x].st \in {table[x].st, "none", "blocked"}
      BY <2>16, RowWrites DEF BlockDelete, DeleteOwn, RemoveReverseDelete
    <3> QED BY <2>9, <2>16, <3>1, <3>2 DEF BlockDelete, DeleteOwn, RemoveReverseDelete
  <2>17. CASE AcceptCommit(r)
    <3>1. call'[r].pc = "findRoom" /\ call'[r].pair = p /\ UNCHANGED <<rooms, made, roomless>>
      BY <2>8, <2>17 DEF AcceptCommit
    <3>2. \A x \in Pairs : x \notin {p, q} => table'[x] = table[x]
      BY <2>17 DEF AcceptCommit, TypeOK
    <3>3. Rooming(r)' /\ About(r)' = {p, q}
      BY <3>1 DEF Rooming, About
    <3>4. \A x \in Pairs : table'[x].st = "accepted" =>
               \/ \E k \in 1..Len(rooms) : RoomOf(k, x)
               \/ {x[1], x[2]} \in roomless
               \/ \E y \in Calls : Rooming(y)' /\ x \in About(y)'
      <4>1. ~Rooming(r)
        BY <2>17 DEF Rooming, AcceptCommit
      <4> QED BY <2>1, <2>6, <3>2, <3>3, <4>1 DEF RoomsOrderly, Rooming
    <3>5. \A y \in Calls : ~Creating(y)' /\ call'[y].pc # "addRequester"
      BY <2>6, <3>1 DEF Creating, Rooming
    <3> QED BY <2>1, <3>1, <3>4, <3>5 DEF RoomsOrderly, Rooming, RoomOf
  <2>18. CASE AcceptRoom(r)
    <3>1. UNCHANGED <<table, rooms, made>> /\ call[r].pc = "findRoom"
      BY <2>18 DEF AcceptRoom
    <3>2. {q[1], q[2]} = {p[1], p[2]}
      OBVIOUS
    <3>3. \A x \in Pairs : table[x].st = "accepted" =>
               \/ \E k \in 1..Len(rooms) : RoomOf(k, x)
               \/ {x[1], x[2]} \in roomless
               \/ x \in {p, q}
      BY <2>1, <2>6 DEF RoomsOrderly, Rooming, About
    <3>4. CASE ~({p[1], p[2]} \subseteq participants)
      <4>1. ~Rooming(r)' /\ roomless' = roomless \cup {{p[1], p[2]}}
        BY <2>7, <2>18, <3>4 DEF AcceptRoom
      <4>2. \A x \in Pairs : table[x].st = "accepted" =>
               (\E k \in 1..Len(rooms) : RoomOf(k, x)) \/ {x[1], x[2]} \in roomless'
        BY <3>2, <3>3, <4>1
      <4>3. \A y \in Calls : ~Creating(y)' /\ call'[y].pc # "addRequester"
        BY <2>6, <4>1 DEF Creating, Rooming
      <4> QED BY <2>1, <3>1, <4>2, <4>3 DEF RoomsOrderly, RoomOf
    <3>5. CASE {p[1], p[2]} \subseteq participants
      <4>1. roomless' = roomless \ {{p[1], p[2]}}
        BY <2>18, <3>5 DEF AcceptRoom
      <4>2. \A x \in Pairs : {x[1], x[2]} \in roomless /\ {x[1], x[2]} \notin roomless' => x \in {p, q}
        <5>1. \A x \in Pairs : x = <<x[1], x[2]>>
          BY FriendshipAssumption
        <5>2. \A x \in Pairs : {x[1], x[2]} = {p[1], p[2]} => x \in {p, q}
          BY <5>1 DEF Reverse
        <5> QED BY <4>1, <5>2
      <4>3. \A x \in Pairs : table[x].st = "accepted" =>
               \/ \E k \in 1..Len(rooms) : RoomOf(k, x)
               \/ {x[1], x[2]} \in roomless'
               \/ x \in {p, q}
        BY <3>3, <4>2
      <4>4. CASE \E k \in 1..Len(rooms) : RoomOf(k, p)
        <5>1. ~Rooming(r)'
          BY <2>7, <2>18, <3>5, <4>4 DEF AcceptRoom, RoomOf
        <5>2. \E k \in 1..Len(rooms) : RoomOf(k, q)
          BY <4>4 DEF RoomOf
        <5>3. \A x \in Pairs : table[x].st = "accepted" =>
                 (\E k \in 1..Len(rooms) : RoomOf(k, x)) \/ {x[1], x[2]} \in roomless'
          BY <4>3, <4>4, <5>2
        <5>4. \A y \in Calls : ~Creating(y)' /\ call'[y].pc # "addRequester"
          BY <2>6, <5>1 DEF Creating, Rooming
        <5> QED BY <2>1, <3>1, <5>3, <5>4 DEF RoomsOrderly, RoomOf
      <4>5. CASE ~ \E k \in 1..Len(rooms) : RoomOf(k, p)
        <5>1. call'[r].pc = "createRoom" /\ call'[r].pair = p
          BY <2>8, <2>18, <3>5, <4>5 DEF AcceptRoom, RoomOf
        <5>2. Rooming(r)' /\ About(r)' = {p, q}
          BY <5>1 DEF Rooming, About
        <5>3. \A x \in Pairs : table[x].st = "accepted" =>
                 \/ \E k \in 1..Len(rooms) : RoomOf(k, x)
                 \/ {x[1], x[2]} \in roomless'
                 \/ \E y \in Calls : Rooming(y)' /\ x \in About(y)'
          BY <4>3, <5>2
        <5>4. \A y \in Calls : call'[y].pc # "addRequester" /\ (Creating(y)' => y = r)
          BY <2>6, <5>1 DEF Creating, Rooming
        <5>5. \A k \in made : ~RoomOf(k, p)
          BY <4>5 DEF TypeOK
        <5> QED BY <2>1, <3>1, <5>1, <5>3, <5>4, <5>5 DEF RoomsOrderly, Rooming, RoomOf
      <4> QED BY <4>4, <4>5
    <3> QED BY <3>4, <3>5
  <2>19. CASE AcceptCreateRoom(r)
    <3>1. call[r].pc = "createRoom" /\ UNCHANGED <<table, roomless>> /\ p[1] # p[2]
      BY <2>2, <2>19 DEF AcceptCreateRoom, View
    <3>2. rooms' = Append(rooms, {p[2]}) /\ made' = made \cup {Len(rooms) + 1}
      BY <2>19 DEF AcceptCreateRoom
    <3>3. call'[r].pc = "addRequester" /\ call'[r].pair = p /\ call'[r].id = Len(rooms) + 1
      BY <1>0, <2>4, <2>19 DEF AcceptCreateRoom, Request
    <3>4. /\ Len(rooms) \in Nat /\ Len(rooms') = Len(rooms) + 1 /\ rooms'[Len(rooms) + 1] = {p[2]}
          /\ \A k \in 1..Len(rooms) : rooms'[k] = rooms[k]
          /\ made \subseteq 1..Len(rooms)
      BY <3>2 DEF TypeOK
    <3>5. \A x \in Pairs, k \in 1..Len(rooms') :
             /\ k \in 1..Len(rooms) => (RoomOf(k, x)' <=> RoomOf(k, x))
             /\ x[1] # x[2] /\ RoomOf(k, x)' => k \in 1..Len(rooms)
      BY <3>4 DEF RoomOf
    <3>6. Creating(r) /\ Rooming(r) /\ Rooming(r)' /\ About(r)' = About(r)
      BY <3>1, <3>3 DEF Rooming, About, Creating
    <3>7. \A x \in Pairs : table'[x].st = "accepted" =>
               \/ \E k \in 1..Len(rooms') : RoomOf(k, x)'
               \/ {x[1], x[2]} \in roomless
               \/ \E y \in Calls : Rooming(y)' /\ x \in About(y)'
      <4>1. \A x \in Pairs : table[x].st = "accepted" =>
               \/ \E k \in 1..Len(rooms) : RoomOf(k, x)
               \/ {x[1], x[2]} \in roomless
               \/ x \in About(r)
        BY <2>1, <2>6 DEF RoomsOrderly, Rooming
      <4>2. 1..Len(rooms) \subseteq 1..Len(rooms')
        BY <3>4
      <4> QED BY <3>1, <3>5, <3>6, <4>1, <4>2
    <3>8. \A y \in Calls : (call'[y].pc = "addRequester" => y = r) /\ (Creating(y)' => y = r)
      BY <2>6 DEF Creating, Rooming
    <3>9. \A x \in Pairs, k \in made' : x[1] # x[2] /\ RoomOf(k, x)' => k \in made /\ RoomOf(k, x)
      BY <3>2, <3>4, <3>5
    <3>10. \A k \in made' : ~RoomOf(k, p)'
      BY <2>1, <3>1, <3>6, <3>9 DEF RoomsOrderly
    <3>11. \A x \in Pairs : x[1] # x[2] => \A j, k \in made' : RoomOf(j, x)' /\ RoomOf(k, x)' => j = k
      BY <2>1, <3>9 DEF RoomsOrderly
    <3>12. call'[r].id \in made' /\ rooms'[call'[r].id] = {p[2]}
      BY <3>2, <3>3, <3>4
    <3> QED BY <3>1, <3>3, <3>7, <3>8, <3>10, <3>11, <3>12 DEF RoomsOrderly, Rooming, RoomOf
  <2>20. CASE AcceptAddRequester(r)
    <3>1. call[r].pc = "addRequester" /\ UNCHANGED <<table, made, roomless>> /\ p[1] # p[2]
      BY <2>2, <2>20 DEF AcceptAddRequester, View
    <3>2. rooms' = [rooms EXCEPT ![call[r].id] = @ \cup {p[1]}]
      BY <2>20 DEF AcceptAddRequester
    <3>3. PICK n \in made : n = call[r].id /\ rooms[n] = {p[2]}
      BY <2>1, <3>1 DEF RoomsOrderly
    <3>4. /\ Len(rooms') = Len(rooms) /\ rooms'[n] = {p[2], p[1]}
          /\ \A k \in 1..Len(rooms) : k # n => rooms'[k] = rooms[k]
          /\ made \subseteq 1..Len(rooms) /\ n \in 1..Len(rooms)
      BY <3>2, <3>3 DEF TypeOK
    <3>5. Creating(r) /\ Rooming(r) /\ ~Rooming(r)'
      BY <2>7, <2>20, <3>1 DEF Rooming, Creating, AcceptAddRequester
    <3>6. \A k \in made : ~RoomOf(k, p) /\ ~RoomOf(k, q)
      BY <2>1, <3>5 DEF RoomsOrderly, RoomOf
    <3>7. \A x \in Pairs : x \notin {p, q} /\ x[1] # x[2] => ~RoomOf(n, x)'
      <4>1. \A x \in Pairs : x = <<x[1], x[2]>>
        BY FriendshipAssumption
      <4> QED BY <3>4, <4>1 DEF RoomOf, Reverse
    <3>8. \A x \in Pairs, k \in 1..Len(rooms) :
              /\ x \in {p, q} => RoomOf(n, x)'
              /\ k # n => (RoomOf(k, x)' <=> RoomOf(k, x))
              /\ RoomOf(k, x) => RoomOf(k, x)'
      BY <3>3, <3>4 DEF RoomOf
    <3>9. \A x \in Pairs : table'[x].st = "accepted" =>
              (\E k \in 1..Len(rooms') : RoomOf(k, x)') \/ {x[1], x[2]} \in roomless
      <4>1. \A x \in Pairs : table[x].st = "accepted" =>
               \/ \E k \in 1..Len(rooms) : RoomOf(k, x)
               \/ {x[1], x[2]} \in roomless
               \/ x \in About(r)
        BY <2>1, <2>6 DEF RoomsOrderly, Rooming
      <4>2. About(r) = {p, q}
        BY DEF About
      <4> QED BY <3>1, <3>4, <3>8, <4>1, <4>2
    <3>10. \A y \in Calls : ~Creating(y)' /\ call'[y].pc # "addRequester"
      BY <2>6, <3>5 DEF Creating, Rooming
    <3>11. \A x \in Pairs : x[1] # x[2] => \A j, k \in made : RoomOf(j, x)' /\ RoomOf(k, x)' => j = k
      <4>1. ASSUME NEW x \in Pairs, x[1] # x[2], NEW j \in made, NEW k \in made, RoomOf(j, x)', RoomOf(k, x)'
            PROVE  j = k
        <5>1. j \in 1..Len(rooms) /\ k \in 1..Len(rooms)
          BY <3>4
        <5>2. CASE x \in {p, q}
          BY <3>6, <3>8, <4>1, <5>1, <5>2
        <5>3. CASE x \notin {p, q}
          <6>1. j # n /\ k # n
            BY <3>7, <4>1, <5>3
          <6>2. RoomOf(j, x) /\ RoomOf(k, x)
            BY <3>8, <4>1, <5>1, <6>1
          <6> QED BY <2>1, <4>1, <6>2 DEF RoomsOrderly
        <5> QED BY <5>2, <5>3
      <4> QED BY <4>1
    <3> QED BY <3>1, <3>9, <3>10, <3>11 DEF RoomsOrderly, Rooming, RoomOf
  <2> QED BY <1>2, <2>10, <2>11, <2>12, <2>13, <2>14, <2>15, <2>16, <2>17, <2>18, <2>19, <2>20 DEF Continue
<1>3. ASSUME NEW r \in Calls, AcceptDeadlock(r) PROVE RoomsOrderly'
  <2>1. orderly /\ \E q \in Calls : Crossed(q, r)
    BY <1>3 DEF AcceptDeadlock, history
  <2> QED BY <2>1 DEF Crossed, Orderly, Alone
<1>4. ASSUME NEW u \in Users, CreateUserParticipant(u) PROVE RoomsOrderly'
  BY <1>4 DEF CreateUserParticipant, history, RoomsOrderly, RoomOf, Creating, About
\* Rooms that Accepts did not make only gain members.
<1>5. ASSUME orderly, UNCHANGED <<table, call, made, roomless>>, Len(rooms) <= Len(rooms'),
             Len(rooms) \in Nat, Len(rooms') \in Nat,
             \A k \in 1..Len(rooms) : rooms[k] \subseteq rooms'[k] /\ (k \in made => rooms'[k] = rooms[k])
      PROVE  RoomsOrderly'
  <2>1. /\ \A x \in Pairs, k \in made : RoomOf(k, x)' <=> RoomOf(k, x)
        /\ \A x \in Pairs, k \in 1..Len(rooms) : RoomOf(k, x) => RoomOf(k, x)'
        /\ 1..Len(rooms) \subseteq 1..Len(rooms') /\ made \subseteq 1..Len(rooms)
    BY <1>5 DEF RoomOf, TypeOK
  <2>2. \A p \in Pairs : p[1] # p[2] => \A j, k \in made : RoomOf(j, p)' /\ RoomOf(k, p)' => j = k
    BY <1>5, <2>1 DEF RoomsOrderly
  <2>3. \A r \in Calls : Creating(r) => \A k \in made : ~RoomOf(k, call[r].pair)'
    <3>1. \A r \in Calls : Creating(r) => call[r].pair \in Pairs
      BY DEF CallsOK, Creating, Returned, Request
    <3> QED BY <1>5, <2>1, <3>1 DEF RoomsOrderly
  <2>4. \A r \in Calls : call[r].pc = "addRequester" =>
            call[r].id \in made /\ rooms'[call[r].id] = {call[r].pair[2]}
    BY <1>5, <2>1 DEF RoomsOrderly
  <2>5. \A p \in Pairs : table[p].st = "accepted" =>
            \/ \E k \in 1..Len(rooms') : RoomOf(k, p)'
            \/ {p[1], p[2]} \in roomless
            \/ \E r \in Calls : call[r].pc \in {"findRoom", "createRoom", "addRequester"} /\ p \in About(r)
    BY <1>5, <2>1 DEF RoomsOrderly
  <2> QED BY <1>5, <2>2, <2>3, <2>4, <2>5 DEF RoomsOrderly, RoomOf, Creating, About
<1>6. ASSUME NEW u \in Users, CreateChatRoom(u) PROVE RoomsOrderly'
  <2>1. /\ Len(rooms) \in Nat /\ Len(rooms') = Len(rooms) + 1
        /\ \A k \in 1..Len(rooms) : rooms'[k] = rooms[k]
    BY <1>6 DEF CreateChatRoom, TypeOK
  <2> QED BY <1>5, <1>6, <2>1 DEF CreateChatRoom, history
<1>7. ASSUME NEW u \in Users, NEW i \in 1..Len(rooms), JoinRoom(u, i) PROVE RoomsOrderly'
  <2>1. /\ Len(rooms) \in Nat /\ Len(rooms') = Len(rooms)
        /\ \A k \in 1..Len(rooms) : rooms[k] \subseteq rooms'[k] /\ (k # i => rooms'[k] = rooms[k])
    BY <1>7 DEF JoinRoom, TypeOK
  <2> QED BY <1>5, <1>7, <2>1 DEF JoinRoom, history
<1>8. CASE UNCHANGED vars
  BY <1>8 DEF vars, RoomsOrderly, RoomOf, Creating, About
<1> QED BY <1>1, <1>2, <1>3, <1>4, <1>6, <1>7, <1>8 DEF Next

-----------------------------------------------------------------------------
\* The inductive invariant.
LEMMA IInvStep == IInv /\ [Next]_vars => IInv'
BY TypeStep, ConsentStep, OrderlyStep, RoomsStep DEF IInv

\* The inductive invariant holds in every reachable state.
THEOREM Invariant == Spec => []IInv
BY IInvInit, IInvStep, PTL DEF Spec

\* The rows, the rooms and the requests in progress keep their types.
THEOREM TypeCorrect == Spec => [](TypeOK /\ CallsOK)
<1>1. IInv => TypeOK /\ CallsOK
  BY DEF IInv
<1> QED BY <1>1, Invariant, PTL

\* However requests, accepts, blocks, cancellations and removals interleave,
\* users are friends only if one of them asked and the other agreed.
THEOREM BothWanted == Spec => []FriendshipNeedsBoth
<1>1. IInv => FriendshipNeedsBoth
  BY DEF IInv
<1> QED BY <1>1, Invariant, PTL

\* As long as no two calls overlap, every use case leaves the two rows of a pair
\* in one of their legal combinations, and nobody the friend of one he blocked.
THEOREM RowsInStep == Spec => []PairIsConsistent
<1>1. IInv => PairIsConsistent
  <2> SUFFICES ASSUME IInv, Quiet PROVE \A p \in Pairs : Consistent(p) /\ (p \in blocking => table[p].st # "accepted")
    BY DEF PairIsConsistent, Consistent
  <2>1. Settled /\ Rows
    BY DEF IInv, Orderly, Quiet
  <2> QED BY <2>1 DEF Quiet, Settled, HalfDone, Rows
<1> QED BY <1>1, Invariant, PTL

\* As long as no two calls overlap, friends share a direct room, unless one of them had
\* no participant when the request was accepted, and Accepts made them no second one.
THEOREM OneRoomEach == Spec => []FriendsShareOneRoom
<1>1. IInv => FriendsShareOneRoom
  <2> SUFFICES ASSUME IInv, Quiet, NEW p \in Pairs, table[p].st = "accepted"
               PROVE  /\ Shared(p) # {} \/ {p[1], p[2]} \in roomless
                      /\ Cardinality(Shared(p) \cap made) <= 1
    BY DEF FriendsShareOneRoom
  <2>1. p[1] # p[2]
    BY DEF IInv, Orderly, Quiet, Settled, HalfDone, Consistent
  <2>2. Shared(p) = {k \in 1..Len(rooms) : RoomOf(k, p)} /\ made \subseteq 1..Len(rooms)
    BY DEF Shared, RoomOf, IInv, TypeOK
  <2>3. (\E k \in 1..Len(rooms) : RoomOf(k, p)) \/ {p[1], p[2]} \in roomless
    BY DEF IInv, RoomsOrderly, Quiet
  <2>4. \A j, k \in Shared(p) \cap made : j = k
    BY <2>1, <2>2 DEF IInv, RoomsOrderly, Quiet
  <2>5. Cardinality(Shared(p) \cap made) <= 1
    <3>1. CASE Shared(p) \cap made = {}
      <4>1. Cardinality(Shared(p) \cap made) = 0
        BY <3>1, FS_EmptySet
      <4> QED BY <4>1
    <3>2. CASE Shared(p) \cap made # {}
      <4>1. PICK k : Shared(p) \cap made = {k}
        BY <2>4, <3>2
      <4>2. Cardinality(Shared(p) \cap made) = 1
        BY <4>1, FS_Singleton
      <4> QED BY <4>2
    <3> QED BY <3>1, <3>2
  <2> QED BY <2>2, <2>3, <2>5
<1> QED BY <1>1, Invariant, PTL

-----------------------------------------------------------------------------
\* Locks.  A statement waits for the row or the key that an Accept in progress
\* holds; these are the guards of the statements that write, and all other steps go
\* on as they please.
Waits(r) ==
    \/ /\ call[r].pc \in {"update", "blockUpdate", "blockDelete", "delete", "remove", "removeReverseDelete"}
       /\ RowLocked(call[r].id)
    \/ call[r].pc \in {"applyCreate", "blockCreate"} /\ KeyLocked(r, call[r].pair)
    \/ call[r].pc = "insert" /\ KeyLocked(r, Reverse(call[r].pair))

\* However many requests compete, they never all wait for one another but where two
\* Accepts have crossed: a row or a key is held by an Accept that inserts or commits,
\* the one that commits waits for nobody, and one that inserts waits only for one that
\* commits or for the Accept of the opposite request, which waits for it in turn.
THEOREM NeverAllWaiting ==
    Spec => []((\E r \in Calls : call[r].pc # "idle") =>
                   \/ \E r \in Calls : call[r].pc # "idle" /\ ~Waits(r)
                   \/ \E q, r \in Calls : Crossed(q, r))
<1>1. ASSUME NEW r \in Calls, call[r].pc # "idle", \A q, x \in Calls : ~Crossed(q, x)
      PROVE  \E q \in Calls : call[q].pc # "idle" /\ ~Waits(q)
  <2>1. ASSUME NEW q \in Calls, call[q].pc = "commit" PROVE ~Waits(q)
    BY <2>1 DEF Waits
  <2>2. ASSUME NEW q \in Calls, call[q].pc = "insert", Waits(q), \A c \in Calls : call[c].pc # "commit"
        PROVE  \E x \in Calls : /\ x # q /\ call[x].pc = "insert" /\ call[x].held
                                /\ call[x].pair = Reverse(call[q].pair)
    BY <2>2 DEF Waits, KeyLocked
  <2>3. ASSUME NEW q \in Calls, call[q].pc = "insert", \A c \in Calls : call[c].pc # "commit"
        PROVE  \E x \in Calls : call[x].pc # "idle" /\ ~Waits(x)
    <3> SUFFICES ASSUME \A x \in Calls : call[x].pc = "insert" => Waits(x) PROVE FALSE
      BY <2>3
    <3>1. PICK x \in Calls : /\ x # q /\ call[x].pc = "insert" /\ call[x].held
                             /\ call[x].pair = Reverse(call[q].pair)
      BY <2>2, <2>3
    <3>2. PICK y \in Calls : /\ y # x /\ call[y].pc = "insert" /\ call[y].held
                             /\ call[y].pair = Reverse(call[x].pair)
      BY <2>2, <2>3, <3>1
    <3>3. Crossed(y, x)
      BY <3>1, <3>2 DEF Crossed
    <3> QED BY <1>1, <3>3
  <2>4. ASSUME \A q \in Calls : call[q].pc \notin {"insert", "commit"} PROVE ~Waits(r)
    BY <2>4 DEF Waits, RowLocked, KeyLocked
  <2> QED BY <1>1, <2>1, <2>3, <2>4
<1>2. (\E r \in Calls : call[r].pc # "idle") =>
          \/ \E r \in Calls : call[r].pc # "idle" /\ ~Waits(r)
          \/ \E q, r \in Calls : Crossed(q, r)
  BY <1>1
<1> QED BY <1>2, PTL

=============================================================================
