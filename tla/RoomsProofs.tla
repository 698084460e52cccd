---------------------------- MODULE RoomsProofs ----------------------------
(***************************************************************************)
(* Proofs about Rooms, for any users, rooms, limits, invitations and any   *)
(* number of requests.  No property is inductive by itself: what makes the *)
(* first ones so is that a request knows which invitation it decides and   *)
(* that its caller may decide it (Known), that the inserted member of a    *)
(* transaction in progress has a place (PlaceLeft), and that the lock of   *)
(* the trigger lets one transaction at a time insert into a room           *)
(* (OneAdder).  A second invariant, OInv, is about requests that do not    *)
(* overlap: one that is alone still relies on what it has read (Fresh),    *)
(* so that an invitation is answered once and a refusal counts.            *)
(***************************************************************************)
EXTENDS Rooms, FiniteSetTheorems, TLAPS

Deciding == {"guard", "add", "block", "blockUpdate", "blockCreate", "mark", "commit"}

\* An invitation is for an existing room, and one side has consented.
InvKnown ==
    \A i \in Invitations :
        /\ i >= nextInv => inv[i] = NoInv
        /\ i < nextInv =>
             /\ inv[i].room \in Rooms /\ room[inv[i].room].type # "none"
             /\ inv[i].from \in Users /\ inv[i].to \in Users
             /\ inv[i].kind \in {"invitation", "join_request"}
             /\ inv[i].kind = "invitation" => <<inv[i].to, inv[i].room>> \in admitted
             /\ inv[i].kind = "join_request" => <<inv[i].to, inv[i].room>> \in agreed

\* What a request in progress has learnt stays true.
Known(c) ==
    /\ c.pc # "idle" => c.me \in Users
    /\ c.pc = "create" => c.who \in Users
    /\ c.pc \in {"joinFind", "joinCreate"} => c.rm \in Rooms /\ room[c.rm].type # "none"
    /\ c.pc \in Deciding =>
         /\ c.inv \in Invitations /\ c.inv < nextInv
         /\ c.rm = inv[c.inv].room /\ c.who = inv[c.inv].to
         /\ inv[c.inv].kind = "invitation" => c.me = c.who
         /\ inv[c.inv].kind = "join_request" => c.me = room[c.rm].owner
    /\ c.pc \in {"guard", "add"} => c.st = "accepted"
    /\ c.pc \in {"block", "blockUpdate", "blockCreate"} => c.st = "blocked"
    /\ c.added <=> (c.pc \in {"mark", "commit"} /\ c.st = "accepted")

CallsKnown == \A r \in Calls : Known(call[r])

PlaceLeft == \A r \in Calls : call[r].added => ~Full(call[r].rm)

OneAdder ==
    \A q, r \in Calls : call[q].added /\ call[r].added /\ call[q].rm = call[r].rm => q = r

IInv == /\ RowsOK /\ InvKnown /\ CallsKnown /\ PlaceLeft /\ OneAdder
        /\ CapacityKept /\ BothConsent /\ AcceptedIsMember

\* A request to join that the owner has still to decide.
Asks(i, rm, u) == /\ inv[i].kind = "join_request" /\ inv[i].st = "pending"
                  /\ inv[i].room = rm /\ inv[i].to = u

\* A decision is one of three, and one to block holds the row of the pair.
Decided(c) ==
    /\ c.pc \in Deciding => c.st \in {"accepted", "rejected", "blocked"}
    /\ c.st = "blocked" /\ c.pc \in {"blockUpdate", "blockCreate", "mark", "commit"} =>
          c.row \in {<<c.me, inv[c.inv].from>>, <<inv[c.inv].from, c.me>>}

\* What a request has read and, alone, may rely on: the invitation it decides is
\* pending, the user that joins has not asked before.
Fresh(c) ==
    /\ c.pc \in Deciding => inv[c.inv].st = "pending"
    /\ c.pc = "joinCreate" => \A i \in Invitations : ~Asks(i, c.rm, c.me)

BlockStands == \A p \in shut : rows[p] = "blocked" \/ rows[<<p[2], p[1]>>] = "blocked"

Alone == \A q, r \in InProgress : q = r

AnsweredOnce ==
    \A i \in Invitations : answers[i] = IF inv[i].st \in {"none", "pending"} THEN 0 ELSE 1

\* A member that does not own the room has an invitation that is accepted still.
MembersInvited ==
    \A rm \in Rooms : \A u \in members[rm] :
        \/ u = room[rm].owner
        \/ \E j \in Invitations : inv[j].room = rm /\ inv[j].to = u /\ inv[j].st = "accepted"

AsksOnce ==
    \A rm \in Rooms, u \in Users : \A i, j \in Invitations :
        Asks(i, rm, u) /\ Asks(j, rm, u) => i = j

Undisturbed == /\ Alone /\ AnsweredOnce /\ MembersInvited /\ AsksOnce
               /\ \A r \in Calls : Fresh(call[r])

\* The invariant of requests that do not overlap.
OInv == /\ \A r \in Calls : Decided(call[r])
        /\ BlockStands
        /\ orderly => Undisturbed

\* The tables only gain rows: rooms and the parties of invitations stay.
Grows ==
    /\ nextInv' \in 1..(MaxInv + 1) /\ nextInv <= nextInv'
    /\ \A rm \in Rooms : room[rm].type # "none" => room'[rm] = room[rm]
    /\ \A i \in Invitations : i < nextInv =>
          /\ inv'[i].room = inv[i].room /\ inv'[i].to = inv[i].to
          /\ inv'[i].from = inv[i].from /\ inv'[i].kind = inv[i].kind

-----------------------------------------------------------------------------
\* The capacities of rooms are numbers, 0 for no limit.
LEMMA LimitsAreNumbers == \A m \in Capacities \cup {0} : m \in Nat
BY RoomsAssumption

\* A request that does not move keeps what it knows when the tables grow.
LEMMA StillKnown ==
    ASSUME RowsOK, InvKnown, Grows, NEW q \in Calls, Known(call[q]), call'[q] = call[q]
    PROVE  Known(call[q])'
<1> USE RoomsAssumption
<1>1. nextInv \in Nat /\ nextInv' \in Nat
  BY DEF RowsOK, Grows
<1>2. call[q].pc \in {"joinFind", "joinCreate"} => room'[call[q].rm].type # "none"
  BY DEF Grows, Known
<1>3. ASSUME call[q].pc \in Deciding
      PROVE  /\ call[q].inv \in Invitations /\ call[q].inv < nextInv'
             /\ call[q].rm = inv'[call[q].inv].room /\ call[q].who = inv'[call[q].inv].to
             /\ inv'[call[q].inv].kind = "invitation" => call[q].me = call[q].who
             /\ inv'[call[q].inv].kind = "join_request" => call[q].me = room'[call[q].rm].owner
  <2>1. call[q].inv \in Invitations /\ call[q].inv < nextInv
    BY <1>3 DEF Known
  <2>2. call[q].inv \in Nat
    BY <2>1 DEF Invitations
  <2>3. call[q].rm \in Rooms /\ room[call[q].rm].type # "none"
    BY <1>3, <2>1 DEF Known, InvKnown
  <2>4. room'[call[q].rm] = room[call[q].rm]
    BY <2>3 DEF Grows
  <2> QED BY <1>1, <1>3, <2>1, <2>2, <2>4 DEF Known, Grows
<1> QED BY <1>2, <1>3 DEF Known

\* A step that moves one request without a new insert, the tables unchanged.
LEMMA CallStep ==
    ASSUME IInv, NEW r \in Calls, NEW c \in Call, Known(c),
           c.added => call[r].added /\ c.rm = call[r].rm,
           call' = [call EXCEPT ![r] = c], UNCHANGED <<tables, history>>
    PROVE  IInv'
<1>1. call \in [Calls -> Call] /\ call' \in [Calls -> Call]
  BY DEF IInv, RowsOK
<1>2. call'[r] = c /\ \A q \in Calls \ {r} : call'[q] = call[q]
  BY <1>1
<1>3. /\ room' = room /\ members' = members /\ inv' = inv /\ nextInv' = nextInv /\ rows' = rows
      /\ answers' = answers /\ agreed' = agreed /\ admitted' = admitted /\ shut' = shut
  BY DEF tables, history
<1>4. RowsOK'
  BY <1>1, <1>3 DEF IInv, RowsOK
<1>5. CallsKnown'
  BY <1>2, <1>3 DEF IInv, CallsKnown, Known
<1>6. PlaceLeft'
  BY <1>2, <1>3 DEF IInv, PlaceLeft, Full
<1>7. OneAdder'
  BY <1>2 DEF IInv, OneAdder
<1>8. InvKnown' /\ CapacityKept' /\ BothConsent' /\ AcceptedIsMember'
  BY <1>3 DEF IInv, InvKnown, CapacityKept, BothConsent, AcceptedIsMember
<1> QED BY <1>4, <1>5, <1>6, <1>7, <1>8 DEF IInv

\* A request that is over knows nothing.
LEMMA ReturnedKnown == Returned \in Call /\ Known(Returned) /\ ~Returned.added
<1>1. Returned \in Call
  BY RoomsAssumption DEF Returned, Call, Statuses
<1>2. Known(Returned) /\ ~Returned.added
  BY DEF Returned, Known, Deciding
<1> QED BY <1>1, <1>2

\* A step that only ends a request.
LEMMA ReturnStep ==
    ASSUME IInv, NEW r \in Calls, Return(r), UNCHANGED <<tables, history>>
    PROVE  IInv'
<1>1. call' = [call EXCEPT ![r] = Returned]
  BY DEF Return
<1> QED BY <1>1, ReturnedKnown, CallStep

-----------------------------------------------------------------------------
\* The steps of a transaction that only move its request

LEMMA CreateDirectFindKeeps ==
    ASSUME IInv, NEW r \in Calls, NEW u \in Owners, NEW v \in Users, NEW max \in Capacities,
           CreateDirectFind(r, u, v, max)
    PROVE  IInv'
<1> DEFINE c == [Returned EXCEPT !.pc = "create", !.me = u, !.who = v, !.max = max]
<1>1. call' = [call EXCEPT ![r] = c] /\ UNCHANGED <<tables, history>>
  BY DEF CreateDirectFind
<1>2. c \in Call
  BY ReturnedKnown, RoomsAssumption DEF Returned, Call
<1>3. Known(c) /\ ~c.added
  BY RoomsAssumption DEF Returned, Known, Deciding
<1> HIDE DEF c
<1> QED BY <1>1, <1>2, <1>3, CallStep

\* A request to join that finds the room remembers an existing one.
LEMMA JoinFindKeeps ==
    ASSUME IInv, NEW r \in Calls, NEW u \in Users, NEW rm \in Rooms, JoinFind(r, u, rm)
    PROVE  IInv'
<1> DEFINE c == [Returned EXCEPT !.pc = "joinFind", !.me = u, !.rm = rm]
<1>1. CASE UNCHANGED call
  <2>1. UNCHANGED <<tables, call, history>>
    BY <1>1 DEF JoinFind, tables, history
  <2> QED BY <2>1 DEF tables, history, IInv, RowsOK, InvKnown, CallsKnown, Known, PlaceLeft, Full, OneAdder,
                      CapacityKept, BothConsent, AcceptedIsMember
<1>2. CASE room[rm].type # "none" /\ call' = [call EXCEPT ![r] = c]
  <2>1. c \in Call
    BY ReturnedKnown DEF Returned, Call
  <2>2. Known(c) /\ ~c.added
    BY <1>2 DEF Returned, Known, Deciding
  <2>3. UNCHANGED <<tables, history>>
    BY DEF JoinFind
  <2> HIDE DEF c
  <2> QED BY <1>2, <2>1, <2>2, <2>3, CallStep
<1> QED BY <1>1, <1>2 DEF JoinFind

\* A request that keeps its data and goes on to another step.
LEMMA GotoStep ==
    ASSUME IInv, NEW r \in Calls,
           NEW pc \in {"joinCreate", "add", "mark", "commit"}, Goto(r, pc),
           \/ pc = "joinCreate" /\ call[r].pc = "joinFind"
           \/ pc = "add" /\ call[r].pc = "guard"
           \/ pc = "mark" /\ call[r].pc \in {"blockUpdate", "blockCreate"}
           \/ pc = "commit" /\ call[r].pc = "mark",
           UNCHANGED <<tables, history>>
    PROVE  IInv'
<1> DEFINE c == [call[r] EXCEPT !.pc = pc]
<1>1. call[r] \in Call /\ call \in [Calls -> Call]
  BY DEF IInv, RowsOK
<1>2. call' = [call EXCEPT ![r] = c]
  BY <1>1 DEF Goto
<1>3. c \in Call
  BY <1>1 DEF Call
<1>4. Known(call[r])
  BY DEF IInv, CallsKnown
<1>5. Known(c) /\ (c.added => call[r].added /\ c.rm = call[r].rm)
  BY <1>1, <1>4 DEF Known, Call, Deciding
<1> HIDE DEF c
<1> QED BY <1>2, <1>3, <1>5, CallStep

\* Finding an invitation the caller may decide on.
LEMMA DecidesKeeps ==
    ASSUME IInv, NEW r \in Calls, NEW u \in Users, NEW i \in Invitations,
           NEW pc \in {"guard", "mark", "block"}, NEW st \in {"accepted", "rejected", "blocked"},
           Decides(r, u, i, pc, st), UNCHANGED <<tables, history>>,
           pc = "guard" => st = "accepted", pc = "mark" => st = "rejected",
           pc = "block" => st = "blocked", inv[i].st = "pending",
           inv[i].kind = "invitation" => inv[i].to = u,
           inv[i].kind = "join_request" => room[inv[i].room].owner = u
    PROVE  IInv'
<1> DEFINE c == [Returned EXCEPT !.pc = pc, !.me = u, !.inv = i, !.rm = inv[i].room,
                                 !.who = inv[i].to, !.st = st]
<1>1. call' = [call EXCEPT ![r] = c]
  BY DEF Decides
<1>2. inv[i] \in InvRow /\ i \in Nat /\ nextInv \in Nat
  BY DEF IInv, RowsOK, Invitations
<1>3. i < nextInv
  <2>1. inv[i] # NoInv
    BY DEF NoInv
  <2>2. ~(i >= nextInv)
    BY <2>1 DEF IInv, InvKnown
  <2> QED BY <1>2, <2>2
<1>4. c \in Call
  <2>1. i \in 0..MaxInv /\ st \in Statuses
    BY RoomsAssumption DEF Invitations, Statuses
  <2> QED BY <1>2, <2>1, ReturnedKnown DEF Returned, Call, InvRow
<1>5. Known(c) /\ ~c.added
  BY <1>3 DEF Returned, Known, Deciding
<1> HIDE DEF c
<1> QED BY <1>1, <1>4, <1>5, CallStep

\* An answer to an invitation begins a decision by the invited user.
LEMMA RespondFindKeeps ==
    ASSUME IInv, NEW r \in Calls, NEW u \in Users, NEW i \in Invitations, RespondFind(r, u, i)
    PROVE  IInv'
<1>1. PICK pc \in {"guard", "mark", "block"}, st \in {"accepted", "rejected", "blocked"} :
         /\ Decides(r, u, i, pc, st)
         /\ pc = "guard" => st = "accepted"
         /\ pc = "mark" => st = "rejected"
         /\ pc = "block" => st = "blocked"
  BY DEF RespondFind
<1>2. /\ UNCHANGED <<tables, history>> /\ inv[i].st = "pending"
      /\ inv[i].kind = "invitation" => inv[i].to = u
      /\ inv[i].kind # "join_request"
  BY DEF RespondFind
<1> QED BY <1>1, <1>2, DecidesKeeps

\* An answer to a request to join begins a decision by the owner.
LEMMA ApproveFindKeeps ==
    ASSUME IInv, NEW r \in Calls, NEW u \in Users, NEW i \in Invitations, ApproveFind(r, u, i)
    PROVE  IInv'
<1>1. PICK pc \in {"guard", "mark", "block"}, st \in {"accepted", "rejected", "blocked"} :
         /\ Decides(r, u, i, pc, st)
         /\ pc = "guard" => st = "accepted"
         /\ pc = "mark" => st = "rejected"
         /\ pc = "block" => st = "blocked"
  BY DEF ApproveFind
<1>2. /\ UNCHANGED <<tables, history>> /\ inv[i].st = "pending"
      /\ inv[i].kind # "invitation"
      /\ inv[i].kind = "join_request" => room[inv[i].room].owner = u
  BY DEF ApproveFind
<1> QED BY <1>1, <1>2, DecidesKeeps

\* Blocking picks the row of the pair, or that there is none.
LEMMA BlockKeeps ==
    ASSUME IInv, NEW r \in Calls, Block(r)
    PROVE  IInv'
<1>1. call[r] \in Call /\ call \in [Calls -> Call] /\ Known(call[r])
  BY DEF IInv, RowsOK, CallsKnown
<1>2. <<call[r].me, inv[call[r].inv].from>> \in Pairs
  BY <1>1 DEF Block, Known, Deciding, IInv, InvKnown, Pairs
<1>3. PICK pc \in {"blockUpdate", "blockCreate"}, p \in Pairs :
         call' = [call EXCEPT ![r].pc = pc, ![r].row = p]
  BY <1>2 DEF Block, RowsBetween, Pairs
<1> DEFINE c == [call[r] EXCEPT !.pc = pc, !.row = p]
<1>4. call' = [call EXCEPT ![r] = c]
  BY <1>1, <1>3
<1>5. c \in Call
  BY <1>1 DEF Call
<1>6. call[r].pc = "block" /\ UNCHANGED <<tables, history>>
  BY DEF Block
<1>7. Known(c) /\ ~c.added
  BY <1>1, <1>6 DEF Known, Call, Deciding
<1> HIDE DEF c
<1> QED BY <1>4, <1>5, <1>6, <1>7, CallStep

\* The trigger: it waits for the other insert, and looks for a place.
LEMMA AddKeeps ==
    ASSUME IInv, NEW r \in Calls, Add(r)
    PROVE  IInv'
<1>1. call[r] \in Call /\ call \in [Calls -> Call] /\ Known(call[r])
  BY DEF IInv, RowsOK, CallsKnown
<1>2. UNCHANGED <<tables, history>> /\ call[r].pc = "add" /\ ~RoomLocked(call[r].rm)
  BY DEF Add
<1>3. CASE Return(r)
  BY <1>2, <1>3, ReturnStep
<1>4. CASE ~Full(call[r].rm) /\ call' = [call EXCEPT ![r].pc = "mark", ![r].added = TRUE]
  <2> DEFINE c == [call[r] EXCEPT !.pc = "mark", !.added = TRUE]
  <2>1. call' = [call EXCEPT ![r] = c] /\ c \in Call
    BY <1>1, <1>4 DEF Call
  <2>2. Known(c) /\ c.added /\ c.rm = call[r].rm
    BY <1>1, <1>2 DEF Known, Call, Deciding
  <2> HIDE DEF c
  <2>3. call'[r] = c /\ (\A q \in Calls \ {r} : call'[q] = call[q]) /\ call' \in [Calls -> Call]
    BY <1>1, <2>1
  <2>4. /\ room' = room /\ members' = members /\ inv' = inv /\ nextInv' = nextInv /\ rows' = rows
        /\ answers' = answers /\ agreed' = agreed /\ admitted' = admitted /\ shut' = shut
    BY <1>2 DEF tables, history
  <2>5. RowsOK'
    BY <2>3, <2>4 DEF IInv, RowsOK
  <2>6. CallsKnown'
    BY <2>2, <2>3, <2>4 DEF IInv, CallsKnown, Known
  <2>7. PlaceLeft'
    BY <1>4, <2>2, <2>3, <2>4 DEF IInv, PlaceLeft, Full
  <2>8. OneAdder'
    <3>1. \A q \in Calls : call[q].added => call[q].rm # call[r].rm
      BY <1>2 DEF RoomLocked
    <3> QED BY <2>2, <2>3, <3>1 DEF IInv, OneAdder
  <2>9. InvKnown' /\ CapacityKept' /\ BothConsent' /\ AcceptedIsMember'
    BY <2>4 DEF IInv, InvKnown, CapacityKept, BothConsent, AcceptedIsMember
  <2> QED BY <2>5, <2>6, <2>7, <2>8, <2>9 DEF IInv
<1> QED BY <1>3, <1>4 DEF Add

-----------------------------------------------------------------------------
\* The steps that commit

\* The room, its owner and the invitations are inserted for request r.
LEMMA InsertedKeeps ==
    ASSUME IInv, NEW r \in Calls, NEW rm \in Rooms, NEW u \in Users,
           NEW type \in {"direct", "group"}, NEW max \in Capacities \cup {0},
           NEW list \in Seq(Users), Inserted(rm, u, type, max, list),
           call' = call \/ Return(r)
    PROVE  IInv'
<1> USE RoomsAssumption
<1>1. nextInv \in 1..(MaxInv + 1) /\ nextInv' = nextInv + Len(list) /\ Len(list) \in Nat
      /\ nextInv' \in 1..(MaxInv + 1)
  BY DEF IInv, RowsOK, Inserted
<1>2. /\ room[rm].type = "none"
      /\ room' = [room EXCEPT ![rm] = [type |-> type, max |-> max, owner |-> u]]
      /\ members' = [members EXCEPT ![rm] = {u}]
      /\ admitted' = admitted \cup {<<list[k], rm>> : k \in 1..Len(list)}
      /\ rows' = rows /\ answers' = answers /\ agreed' = agreed /\ shut' = shut
  BY DEF Inserted
<1>3. \A k \in 1..Len(list) : list[k] \in Users /\ <<list[k], rm>> \in admitted'
  BY <1>2
<1>4. room'[rm] = [type |-> type, max |-> max, owner |-> u] /\ members'[rm] = {u}
      /\ \A x \in Rooms \ {rm} : room'[x] = room[x] /\ members'[x] = members[x]
  BY <1>2 DEF IInv, RowsOK
<1>5. ASSUME NEW i \in Invitations
      PROVE  /\ i < nextInv \/ i >= nextInv' => inv'[i] = inv[i]
             /\ ~(i < nextInv) /\ ~(i >= nextInv') =>
                  /\ inv'[i].room = rm /\ inv'[i].from = u /\ inv'[i].to \in Users
                  /\ inv'[i].kind = "invitation" /\ inv'[i].st = "pending"
                  /\ <<inv'[i].to, rm>> \in admitted' /\ inv'[i] \in InvRow
  <2>1. i \in Nat
    BY DEF Invitations
  <2>2. inv'[i] = IF i \in nextInv .. (nextInv + Len(list) - 1)
                  THEN [room |-> rm, from |-> u, to |-> list[i - nextInv + 1],
                        kind |-> "invitation", st |-> "pending"]
                  ELSE inv[i]
    BY DEF Inserted
  <2>3. CASE i < nextInv \/ i >= nextInv'
    BY <1>1, <2>1, <2>2, <2>3
  <2>4. CASE ~(i < nextInv) /\ ~(i >= nextInv')
    <3> DEFINE k == i - nextInv + 1
    <3>1. i \in nextInv .. (nextInv + Len(list) - 1) /\ k \in 1..Len(list)
      BY <1>1, <2>1, <2>4
    <3>2. inv'[i] = [room |-> rm, from |-> u, to |-> list[k],
                     kind |-> "invitation", st |-> "pending"]
      BY <2>2, <3>1
    <3>3. list[k] \in Users /\ <<list[k], rm>> \in admitted'
      BY <1>3, <3>1
    <3> HIDE DEF k
    <3> QED BY <2>4, <3>2, <3>3 DEF InvRow, Statuses
  <2> QED BY <2>3, <2>4
<1>6. Grows
  <2>1. \A x \in Rooms : room[x].type # "none" => room'[x] = room[x]
    BY <1>2, <1>4
  <2>2. nextInv <= nextInv'
    BY <1>1
  <2> QED BY <1>1, <1>5, <2>1, <2>2 DEF Grows
<1>7. call' \in [Calls -> Call] /\ \A q \in Calls : call'[q] = call[q] \/ call'[q] = Returned
  BY ReturnedKnown DEF IInv, RowsOK, Return
<1>8. RowsOK'
  <2>1. \A i \in Invitations : inv'[i] \in InvRow
    BY <1>5 DEF IInv, RowsOK
  <2>2. inv' \in [Invitations -> InvRow]
    BY <2>1 DEF Inserted
  <2>3. room' \in [Rooms -> RoomRow]
    BY <1>2 DEF IInv, RowsOK, RoomRow
  <2>4. \A x \in Rooms : room'[x].type = "none" <=> room'[x].owner = NoUser
    BY <1>4 DEF IInv, RowsOK
  <2>5. members' \in [Rooms -> SUBSET Users] /\ admitted' \subseteq Users \X Rooms
    BY <1>2, <1>3 DEF IInv, RowsOK
  <2> QED BY <1>1, <1>2, <1>7, <2>2, <2>3, <2>4, <2>5 DEF IInv, RowsOK
<1>9. InvKnown'
  <2> SUFFICES ASSUME NEW i \in Invitations
               PROVE  /\ i >= nextInv' => inv'[i] = NoInv
                      /\ i < nextInv' =>
                           /\ inv'[i].room \in Rooms /\ room'[inv'[i].room].type # "none"
                           /\ inv'[i].from \in Users /\ inv'[i].to \in Users
                           /\ inv'[i].kind \in {"invitation", "join_request"}
                           /\ inv'[i].kind = "invitation" => <<inv'[i].to, inv'[i].room>> \in admitted'
                           /\ inv'[i].kind = "join_request" => <<inv'[i].to, inv'[i].room>> \in agreed'
    BY DEF InvKnown
  <2>1. i \in Nat /\ nextInv \in Nat /\ nextInv' \in Nat /\ nextInv <= nextInv'
    BY <1>1 DEF Invitations
  <2>2. CASE i < nextInv
    <3>1. inv[i].room \in Rooms /\ room[inv[i].room].type # "none"
      BY <2>2 DEF IInv, InvKnown
    <3>2. inv'[i] = inv[i] /\ room'[inv[i].room].type # "none"
      BY <1>2, <1>4, <1>5, <2>2, <3>1
    <3>3. i < nextInv' /\ ~(i >= nextInv')
      BY <2>1, <2>2
    <3> QED BY <1>2, <2>2, <3>2, <3>3 DEF IInv, InvKnown
  <2>3. CASE i >= nextInv'
    <3>1. ~(i < nextInv') /\ i >= nextInv
      BY <2>1, <2>3
    <3> QED BY <1>5, <2>3, <3>1 DEF IInv, InvKnown
  <2>4. CASE ~(i < nextInv) /\ ~(i >= nextInv')
    <3>1. /\ inv'[i].room = rm /\ inv'[i].from = u /\ inv'[i].to \in Users
          /\ inv'[i].kind = "invitation" /\ <<inv'[i].to, rm>> \in admitted'
      BY <1>5, <2>4
    <3>2. room'[rm].type # "none"
      BY <1>4
    <3> QED BY <2>4, <3>1, <3>2
  <2> QED BY <2>2, <2>3, <2>4
<1>10. CallsKnown'
  <2> SUFFICES ASSUME NEW q \in Calls PROVE Known(call[q])'
    BY DEF CallsKnown
  <2>1. CASE call'[q] = call[q]
    BY <1>6, <2>1, StillKnown DEF IInv, CallsKnown
  <2>2. CASE call'[q] = Returned
    BY <2>2 DEF Returned, Known, Deciding
  <2> QED BY <1>7, <2>1, <2>2
<1>11. \A q \in Calls : call'[q].added => call'[q] = call[q] /\ call[q].rm \in Rooms \ {rm}
  <2> SUFFICES ASSUME NEW q \in Calls, call'[q].added
               PROVE  call'[q] = call[q] /\ call[q].rm \in Rooms \ {rm}
    OBVIOUS
  <2>1. call'[q] = call[q]
    BY <1>7, ReturnedKnown
  <2>2. Known(call[q]) /\ call[q].pc \in Deciding
    BY <2>1 DEF IInv, CallsKnown, Known, Deciding
  <2>3. call[q].rm \in Rooms /\ room[call[q].rm].type # "none"
    BY <2>2 DEF Known, IInv, InvKnown
  <2> QED BY <1>2, <2>1, <2>3
<1>12. PlaceLeft' /\ OneAdder'
  <2>1. PlaceLeft /\ OneAdder
    BY DEF IInv
  <2>2. PlaceLeft'
    BY <1>4, <1>11, <2>1 DEF PlaceLeft, Full
  <2>3. OneAdder'
    BY <1>11, <2>1 DEF OneAdder
  <2> QED BY <2>2, <2>3
<1>13. CapacityKept'
  <2> SUFFICES ASSUME NEW x \in Rooms, room'[x].max > 0
               PROVE  Cardinality(members'[x]) <= room'[x].max
    BY DEF CapacityKept
  <2>1. CASE x = rm
    <3>1. Cardinality({u}) = 1
      BY FS_Singleton
    <3>2. room'[x].max = max /\ members'[x] = {u}
      BY <1>4, <2>1
    <3>3. max \in Nat
      BY LimitsAreNumbers
    <3> QED BY <3>1, <3>2, <3>3
  <2>2. CASE x # rm
    BY <1>4, <2>2 DEF IInv, CapacityKept
  <2> QED BY <2>1, <2>2
<1>14. BothConsent'
  <2> SUFFICES ASSUME NEW x \in Rooms, NEW w \in members'[x], w # room'[x].owner
               PROVE  <<w, x>> \in agreed' /\ <<w, x>> \in admitted'
    BY DEF BothConsent
  <2>1. x # rm
    BY <1>4
  <2> QED BY <1>2, <1>4, <2>1 DEF IInv, BothConsent
<1>15. AcceptedIsMember'
  <2> SUFFICES ASSUME NEW i \in Invitations, inv'[i].st = "accepted"
               PROVE  inv'[i].to \in members'[inv'[i].room]
    BY DEF AcceptedIsMember
  <2>1. inv'[i] = inv[i]
    BY <1>5
  <2>2. inv[i] # NoInv
    BY <2>1 DEF NoInv
  <2>3. ~(i >= nextInv)
    BY <2>2 DEF IInv, InvKnown
  <2>4. i < nextInv
    BY <1>1, <2>3 DEF Invitations
  <2>5. inv[i].room \in Rooms \ {rm}
    BY <1>2, <2>4 DEF IInv, InvKnown
  <2> QED BY <1>4, <2>1, <2>5 DEF IInv, AcceptedIsMember
<1> QED BY <1>8, <1>9, <1>10, <1>12, <1>13, <1>14, <1>15 DEF IInv

\* Creating a direct room inserts it with an invitation for the other user, or fails.
LEMMA CreateDirectKeeps ==
    ASSUME IInv, NEW r \in Calls, CreateDirect(r)
    PROVE  IInv'
<1>1. Known(call[r]) /\ call[r] \in Call /\ call[r].pc = "create" /\ Return(r)
  BY DEF IInv, CallsKnown, RowsOK, CreateDirect
<1>2. call[r].me \in Users /\ call[r].who \in Users /\ call[r].max \in Capacities \cup {0}
  BY <1>1 DEF Known, Call
<1>3. CASE UNCHANGED <<tables, history>>
  BY <1>1, <1>3, ReturnStep
<1>4. CASE \E rm \in Rooms : Inserted(rm, call[r].me, "direct", call[r].max, <<call[r].who>>)
  <2>1. PICK rm \in Rooms : Inserted(rm, call[r].me, "direct", call[r].max, <<call[r].who>>)
    BY <1>4
  <2>2. <<call[r].who>> \in Seq(Users)
    BY <1>2
  <2> QED BY <1>1, <1>2, <2>1, <2>2, InsertedKeeps
<1> QED BY <1>3, <1>4 DEF CreateDirect

\* Creating a group inserts it with its owner and the list of invitations.
LEMMA CreateRoomKeeps ==
    ASSUME IInv, NEW r \in Calls, NEW u \in Owners, NEW max \in Capacities, NEW list \in Lists,
           CreateRoom(r, u, max, list)
    PROVE  IInv'
<1>1. PICK rm \in Rooms, type \in {"direct", "group"} : Inserted(rm, u, type, max, list)
  BY DEF CreateRoom
<1>2. call' = call /\ u \in Users /\ list \in Seq(Users) /\ max \in Capacities \cup {0}
  BY RoomsAssumption DEF CreateRoom
<1> QED BY <1>1, <1>2, InsertedKeeps

\* A request to join is inserted as pending, with the consent of its sender.
LEMMA JoinCreateKeeps ==
    ASSUME IInv, NEW r \in Calls, JoinCreate(r)
    PROVE  IInv'
<1> USE RoomsAssumption
<1> DEFINE u == call[r].me
           rm == call[r].rm
<1>1. Return(r) /\ Known(call[r]) /\ call[r].pc = "joinCreate"
  BY DEF JoinCreate, IInv, CallsKnown
<1>2. u \in Users /\ rm \in Rooms /\ room[rm].type # "none"
  BY <1>1 DEF Known
<1> HIDE DEF u, rm
<1>3. CASE UNCHANGED <<tables, history>>
  BY <1>1, <1>3, ReturnStep
<1>4. CASE ~UNCHANGED <<tables, history>>
  <2> DEFINE new == [room |-> rm, from |-> u, to |-> u, kind |-> "join_request", st |-> "pending"]
  <2>1. /\ nextInv <= MaxInv /\ inv' = [inv EXCEPT ![nextInv] = new] /\ nextInv' = nextInv + 1
        /\ agreed' = agreed \cup {<<u, rm>>}
        /\ room' = room /\ members' = members /\ rows' = rows /\ answers' = answers
        /\ admitted' = admitted /\ shut' = shut
    BY <1>4 DEF JoinCreate, u, rm
  <2>2. nextInv \in Invitations /\ nextInv \in Nat /\ nextInv' \in 1..(MaxInv + 1)
    BY <2>1 DEF IInv, RowsOK, Invitations
  <2>3. inv'[nextInv] = new /\ \A i \in Invitations \ {nextInv} : inv'[i] = inv[i]
    BY <2>1, <2>2 DEF IInv, RowsOK
  <2>4. \A i \in Invitations : i < nextInv => inv'[i] = inv[i]
    BY <2>2, <2>3 DEF Invitations
  <2>5. Grows
    <3>1. nextInv <= nextInv'
      BY <2>1, <2>2
    <3> QED BY <2>1, <2>2, <2>4, <3>1 DEF Grows
  <2>6. call' \in [Calls -> Call] /\ \A q \in Calls : call'[q] = call[q] \/ call'[q] = Returned
    BY <1>1, ReturnedKnown DEF IInv, RowsOK, Return
  <2>7. RowsOK'
    <3>1. new \in InvRow
      BY <1>2 DEF InvRow, Statuses
    <3>2. inv' \in [Invitations -> InvRow]
      BY <2>1, <3>1 DEF IInv, RowsOK
    <3>3. agreed' \subseteq Users \X Rooms
      BY <1>2, <2>1 DEF IInv, RowsOK
    <3> QED BY <2>1, <2>2, <2>6, <3>2, <3>3 DEF IInv, RowsOK
  <2>8. InvKnown'
    <3> SUFFICES ASSUME NEW i \in Invitations
                 PROVE  /\ i >= nextInv' => inv'[i] = NoInv
                        /\ i < nextInv' =>
                             /\ inv'[i].room \in Rooms /\ room'[inv'[i].room].type # "none"
                             /\ inv'[i].from \in Users /\ inv'[i].to \in Users
                             /\ inv'[i].kind \in {"invitation", "join_request"}
                             /\ inv'[i].kind = "invitation" => <<inv'[i].to, inv'[i].room>> \in admitted'
                             /\ inv'[i].kind = "join_request" => <<inv'[i].to, inv'[i].room>> \in agreed'
      BY DEF InvKnown
    <3>1. CASE i = nextInv
      <4>1. ~(i >= nextInv')
        BY <2>1, <2>2, <3>1
      <4> QED BY <1>2, <2>1, <2>3, <3>1, <4>1
    <3>2. CASE i # nextInv
      <4>1. inv'[i] = inv[i] /\ (i >= nextInv' => i >= nextInv) /\ (i < nextInv' => i < nextInv)
        BY <2>1, <2>2, <2>3, <3>2 DEF Invitations
      <4> QED BY <2>1, <4>1 DEF IInv, InvKnown
    <3> QED BY <3>1, <3>2
  <2>9. CallsKnown'
    <3> SUFFICES ASSUME NEW q \in Calls PROVE Known(call[q])'
      BY DEF CallsKnown
    <3>1. CASE call'[q] = call[q]
      BY <2>5, <3>1, StillKnown DEF IInv, CallsKnown
    <3>2. CASE call'[q] = Returned
      BY <3>2 DEF Returned, Known, Deciding
    <3> QED BY <2>6, <3>1, <3>2
  <2>10. PlaceLeft' /\ OneAdder'
    BY <2>1, <2>6, ReturnedKnown DEF IInv, PlaceLeft, OneAdder, Full
  <2>11. CapacityKept' /\ BothConsent'
    BY <2>1 DEF IInv, CapacityKept, BothConsent
  <2>12. AcceptedIsMember'
    BY <2>1, <2>3 DEF IInv, AcceptedIsMember
  <2> QED BY <2>7, <2>8, <2>9, <2>10, <2>11, <2>12 DEF IInv
<1> QED BY <1>3, <1>4

\* A commit: the member is in, there was a place, and both sides consented.
LEMMA CommitKeeps ==
    ASSUME IInv, NEW r \in Calls, Commit(r)
    PROVE  IInv'
<1> USE RoomsAssumption
<1> DEFINE i == call[r].inv
           rm == call[r].rm
           w == call[r].who
<1>1. Known(call[r]) /\ call[r] \in Call /\ call[r].pc = "commit" /\ Return(r)
  BY DEF IInv, CallsKnown, RowsOK, Commit
<1>2. /\ i \in Invitations /\ i < nextInv /\ rm = inv[i].room /\ w = inv[i].to
      /\ inv[i].kind = "invitation" => call[r].me = w
      /\ inv[i].kind = "join_request" => call[r].me = room[rm].owner
      /\ call[r].me \in Users
      /\ call[r].added <=> call[r].st = "accepted"
  BY <1>1 DEF Known, Deciding
<1>3. /\ rm \in Rooms /\ room[rm].type # "none" /\ w \in Users /\ inv[i].from \in Users
      /\ inv[i].kind \in {"invitation", "join_request"}
      /\ inv[i].kind = "invitation" => <<w, rm>> \in admitted
      /\ inv[i].kind = "join_request" => <<w, rm>> \in agreed
  BY <1>2 DEF IInv, InvKnown
<1>4. /\ inv' = [inv EXCEPT ![i].st = call[r].st]
      /\ members' = IF call[r].added THEN [members EXCEPT ![rm] = @ \cup {w}] ELSE members
      /\ rows' = IF call[r].row # NoPair THEN [rows EXCEPT ![call[r].row] = "blocked"] ELSE rows
      /\ answers' = [answers EXCEPT ![i] = @ + 1]
      /\ agreed' = IF call[r].st = "accepted" /\ call[r].me = w
                   THEN agreed \cup {<<w, rm>>} ELSE agreed
      /\ admitted' = IF call[r].st = "accepted" /\ call[r].me = room[rm].owner
                     THEN admitted \cup {<<w, rm>>} ELSE admitted
      /\ shut' = IF call[r].st = "blocked" THEN shut \cup {<<call[r].me, inv[i].from>>} ELSE shut
      /\ room' = room /\ nextInv' = nextInv
  BY <1>2 DEF Commit
<1>5. call' \in [Calls -> Call] /\ call'[r] = Returned
      /\ \A q \in Calls \ {r} : call'[q] = call[q]
  BY <1>1, ReturnedKnown DEF IInv, RowsOK, Return
<1> HIDE DEF i, rm, w
<1>6. /\ inv'[i] = [inv[i] EXCEPT !.st = call[r].st]
      /\ \A j \in Invitations \ {i} : inv'[j] = inv[j]
  BY <1>2, <1>4 DEF IInv, RowsOK
<1>7. \A j \in Invitations :
         /\ inv'[j].room = inv[j].room /\ inv'[j].to = inv[j].to
         /\ inv'[j].from = inv[j].from /\ inv'[j].kind = inv[j].kind
  <2>1. inv[i] \in InvRow
    BY <1>2 DEF IInv, RowsOK
  <2>2. /\ inv'[i].room = inv[i].room /\ inv'[i].to = inv[i].to
        /\ inv'[i].from = inv[i].from /\ inv'[i].kind = inv[i].kind
    BY <1>6, <2>1 DEF InvRow
  <2> QED BY <1>6, <2>2
<1>8. Grows
  BY <1>4, <1>7 DEF IInv, RowsOK, Grows
<1>9. \A x \in Rooms : members[x] \subseteq members'[x]
  BY <1>3, <1>4 DEF IInv, RowsOK
<1>10. \A x \in Rooms : members'[x] # members[x] => x = rm /\ call[r].added
  BY <1>3, <1>4 DEF IInv, RowsOK
<1>11. RowsOK'
  <2>1. inv' \in [Invitations -> InvRow]
    <3>1. call[r].st \in Statuses
      BY <1>1 DEF Call
    <3>2. inv[i] \in InvRow
      BY <1>2 DEF IInv, RowsOK
    <3>3. [inv[i] EXCEPT !.st = call[r].st] \in InvRow
      BY <3>1, <3>2 DEF InvRow
    <3> QED BY <1>2, <1>4, <3>3 DEF IInv, RowsOK
  <2>2. members' \in [Rooms -> SUBSET Users]
    BY <1>3, <1>4 DEF IInv, RowsOK
  <2>3. rows' \in [Pairs -> {"none", "pending", "accepted", "blocked"}]
    BY <1>4 DEF IInv, RowsOK
  <2>4. answers' \in [Invitations -> Nat]
    <3>1. answers \in [Invitations -> Nat] /\ answers[i] + 1 \in Nat
      BY <1>2 DEF IInv, RowsOK
    <3> QED BY <1>4, <3>1
  <2>5. /\ agreed' \subseteq Users \X Rooms /\ admitted' \subseteq Users \X Rooms
        /\ shut' \subseteq Pairs
    BY <1>2, <1>3, <1>4 DEF IInv, RowsOK, Pairs
  <2> QED BY <1>4, <1>5, <2>1, <2>2, <2>3, <2>4, <2>5 DEF IInv, RowsOK
<1>12. InvKnown'
  <2>1. agreed \subseteq agreed' /\ admitted \subseteq admitted'
    BY <1>4
  <2>2. \A j \in Invitations : j >= nextInv => inv'[j] = inv[j]
    <3>1. ~(i >= nextInv)
      BY <1>2 DEF IInv, RowsOK, Invitations
    <3> QED BY <1>6, <3>1
  <2> QED BY <1>4, <1>7, <2>1, <2>2 DEF IInv, InvKnown
<1>13. CallsKnown'
  <2> SUFFICES ASSUME NEW q \in Calls PROVE Known(call[q])'
    BY DEF CallsKnown
  <2>1. CASE q # r
    BY <1>5, <1>8, <2>1, StillKnown DEF IInv, CallsKnown
  <2>2. CASE q = r
    BY <1>5, <2>2 DEF Returned, Known, Deciding
  <2> QED BY <2>1, <2>2
<1>14. OneAdder'
  BY <1>5, ReturnedKnown DEF IInv, OneAdder
<1>15. PlaceLeft'
  <2> SUFFICES ASSUME NEW q \in Calls, call'[q].added PROVE ~Full(call[q].rm)'
    BY DEF PlaceLeft
  <2>1. q # r /\ call'[q] = call[q]
    BY <1>5, ReturnedKnown
  <2>2. call[r].added => call[q].rm # rm
    BY <2>1 DEF IInv, OneAdder, rm
  <2>3. call[q].rm \in Rooms
    <3>1. Known(call[q]) /\ call[q].pc \in Deciding
      BY <2>1 DEF IInv, CallsKnown, Known, Deciding
    <3> QED BY <3>1 DEF Known, IInv, InvKnown
  <2>4. members'[call[q].rm] = members[call[q].rm]
    BY <1>10, <2>2, <2>3
  <2> QED BY <1>4, <2>1, <2>4 DEF IInv, PlaceLeft, Full
<1>16. CapacityKept'
  <2> SUFFICES ASSUME NEW x \in Rooms, room[x].max > 0
               PROVE  Cardinality(members'[x]) <= room[x].max
    BY <1>4 DEF CapacityKept
  <2>1. CASE members'[x] = members[x]
    BY <2>1 DEF IInv, CapacityKept
  <2>2. CASE members'[x] # members[x]
    <3>1. x = rm /\ call[r].added /\ members'[x] = members[x] \cup {w}
      BY <1>3, <1>4, <1>10, <2>2 DEF IInv, RowsOK
    <3>2. IsFiniteSet(members[x])
      BY FS_Subset DEF IInv, RowsOK
    <3>3. Cardinality(members[x]) \in Nat
      BY <3>2, FS_CardinalityType
    <3>4. Cardinality(members'[x]) <= Cardinality(members[x]) + 1
      <4>1. Cardinality(members[x] \cup {w}) =
              IF w \in members[x] THEN Cardinality(members[x]) ELSE Cardinality(members[x]) + 1
        BY <3>2, FS_AddElement
      <4> QED BY <3>1, <3>3, <4>1
    <3>5. Cardinality(members'[x]) \in Nat
      BY <3>1, <3>2, FS_AddElement, FS_CardinalityType
    <3>6. room[x].max \in Nat
      <4>1. room[x].max \in Capacities \cup {0}
        BY DEF IInv, RowsOK, RoomRow
      <4> QED BY <4>1, LimitsAreNumbers
    <3>7. ~(Cardinality(members[x]) >= room[x].max)
      BY <3>1 DEF IInv, PlaceLeft, Full, rm
    <3> QED BY <3>3, <3>4, <3>5, <3>6, <3>7
  <2> QED BY <2>1, <2>2
<1>17. BothConsent'
  <2> SUFFICES ASSUME NEW x \in Rooms, NEW v \in members'[x], v # room[x].owner
               PROVE  <<v, x>> \in agreed' /\ <<v, x>> \in admitted'
    BY <1>4 DEF BothConsent
  <2>1. CASE v \in members[x]
    BY <1>4, <2>1 DEF IInv, BothConsent
  <2>2. CASE v \notin members[x]
    <3>1. x = rm /\ call[r].added /\ v = w
      BY <1>3, <1>4, <1>10, <2>2 DEF IInv, RowsOK
    <3> QED BY <1>2, <1>3, <1>4, <3>1
  <2> QED BY <2>1, <2>2
<1>18. AcceptedIsMember'
  <2> SUFFICES ASSUME NEW j \in Invitations, inv'[j].st = "accepted"
               PROVE  inv'[j].to \in members'[inv'[j].room]
    BY DEF AcceptedIsMember
  <2>1. CASE j = i
    <3>1. call[r].added
      BY <1>2, <1>6, <2>1 DEF IInv, RowsOK, InvRow
    <3>2. w \in members'[rm]
      BY <1>3, <1>4, <3>1 DEF IInv, RowsOK
    <3> QED BY <1>2, <1>7, <2>1, <3>2
  <2>2. CASE j # i
    <3>1. inv'[j] = inv[j]
      BY <1>6, <2>2
    <3>2. inv[j] # NoInv
      BY <3>1 DEF NoInv
    <3>3. ~(j >= nextInv)
      BY <3>2 DEF IInv, InvKnown
    <3>4. j < nextInv
      BY <3>3 DEF IInv, RowsOK, Invitations
    <3>5. inv[j].room \in Rooms
      BY <3>4 DEF IInv, InvKnown
    <3> QED BY <1>9, <3>1, <3>5 DEF IInv, AcceptedIsMember
  <2> QED BY <2>1, <2>2
<1> QED BY <1>11, <1>12, <1>13, <1>14, <1>15, <1>16, <1>17, <1>18 DEF IInv

\* Friendships that change meanwhile leave rooms and members alone.
LEMMA FriendshipChangesKeeps ==
    ASSUME IInv, NEW p \in Acquainted, FriendshipChanges(p[1], p[2])
    PROVE  IInv'
<1>1. /\ room' = room /\ members' = members /\ inv' = inv /\ nextInv' = nextInv /\ call' = call
      /\ answers' = answers /\ agreed' = agreed /\ admitted' = admitted
  BY DEF FriendshipChanges
<1>2. rows' \in [Pairs -> {"none", "pending", "accepted", "blocked"}] /\ shut' \subseteq Pairs
  <2>1. rows \in [Pairs -> {"none", "pending", "accepted", "blocked"}] /\ shut \subseteq Pairs
    BY DEF IInv, RowsOK
  <2>2. PICK st \in {<<"none", "none">>, <<"pending", "none">>, <<"accepted", "accepted">>,
                     <<"blocked", "none">>} :
           rows' = [rows EXCEPT ![<<p[1], p[2]>>] = st[1], ![<<p[2], p[1]>>] = st[2]]
    BY DEF FriendshipChanges
  <2>3. /\ st[1] \in {"none", "pending", "accepted", "blocked"}
        /\ st[2] \in {"none", "pending", "accepted", "blocked"}
    BY <2>2
  <2>4. shut' \subseteq Pairs
    BY <2>1 DEF FriendshipChanges
  <2> QED BY <2>1, <2>2, <2>3, <2>4
<1>3. RowsOK'
  BY <1>1, <1>2 DEF IInv, RowsOK
<1>4. InvKnown' /\ CallsKnown' /\ PlaceLeft' /\ OneAdder'
  BY <1>1 DEF IInv, InvKnown, CallsKnown, Known, PlaceLeft, Full, OneAdder
<1>5. CapacityKept' /\ BothConsent' /\ AcceptedIsMember'
  BY <1>1 DEF IInv, CapacityKept, BothConsent, AcceptedIsMember
<1> QED BY <1>3, <1>4, <1>5 DEF IInv

-----------------------------------------------------------------------------
\* No room, no invitation, no request.
LEMMA InitIInv == Init => IInv
<1> SUFFICES ASSUME Init PROVE IInv
  OBVIOUS
<1> USE RoomsAssumption DEF Init
<1>1. NoRoom \in RoomRow /\ NoRoom.type = "none" /\ NoRoom.owner = NoUser /\ NoRoom.max = 0
  BY DEF NoRoom, RoomRow
<1>2. NoInv \in InvRow /\ NoInv.st = "none"
  BY DEF NoInv, InvRow, Statuses
<1>3. 1 \in 1..(MaxInv + 1)
  OBVIOUS
<1>4. RowsOK
  BY <1>1, <1>2, <1>3, ReturnedKnown DEF RowsOK
<1>5. InvKnown
  <2>1. \A i \in Invitations : ~(i < nextInv)
    BY DEF Invitations
  <2> QED BY <2>1 DEF InvKnown
<1>6. CallsKnown /\ PlaceLeft /\ OneAdder
  BY ReturnedKnown DEF CallsKnown, PlaceLeft, OneAdder
<1>7. CapacityKept /\ BothConsent /\ AcceptedIsMember
  BY <1>1, <1>2 DEF CapacityKept, BothConsent, AcceptedIsMember
<1> QED BY <1>4, <1>5, <1>6, <1>7 DEF IInv

\* Every step keeps the invariant.
LEMMA NextIInv == IInv /\ [Next]_vars => IInv'
<1> SUFFICES ASSUME IInv, [Next]_vars PROVE IInv'
  OBVIOUS
<1>1. CASE UNCHANGED vars
  BY <1>1 DEF vars, IInv, RowsOK, InvKnown, CallsKnown, Known, PlaceLeft, Full, OneAdder,
              CapacityKept, BothConsent, AcceptedIsMember
<1>2. ASSUME NEW r \in Calls, Start(r) PROVE IInv'
  BY <1>2, CreateRoomKeeps, CreateDirectFindKeeps, JoinFindKeeps, RespondFindKeeps,
     ApproveFindKeeps DEF Start
<1>3. ASSUME NEW r \in Calls, Continue(r) PROVE IInv'
  <2>1. CASE JoinFindInvitation(r)
    BY <2>1, ReturnStep, GotoStep DEF JoinFindInvitation
  <2>2. CASE Guard(r)
    BY <2>2, ReturnStep, GotoStep DEF Guard
  <2>3. CASE BlockRow(r)
    BY <2>3, ReturnStep, GotoStep DEF BlockRow
  <2>4. CASE Mark(r)
    BY <2>4, GotoStep DEF Mark
  <2> QED BY <1>3, <2>1, <2>2, <2>3, <2>4, CreateDirectKeeps, JoinCreateKeeps, AddKeeps,
             BlockKeeps, CommitKeeps DEF Continue
<1>4. CASE \E p \in Acquainted : FriendshipChanges(p[1], p[2])
  BY <1>4, FriendshipChangesKeeps
<1> QED BY <1>1, <1>2, <1>3, <1>4 DEF Next, Step

\* The facts above hold in every reachable state of the room use cases.
THEOREM Invariance == Spec => []IInv
BY InitIInv, NextIInv, PTL DEF Spec

\* The tables and the requests in progress keep their types.
THEOREM TypeCorrect == Spec => []TypeOK
<1>1. IInv => RowsOK
  BY DEF IInv
<1>2. Init => orderly \in BOOLEAN
  BY DEF Init
<1>3. orderly \in BOOLEAN /\ [Next]_vars => (orderly \in BOOLEAN)'
  BY Zenon DEF Next, Watch, vars
<1>4. Spec => [](orderly \in BOOLEAN)
  BY <1>2, <1>3, PTL DEF Spec
<1> QED BY <1>1, <1>4, Invariance, PTL DEF TypeOK

\* limit_member_of_room keeps every room within its limit, however many
\* requests compete for the last place.
THEOREM RoomsStayWithinLimit == Spec => []CapacityKept
<1>1. IInv => CapacityKept
  BY DEF IInv
<1> QED BY <1>1, Invariance, PTL

\* RespondToInvitation and ApproveJoinRequest let nobody in, and nobody be
\* brought in, without the consent of both sides.
THEOREM MembersConsented == Spec => []BothConsent
<1>1. IInv => BothConsent
  BY DEF IInv
<1> QED BY <1>1, Invariance, PTL

\* An accepted invitation or request always comes with its member.
THEOREM AcceptanceIsHonoured == Spec => []AcceptedIsMember
<1>1. IInv => AcceptedIsMember
  BY DEF IInv
<1> QED BY <1>1, Invariance, PTL

-----------------------------------------------------------------------------
(***************************************************************************)
(* Requests that do not overlap.  While orderly holds, at most one request *)
(* is in progress (Alone), so what it has read is still true when it       *)
(* writes (Fresh): the invitation it decides is pending until its commit.  *)
(***************************************************************************)

\* Watch: a step that moves one request and leaves orderly true finds no other
\* request in progress.
LEMMA AloneStep ==
    ASSUME orderly => Alone, Watch, NEW r \in Calls,
           \A q \in Calls \ {r} : call'[q] = call[q], orderly'
    PROVE  Alone'
<1>1. orderly /\ Alone /\ Cardinality(InProgress') <= 1
  BY DEF Watch
<1>2. IsFiniteSet(InProgress')
  <2>1. IsFiniteSet(InProgress)
    <3>1. CASE InProgress = {}
      BY <3>1, FS_EmptySet
    <3>2. CASE InProgress # {}
      <4>1. PICK q \in InProgress : TRUE
        BY <3>2
      <4>2. InProgress = {q}
        BY <1>1, <4>1 DEF Alone
      <4> QED BY <4>2, FS_Singleton
    <3> QED BY <3>1, <3>2
  <2>2. IsFiniteSet(InProgress \cup {r})
    BY <2>1, FS_AddElement
  <2>3. InProgress' \subseteq InProgress \cup {r}
    BY DEF InProgress
  <2> QED BY <2>2, <2>3, FS_Subset
<1>3. ASSUME NEW p \in InProgress', NEW q \in InProgress', p # q PROVE FALSE
  <2>1. IsFiniteSet({p}) /\ Cardinality({p}) = 1
    BY FS_Singleton
  <2>2. IsFiniteSet({p} \cup {q}) /\ Cardinality({p} \cup {q}) = 2
    <3>1. Cardinality({p} \cup {q}) = Cardinality({p}) + 1 /\ IsFiniteSet({p} \cup {q})
      BY <1>3, <2>1, FS_AddElement
    <3> QED BY <2>1, <3>1
  <2>3. {p} \cup {q} \subseteq InProgress'
    OBVIOUS
  <2>4. Cardinality({p} \cup {q}) <= Cardinality(InProgress') /\ Cardinality(InProgress') \in Nat
    BY <1>2, <2>3, FS_Subset, FS_CardinalityType
  <2> QED BY <1>1, <2>2, <2>4
<1> QED BY <1>3 DEF Alone

\* A step that only moves one request, to a step where it relies on no more than
\* it may.
LEMMA MoveInOrder ==
    ASSUME IInv, OInv, Watch, NEW r \in Calls, NEW c \in Call,
           call' = [call EXCEPT ![r] = c], UNCHANGED <<tables, history>>,
           Decided(c), orderly => Fresh(c)
    PROVE  OInv'
<1>1. call'[r] = c /\ \A q \in Calls \ {r} : call'[q] = call[q]
  BY DEF IInv, RowsOK
<1>2. /\ room' = room /\ members' = members /\ inv' = inv /\ nextInv' = nextInv /\ rows' = rows
      /\ answers' = answers /\ agreed' = agreed /\ admitted' = admitted /\ shut' = shut
  BY DEF tables, history
<1>3. (\A q \in Calls : Decided(call[q]))'
  BY <1>1, <1>2 DEF OInv, Decided
<1>4. BlockStands'
  BY <1>2 DEF OInv, BlockStands
<1>5. ASSUME orderly' PROVE Undisturbed'
  <2>1. orderly /\ Undisturbed
    BY <1>5 DEF Watch, OInv
  <2>2. Alone'
    BY <1>1, <1>5, <2>1, AloneStep DEF Undisturbed
  <2>3. AnsweredOnce' /\ MembersInvited' /\ AsksOnce'
    BY <1>2, <2>1 DEF Undisturbed, AnsweredOnce, MembersInvited, AsksOnce, Asks
  <2>4. (\A q \in Calls : Fresh(call[q]))'
    BY <1>1, <1>2, <2>1 DEF Undisturbed, Fresh, Asks
  <2> QED BY <2>2, <2>3, <2>4 DEF Undisturbed
<1> QED BY <1>3, <1>4, <1>5 DEF OInv

\* A request that is over relies on nothing.
LEMMA ReturnInOrder ==
    ASSUME IInv, OInv, Watch, NEW r \in Calls, Return(r), UNCHANGED <<tables, history>>
    PROVE  OInv'
<1>1. call' = [call EXCEPT ![r] = Returned] /\ Returned \in Call
  BY ReturnedKnown DEF Return
<1>2. Decided(Returned) /\ Fresh(Returned)
  BY DEF Returned, Decided, Fresh, Deciding
<1> QED BY <1>1, <1>2, MoveInOrder

\* A request that starts with two reads, or to create a direct room, has
\* decided nothing yet.
LEMMA StartInOrder ==
    ASSUME IInv, OInv, Watch, NEW r \in Calls, NEW c \in Call,
           call' = call \/ call' = [call EXCEPT ![r] = c], UNCHANGED <<tables, history>>,
           c.pc \in {"create", "joinFind"}
    PROVE  OInv'
<1>1. Decided(c) /\ Fresh(c)
  BY DEF Decided, Fresh, Deciding
<1>2. CASE call' = [call EXCEPT ![r] = c]
  BY <1>1, <1>2, MoveInOrder
<1>3. CASE call' = call
  <2>1. call[r] \in Call /\ call' = [call EXCEPT ![r] = call[r]]
    BY <1>3 DEF IInv, RowsOK
  <2>2. Decided(call[r]) /\ (orderly => Fresh(call[r]))
    BY DEF OInv, Undisturbed
  <2> QED BY <2>1, <2>2, MoveInOrder
<1> QED BY <1>2, <1>3

\* Finding a pending invitation to decide on.
LEMMA DecidesInOrder ==
    ASSUME IInv, OInv, Watch, NEW r \in Calls, NEW u \in Users, NEW i \in Invitations,
           NEW pc \in {"guard", "mark", "block"}, NEW st \in {"accepted", "rejected", "blocked"},
           Decides(r, u, i, pc, st), UNCHANGED <<tables, history>>,
           pc = "mark" => st = "rejected", inv[i].st = "pending"
    PROVE  OInv'
<1> DEFINE c == [Returned EXCEPT !.pc = pc, !.me = u, !.inv = i, !.rm = inv[i].room,
                                 !.who = inv[i].to, !.st = st]
<1>1. call' = [call EXCEPT ![r] = c]
  BY DEF Decides
<1>2. inv[i] \in InvRow
  BY DEF IInv, RowsOK
<1>3. c \in Call
  <2>1. i \in 0..MaxInv /\ st \in Statuses
    BY RoomsAssumption DEF Invitations, Statuses
  <2> QED BY <1>2, <2>1, ReturnedKnown DEF Returned, Call, InvRow
<1>4. Decided(c) /\ Fresh(c)
  BY DEF Returned, Decided, Fresh, Deciding
<1> HIDE DEF c
<1> QED BY <1>1, <1>3, <1>4, MoveInOrder

\* The steps on which a request keeps its data.
LEMMA GoesOnInOrder ==
    ASSUME IInv, OInv, Watch, NEW r \in Calls, UNCHANGED <<tables, history>>,
           NEW pc \in {"joinCreate", "add", "mark", "commit"}, NEW added \in BOOLEAN,
           call' = [call EXCEPT ![r].pc = pc, ![r].added = added],
           \/ /\ pc = "joinCreate" /\ call[r].pc = "joinFind"
              /\ FindByRoomAndInvitee(call[r].rm, call[r].me) = {}
           \/ pc = "add" /\ call[r].pc = "guard"
           \/ pc = "mark" /\ call[r].pc \in {"add", "blockUpdate", "blockCreate"}
           \/ pc = "commit" /\ call[r].pc = "mark"
    PROVE  OInv'
<1> DEFINE c == [call[r] EXCEPT !.pc = pc, !.added = added]
<1>1. call[r] \in Call /\ call \in [Calls -> Call] /\ Known(call[r])
  BY DEF IInv, RowsOK, CallsKnown
<1>2. call' = [call EXCEPT ![r] = c]
  BY <1>1
<1>3. c \in Call
  BY <1>1 DEF Call
<1>4. Decided(call[r]) /\ (orderly => Fresh(call[r]))
  BY DEF OInv, Undisturbed
<1>5. /\ c.pc = pc /\ c.st = call[r].st /\ c.row = call[r].row /\ c.me = call[r].me
      /\ c.inv = call[r].inv /\ c.rm = call[r].rm
  BY <1>1 DEF Call
<1> HIDE DEF c
<1>6. Decided(c)
  <2>1. CASE call[r].pc \in {"joinFind", "guard", "add"}
    BY <1>1, <1>4, <1>5, <2>1 DEF Decided, Deciding, Known
  <2>2. CASE call[r].pc \in {"blockUpdate", "blockCreate", "mark"}
    BY <1>4, <1>5, <2>2 DEF Decided, Deciding
  <2> QED BY <2>1, <2>2
<1>7. ASSUME orderly PROVE Fresh(c)
  <2>1. CASE pc = "joinCreate"
    BY <1>5, <2>1 DEF Fresh, Deciding, FindByRoomAndInvitee, Asks
  <2>2. CASE pc # "joinCreate"
    BY <1>4, <1>5, <1>7, <2>2 DEF Fresh, Deciding
  <2> QED BY <2>1, <2>2
<1> QED BY <1>2, <1>3, <1>6, <1>7, MoveInOrder

\* The row of a block is one of the two of the pair.
LEMMA BlockInOrder ==
    ASSUME IInv, OInv, Watch, NEW r \in Calls, Block(r)
    PROVE  OInv'
<1>1. call[r] \in Call /\ call \in [Calls -> Call] /\ Known(call[r])
  BY DEF IInv, RowsOK, CallsKnown
<1>2. <<call[r].me, inv[call[r].inv].from>> \in Pairs /\ call[r].pc = "block"
  BY <1>1 DEF Block, Known, Deciding, IInv, InvKnown, Pairs
<1>3. PICK pc \in {"blockUpdate", "blockCreate"}, p \in Pairs :
         /\ call' = [call EXCEPT ![r].pc = pc, ![r].row = p]
         /\ p \in {<<call[r].me, inv[call[r].inv].from>>, <<inv[call[r].inv].from, call[r].me>>}
  BY <1>2 DEF Block, RowsBetween, Pairs
<1> DEFINE c == [call[r] EXCEPT !.pc = pc, !.row = p]
<1>4. call' = [call EXCEPT ![r] = c] /\ UNCHANGED <<tables, history>>
  BY <1>1, <1>3 DEF Block
<1>5. c \in Call
  BY <1>1 DEF Call
<1>6. /\ c.pc = pc /\ c.st = call[r].st /\ c.row = p /\ c.me = call[r].me
      /\ c.inv = call[r].inv /\ c.rm = call[r].rm
  BY <1>1 DEF Call
<1> HIDE DEF c
<1>7. Decided(call[r]) /\ (orderly => Fresh(call[r]))
  BY DEF OInv, Undisturbed
<1>8. Decided(c)
  BY <1>2, <1>3, <1>6, <1>7 DEF Decided, Deciding
<1>9. orderly => Fresh(c)
  BY <1>2, <1>6, <1>7 DEF Fresh, Deciding
<1> QED BY <1>4, <1>5, <1>8, <1>9, MoveInOrder

\* An invitation that is not made yet has no status.
LEMMA NotMadeYet ==
    ASSUME IInv, NEW i \in Invitations
    PROVE  /\ i >= nextInv => inv[i].st = "none"
           /\ ~(i < nextInv) => i >= nextInv
<1>1. i >= nextInv => inv[i] = NoInv
  BY DEF IInv, InvKnown
<1>2. NoInv.st = "none"
  BY DEF NoInv
<1>3. i \in Nat /\ nextInv \in Nat
  BY DEF IInv, RowsOK, Invitations
<1> QED BY <1>1, <1>2, <1>3

\* A decision about an invitation of which all but the status stays.
LEMMA StillDecided ==
    ASSUME IInv, OInv, Grows, NEW q \in Calls, call'[q] = call[q]
    PROVE  Decided(call[q])'
<1>1. Known(call[q]) /\ Decided(call[q])
  BY DEF IInv, CallsKnown, OInv
<1>2. call[q].pc \in Deciding => inv'[call[q].inv].from = inv[call[q].inv].from
  BY <1>1 DEF Known, Grows
<1> QED BY <1>1, <1>2 DEF Decided, Deciding

\* New rooms and invitations: they are of nobody's deciding yet, and the one
\* member of a new room owns it.
LEMMA NewRowsInOrder ==
    ASSUME IInv, OInv, Watch, NEW r \in Calls, call' = call \/ Return(r), Grows,
           rows' = rows, answers' = answers, shut' = shut,
           \A i \in Invitations : i < nextInv => inv'[i] = inv[i],
           \A i \in Invitations : i >= nextInv => inv'[i].st \in {"none", "pending"},
           \A rm \in Rooms : \/ members'[rm] = members[rm] /\ room'[rm] = room[rm]
                             \/ members'[rm] = {room'[rm].owner}
    PROVE  /\ (\A q \in Calls : Decided(call[q]))' /\ BlockStands'
           /\ orderly' => Alone' /\ AnsweredOnce' /\ MembersInvited'
           /\ \A q \in Calls : call'[q] = Returned \/ call'[q] = call[q]
<1>1. \A q \in Calls : call'[q] = Returned \/ call'[q] = call[q]
  BY DEF IInv, RowsOK, Return
<1>2. (\A q \in Calls : Decided(call[q]))'
  <2> SUFFICES ASSUME NEW q \in Calls PROVE Decided(call[q])'
    OBVIOUS
  <2>1. CASE call'[q] = Returned
    BY <2>1 DEF Returned, Decided, Deciding
  <2> QED BY <1>1, <2>1, StillDecided
<1>3. BlockStands'
  BY DEF OInv, BlockStands
<1>4. ASSUME orderly' PROVE Alone' /\ AnsweredOnce' /\ MembersInvited'
  <2>1. orderly /\ Undisturbed
    BY <1>4 DEF Watch, OInv
  <2>2. \A q \in Calls \ {r} : call'[q] = call[q]
    BY DEF IInv, RowsOK, Return
  <2>3. Alone'
    BY <1>4, <2>1, <2>2, AloneStep DEF Undisturbed
  <2>4. \A i \in Invitations : ~(i < nextInv) => i >= nextInv
    BY NotMadeYet
  <2>5. AnsweredOnce'
    <3> SUFFICES ASSUME NEW i \in Invitations
                 PROVE  answers'[i] = IF inv'[i].st \in {"none", "pending"} THEN 0 ELSE 1
      BY DEF AnsweredOnce
    <3>1. answers[i] = IF inv[i].st \in {"none", "pending"} THEN 0 ELSE 1
      BY <2>1 DEF Undisturbed, AnsweredOnce
    <3>2. CASE i < nextInv
      BY <3>1, <3>2
    <3>3. CASE i >= nextInv
      <4>1. inv[i].st = "none"
        BY <3>3, NotMadeYet
      <4> QED BY <3>1, <3>3, <4>1
    <3> QED BY <2>4, <3>2, <3>3
  <2>6. MembersInvited'
    <3> SUFFICES ASSUME NEW rm \in Rooms, NEW u \in members'[rm], u # room'[rm].owner
                 PROVE  \E j \in Invitations : /\ inv'[j].room = rm /\ inv'[j].to = u
                                               /\ inv'[j].st = "accepted"
      BY DEF MembersInvited
    <3>1. u \in members[rm] /\ u # room[rm].owner
      OBVIOUS
    <3>2. PICK j \in Invitations : inv[j].room = rm /\ inv[j].to = u /\ inv[j].st = "accepted"
      BY <2>1, <3>1 DEF Undisturbed, MembersInvited
    <3>3. j < nextInv
      BY <3>2, NotMadeYet
    <3> QED BY <3>2, <3>3
  <2> QED BY <2>3, <2>5, <2>6
<1> QED BY <1>1, <1>2, <1>3, <1>4

\* CreateChatRoom: invitations are no requests to join.
LEMMA InsertedInOrder ==
    ASSUME IInv, OInv, Watch, NEW r \in Calls, NEW rm \in Rooms, NEW u \in Users,
           NEW type \in {"direct", "group"}, NEW max \in Capacities \cup {0},
           NEW list \in Seq(Users), Inserted(rm, u, type, max, list),
           call' = call \/ Return(r)
    PROVE  OInv'
<1> USE RoomsAssumption
<1>1. nextInv \in 1..(MaxInv + 1) /\ nextInv' = nextInv + Len(list) /\ Len(list) \in Nat
      /\ nextInv' \in 1..(MaxInv + 1)
  BY DEF IInv, RowsOK, Inserted
<1>2. /\ room[rm].type = "none" /\ rows' = rows /\ answers' = answers /\ shut' = shut
      /\ room'[rm].owner = u /\ members'[rm] = {u}
      /\ \A x \in Rooms \ {rm} : room'[x] = room[x] /\ members'[x] = members[x]
  BY DEF Inserted, IInv, RowsOK
<1>3. ASSUME NEW i \in Invitations
      PROVE  /\ i < nextInv => inv'[i] = inv[i]
             /\ inv'[i] # inv[i] => inv'[i].kind = "invitation" /\ inv'[i].st = "pending"
  BY <1>1 DEF Inserted, Invitations
<1>4. Grows
  <2>1. nextInv <= nextInv'
    BY <1>1
  <2> QED BY <1>1, <1>2, <1>3, <2>1 DEF Grows
<1>5. \A i \in Invitations : i >= nextInv => inv'[i].st \in {"none", "pending"}
  BY <1>3, NotMadeYet
<1>6. /\ (\A q \in Calls : Decided(call[q]))' /\ BlockStands'
      /\ orderly' => Alone' /\ AnsweredOnce' /\ MembersInvited'
      /\ \A q \in Calls : call'[q] = Returned \/ call'[q] = call[q]
  BY <1>2, <1>3, <1>4, <1>5, NewRowsInOrder
<1>7. ASSUME orderly' PROVE AsksOnce' /\ (\A q \in Calls : Fresh(call[q]))'
  <2>1. orderly /\ Undisturbed
    BY <1>7 DEF Watch, OInv
  <2>2. \A i \in Invitations, x \in Rooms, v \in Users : Asks(i, x, v)' => Asks(i, x, v)
    BY <1>3 DEF Asks
  <2>3. AsksOnce'
    BY <2>1, <2>2 DEF Undisturbed, AsksOnce
  <2>4. ASSUME NEW q \in Calls PROVE Fresh(call[q])'
    <3>1. CASE call'[q] = Returned
      BY <3>1 DEF Returned, Fresh, Deciding
    <3>2. CASE call'[q] = call[q]
      <4>1. Fresh(call[q]) /\ Known(call[q])
        BY <2>1 DEF Undisturbed, IInv, CallsKnown
      <4>2. call[q].pc \in Deciding => inv'[call[q].inv].st = "pending"
        BY <1>3, <4>1 DEF Fresh, Known
      <4>3. call[q].pc = "joinCreate" => \A i \in Invitations : ~Asks(i, call[q].rm, call[q].me)'
        BY <1>3, <3>2, <4>1 DEF Fresh, Asks
      <4> QED BY <3>2, <4>2, <4>3 DEF Fresh, Asks
    <3> QED BY <1>6, <3>1, <3>2
  <2> QED BY <2>3, <2>4
<1> QED BY <1>6, <1>7 DEF OInv, Undisturbed

\* JoinChatRoom's insert: alone, its two reads are still true.
LEMMA JoinCreateInOrder ==
    ASSUME IInv, OInv, Watch, NEW r \in Calls, JoinCreate(r)
    PROVE  OInv'
<1> USE RoomsAssumption
<1> DEFINE u == call[r].me
           rm == call[r].rm
<1>1. Return(r) /\ Known(call[r]) /\ call[r].pc = "joinCreate"
  BY DEF JoinCreate, IInv, CallsKnown
<1>2. u \in Users /\ rm \in Rooms
  BY <1>1 DEF Known
<1>3. orderly => \A i \in Invitations : ~Asks(i, rm, u)
  BY <1>1 DEF OInv, Undisturbed, Fresh
<1> HIDE DEF u, rm
<1>4. CASE UNCHANGED <<tables, history>>
  BY <1>1, <1>4, ReturnInOrder
<1>5. CASE ~UNCHANGED <<tables, history>>
  <2> DEFINE new == [room |-> rm, from |-> u, to |-> u, kind |-> "join_request", st |-> "pending"]
  <2>1. /\ nextInv <= MaxInv /\ inv' = [inv EXCEPT ![nextInv] = new] /\ nextInv' = nextInv + 1
        /\ room' = room /\ members' = members /\ rows' = rows /\ answers' = answers
        /\ shut' = shut
    BY <1>5 DEF JoinCreate, u, rm
  <2>2. nextInv \in Invitations /\ nextInv \in Nat /\ nextInv' \in 1..(MaxInv + 1)
    BY <2>1 DEF IInv, RowsOK, Invitations
  <2>3. inv'[nextInv] = new /\ \A i \in Invitations \ {nextInv} : inv'[i] = inv[i]
    BY <2>1, <2>2 DEF IInv, RowsOK
  <2>4. \A i \in Invitations : i < nextInv => inv'[i] = inv[i]
    BY <2>2, <2>3 DEF Invitations
  <2>5. Grows
    <3>1. nextInv <= nextInv'
      BY <2>1, <2>2
    <3> QED BY <2>1, <2>2, <2>4, <3>1 DEF Grows
  <2>6. \A i \in Invitations : i >= nextInv => inv'[i].st \in {"none", "pending"}
    BY <2>3, NotMadeYet, <2>2
  <2>7. /\ (\A q \in Calls : Decided(call[q]))' /\ BlockStands'
        /\ orderly' => Alone' /\ AnsweredOnce' /\ MembersInvited'
    BY <1>1, <2>1, <2>4, <2>5, <2>6, NewRowsInOrder
  <2>8. ASSUME orderly' PROVE AsksOnce' /\ (\A q \in Calls : Fresh(call[q]))'
    <3>1. orderly /\ Undisturbed
      BY <2>8 DEF Watch, OInv
    <3>2. \A i \in Invitations \ {nextInv}, x \in Rooms, v \in Users : Asks(i, x, v)' <=> Asks(i, x, v)
      BY <2>3 DEF Asks
    <3>3. \A x \in Rooms, v \in Users :
             inv'[nextInv].room = x /\ inv'[nextInv].to = v => x = rm /\ v = u
      BY <2>3
    <3>4. AsksOnce'
      <4> SUFFICES ASSUME NEW x \in Rooms, NEW v \in Users, NEW i \in Invitations,
                          NEW j \in Invitations, Asks(i, x, v)', Asks(j, x, v)'
                   PROVE  i = j
        BY DEF AsksOnce
      <4>1. CASE i # nextInv /\ j # nextInv
        BY <3>1, <3>2, <4>1 DEF Undisturbed, AsksOnce
      <4>2. CASE i = nextInv \/ j = nextInv
        <5>1. x = rm /\ v = u
          BY <3>3, <4>2 DEF Asks
        <5>2. \A k \in Invitations \ {nextInv} : ~Asks(k, x, v)'
          BY <1>3, <3>1, <3>2, <5>1
        <5> QED BY <5>2
      <4> QED BY <4>1, <4>2
    <3>5. ASSUME NEW q \in Calls PROVE Fresh(call[q])'
      <4>1. call'[q].pc = "idle"
        <5>1. CASE q = r
          BY <1>1, <5>1 DEF Return, Returned, IInv, RowsOK
        <5>2. CASE q # r
          <6>1. call'[q] = call[q]
            BY <1>1, <5>2 DEF Return, IInv, RowsOK
          <6> QED BY <1>1, <3>1, <5>2, <6>1 DEF Undisturbed, Alone, InProgress
        <5> QED BY <5>1, <5>2
      <4> QED BY <4>1 DEF Fresh, Deciding
    <3> QED BY <3>4, <3>5
  <2> QED BY <2>7, <2>8 DEF OInv, Undisturbed
<1> QED BY <1>4, <1>5

\* A commit answers an invitation that was pending, and a block reaches the row.
LEMMA CommitInOrder ==
    ASSUME IInv, OInv, Watch, NEW r \in Calls, Commit(r)
    PROVE  OInv'
<1> DEFINE i == call[r].inv
           rm == call[r].rm
           w == call[r].who
<1>1. /\ Known(call[r]) /\ call[r] \in Call /\ call[r].pc = "commit" /\ Return(r)
      /\ Decided(call[r]) /\ (orderly => Fresh(call[r]))
  BY DEF IInv, CallsKnown, RowsOK, Commit, OInv, Undisturbed
<1>2. /\ i \in Invitations /\ i < nextInv /\ rm = inv[i].room /\ w = inv[i].to
      /\ call[r].st \in {"accepted", "rejected", "blocked"} /\ call[r].me \in Users
      /\ call[r].added <=> call[r].st = "accepted"
      /\ orderly => inv[i].st = "pending"
  BY <1>1 DEF Known, Decided, Fresh, Deciding
<1>3. rm \in Rooms /\ w \in Users /\ inv[i].from \in Users
  BY <1>2 DEF IInv, InvKnown
<1>4. /\ inv' = [inv EXCEPT ![i].st = call[r].st]
      /\ members' = IF call[r].added THEN [members EXCEPT ![rm] = @ \cup {w}] ELSE members
      /\ rows' = IF call[r].row # NoPair THEN [rows EXCEPT ![call[r].row] = "blocked"] ELSE rows
      /\ answers' = [answers EXCEPT ![i] = @ + 1]
      /\ shut' = IF call[r].st = "blocked" THEN shut \cup {<<call[r].me, inv[i].from>>} ELSE shut
      /\ room' = room /\ nextInv' = nextInv
  BY <1>2 DEF Commit
<1>5. call'[r] = Returned /\ \A q \in Calls \ {r} : call'[q] = call[q]
  BY <1>1, ReturnedKnown DEF IInv, RowsOK, Return
<1>6. call[r].st = "blocked" => call[r].row \in {<<call[r].me, inv[i].from>>, <<inv[i].from, call[r].me>>}
  BY <1>1 DEF Decided
<1>7. call[r].row # NoPair => call[r].row \in Pairs
  BY <1>1 DEF Call
<1> HIDE DEF i, rm, w
<1>8. inv[i] \in InvRow /\ inv \in [Invitations -> InvRow]
  BY <1>2 DEF IInv, RowsOK
<1>9. /\ inv'[i].st = call[r].st
      /\ \A j \in Invitations \ {i} : inv'[j] = inv[j]
      /\ \A j \in Invitations : /\ inv'[j].room = inv[j].room /\ inv'[j].to = inv[j].to
                                /\ inv'[j].from = inv[j].from /\ inv'[j].kind = inv[j].kind
  <2>1. inv'[i] = [inv[i] EXCEPT !.st = call[r].st] /\ \A j \in Invitations \ {i} : inv'[j] = inv[j]
    BY <1>2, <1>4, <1>8
  <2>2. /\ inv'[i].room = inv[i].room /\ inv'[i].to = inv[i].to
        /\ inv'[i].from = inv[i].from /\ inv'[i].kind = inv[i].kind
        /\ inv'[i].st = call[r].st
    BY <2>1, <1>8 DEF InvRow
  <2> QED BY <2>1, <2>2
<1>10. Grows
  BY <1>4, <1>9 DEF IInv, RowsOK, Grows
<1>11. (\A q \in Calls : Decided(call[q]))'
  <2> SUFFICES ASSUME NEW q \in Calls PROVE Decided(call[q])'
    OBVIOUS
  <2>1. CASE q = r
    BY <1>5, <2>1 DEF Returned, Decided, Deciding
  <2>2. CASE q # r
    BY <1>5, <1>10, <2>2, StillDecided
  <2> QED BY <2>1, <2>2
<1>12. BlockStands'
  <2>1. \A p \in Pairs : rows[p] = "blocked" => rows'[p] = "blocked"
    BY <1>4, <1>7 DEF IInv, RowsOK
  <2>2. \A p \in shut : p \in Pairs /\ <<p[2], p[1]>> \in Pairs
    BY DEF IInv, RowsOK, Pairs
  <2>3. \A p \in shut : rows'[p] = "blocked" \/ rows'[<<p[2], p[1]>>] = "blocked"
    BY <2>1, <2>2 DEF OInv, BlockStands
  <2>4. ASSUME call[r].st = "blocked"
        PROVE  \/ rows'[<<call[r].me, inv[i].from>>] = "blocked"
               \/ rows'[<<inv[i].from, call[r].me>>] = "blocked"
    <3>1. call[r].row # NoPair
      BY <1>2, <1>3, <1>6, <2>4, RoomsAssumption DEF NoPair
    <3>2. rows'[call[r].row] = "blocked"
      BY <1>4, <1>7, <3>1 DEF IInv, RowsOK
    <3> QED BY <1>6, <2>4, <3>2
  <2> SUFFICES ASSUME NEW p \in shut'
               PROVE  rows'[p] = "blocked" \/ rows'[<<p[2], p[1]>>] = "blocked"
    BY DEF BlockStands
  <2>5. CASE p \in shut
    BY <2>3, <2>5
  <2>6. CASE p \notin shut
    <3>1. call[r].st = "blocked" /\ p = <<call[r].me, inv[i].from>>
      BY <1>4, <2>6
    <3>2. p[1] = call[r].me /\ p[2] = inv[i].from
      BY <3>1
    <3> QED BY <2>4, <3>1, <3>2
  <2> QED BY <2>5, <2>6
<1>13. ASSUME orderly' PROVE Undisturbed'
  <2>1. orderly /\ Undisturbed /\ inv[i].st = "pending"
    BY <1>2, <1>13 DEF Watch, OInv
  <2>2. Alone'
    BY <1>5, <1>13, <2>1, AloneStep DEF Undisturbed
  <2>3. AnsweredOnce'
    <3>1. answers[i] = 0 /\ answers'[i] = 1
      BY <1>2, <1>4, <2>1 DEF Undisturbed, AnsweredOnce, IInv, RowsOK
    <3>2. \A j \in Invitations \ {i} : answers'[j] = answers[j]
      BY <1>4 DEF IInv, RowsOK
    <3> QED BY <1>2, <1>9, <2>1, <3>1, <3>2 DEF Undisturbed, AnsweredOnce
  <2>4. MembersInvited'
    <3> SUFFICES ASSUME NEW x \in Rooms, NEW u \in members'[x], u # room[x].owner
                 PROVE  \E j \in Invitations : /\ inv'[j].room = x /\ inv'[j].to = u
                                               /\ inv'[j].st = "accepted"
      BY <1>4 DEF MembersInvited
    <3>1. CASE u \in members[x]
      <4>1. PICK j \in Invitations : inv[j].room = x /\ inv[j].to = u /\ inv[j].st = "accepted"
        BY <2>1, <3>1 DEF Undisturbed, MembersInvited
      <4>2. j # i
        BY <2>1, <4>1
      <4> QED BY <1>9, <4>1, <4>2
    <3>2. CASE u \notin members[x]
      <4>1. call[r].st = "accepted" /\ x = rm /\ u = w
        BY <1>2, <1>3, <1>4, <3>2 DEF IInv, RowsOK
      <4> QED BY <1>2, <1>9, <4>1
    <3> QED BY <3>1, <3>2
  <2>5. AsksOnce'
    <3>1. \A j \in Invitations, x \in Rooms, v \in Users : Asks(j, x, v)' => Asks(j, x, v)
      BY <1>2, <1>9 DEF Asks
    <3> QED BY <2>1, <3>1 DEF Undisturbed, AsksOnce
  <2>6. ASSUME NEW q \in Calls PROVE Fresh(call[q])'
    <3>1. call'[q].pc = "idle"
      BY <1>1, <1>5, <2>1 DEF Undisturbed, Alone, InProgress, Returned
    <3> QED BY <3>1 DEF Fresh, Deciding
  <2> QED BY <2>2, <2>3, <2>4, <2>5, <2>6 DEF Undisturbed
<1> QED BY <1>11, <1>12, <1>13 DEF OInv

\* The friendship use cases may lift a block, with the fact that it was made.
LEMMA FriendshipInOrder ==
    ASSUME IInv, OInv, Watch, NEW p \in Acquainted, FriendshipChanges(p[1], p[2])
    PROVE  OInv'
<1>1. /\ room' = room /\ members' = members /\ inv' = inv /\ call' = call /\ answers' = answers
      /\ shut' = shut \ {<<p[1], p[2]>>, <<p[2], p[1]>>}
  BY DEF FriendshipChanges
<1>2. \A q \in Pairs \ {<<p[1], p[2]>>, <<p[2], p[1]>>} : rows'[q] = rows[q]
  BY DEF FriendshipChanges, IInv, RowsOK
<1>3. BlockStands'
  <2> SUFFICES ASSUME NEW q \in shut' PROVE rows'[q] = "blocked" \/ rows'[<<q[2], q[1]>>] = "blocked"
    BY DEF BlockStands
  <2>1. PICK u \in Users, v \in Users : q = <<u, v>>
    BY <1>1 DEF IInv, RowsOK, Pairs
  <2>2. /\ q \in Pairs \ {<<p[1], p[2]>>, <<p[2], p[1]>>}
        /\ <<v, u>> \in Pairs \ {<<p[1], p[2]>>, <<p[2], p[1]>>}
    BY <1>1, <2>1 DEF Pairs
  <2>3. rows[q] = "blocked" \/ rows[<<v, u>>] = "blocked"
    BY <1>1, <2>1 DEF OInv, BlockStands
  <2> QED BY <1>2, <2>1, <2>2, <2>3
<1>4. (\A q \in Calls : Decided(call[q]))'
  BY <1>1 DEF OInv, Decided
<1>5. orderly' => Undisturbed'
  <2> SUFFICES ASSUME orderly' PROVE Undisturbed'
    OBVIOUS
  <2>1. Undisturbed
    BY DEF Watch, OInv
  <2>2. Alone' /\ AnsweredOnce' /\ MembersInvited'
    BY <1>1, <2>1 DEF Undisturbed, Alone, InProgress, AnsweredOnce, MembersInvited
  <2>3. AsksOnce' /\ (\A q \in Calls : Fresh(call[q]))'
    BY <1>1, <2>1 DEF Undisturbed, AsksOnce, Asks, Fresh
  <2> QED BY <2>2, <2>3 DEF Undisturbed
<1> QED BY <1>3, <1>4, <1>5 DEF OInv

\* Requests that overlap or not, OInv holds at the start ...
LEMMA InitInOrder == Init => OInv
<1> SUFFICES ASSUME Init PROVE OInv
  OBVIOUS
<1>1. Decided(Returned) /\ Fresh(Returned) /\ Returned.pc = "idle"
  BY DEF Returned, Decided, Fresh, Deciding
<1>2. NoInv.st = "none" /\ NoInv.kind = "none"
  BY DEF NoInv
<1>3. Alone /\ \A r \in Calls : Decided(call[r]) /\ Fresh(call[r])
  BY <1>1 DEF Init, Alone, InProgress
<1>4. BlockStands /\ MembersInvited
  BY DEF Init, BlockStands, MembersInvited
<1>5. AnsweredOnce /\ AsksOnce
  BY <1>2 DEF Init, AnsweredOnce, AsksOnce, Asks
<1> QED BY <1>3, <1>4, <1>5 DEF OInv, Undisturbed

\* ... and after every step.
LEMMA NextInOrder == IInv /\ OInv /\ [Next]_vars => OInv'
<1> SUFFICES ASSUME IInv, OInv, [Next]_vars PROVE OInv'
  OBVIOUS
<1>1. CASE UNCHANGED vars
  BY <1>1 DEF vars, OInv, Decided, BlockStands, Undisturbed, Alone, InProgress, AnsweredOnce,
              MembersInvited, AsksOnce, Asks, Fresh
<1>2. ASSUME NEW r \in Calls, Start(r), Watch PROVE OInv'
  <2>1. ASSUME NEW u \in Owners, NEW max \in Capacities, NEW list \in Lists,
               CreateRoom(r, u, max, list)
        PROVE  OInv'
    <3>1. PICK rm \in Rooms, type \in {"direct", "group"} : Inserted(rm, u, type, max, list)
      BY <2>1 DEF CreateRoom
    <3>2. call' = call /\ u \in Users /\ list \in Seq(Users) /\ max \in Capacities \cup {0}
      BY <2>1, RoomsAssumption DEF CreateRoom
    <3> QED BY <1>2, <3>1, <3>2, InsertedInOrder
  <2>2. ASSUME NEW u \in Owners, NEW v \in Users, NEW max \in Capacities,
               CreateDirectFind(r, u, v, max)
        PROVE  OInv'
    <3> DEFINE c == [Returned EXCEPT !.pc = "create", !.me = u, !.who = v, !.max = max]
    <3>1. call' = [call EXCEPT ![r] = c] /\ UNCHANGED <<tables, history>>
      BY <2>2 DEF CreateDirectFind
    <3>2. c \in Call /\ c.pc = "create"
      BY ReturnedKnown, RoomsAssumption DEF Returned, Call
    <3> HIDE DEF c
    <3> QED BY <1>2, <3>1, <3>2, StartInOrder
  <2>3. ASSUME NEW u \in Users, NEW rm \in Rooms, JoinFind(r, u, rm) PROVE OInv'
    <3> DEFINE c == [Returned EXCEPT !.pc = "joinFind", !.me = u, !.rm = rm]
    <3>1. /\ call' = call \/ call' = [call EXCEPT ![r] = c]
          /\ UNCHANGED <<tables, history>>
      BY <2>3 DEF JoinFind
    <3>2. c \in Call /\ c.pc = "joinFind"
      BY ReturnedKnown DEF Returned, Call
    <3> HIDE DEF c
    <3> QED BY <1>2, <3>1, <3>2, StartInOrder
  <2>4. ASSUME NEW u \in Users, NEW i \in Invitations, RespondFind(r, u, i) \/ ApproveFind(r, u, i)
        PROVE  OInv'
    <3>1. PICK pc \in {"guard", "mark", "block"}, st \in {"accepted", "rejected", "blocked"} :
             Decides(r, u, i, pc, st) /\ (pc = "mark" => st = "rejected")
      BY <2>4 DEF RespondFind, ApproveFind
    <3>2. UNCHANGED <<tables, history>> /\ inv[i].st = "pending"
      BY <2>4 DEF RespondFind, ApproveFind
    <3> QED BY <1>2, <3>1, <3>2, DecidesInOrder
  <2> QED BY <1>2, <2>1, <2>2, <2>3, <2>4 DEF Start
<1>3. ASSUME NEW r \in Calls, Continue(r), Watch PROVE OInv'
  <2>1. Known(call[r]) /\ call[r] \in Call /\ call \in [Calls -> Call]
    BY DEF IInv, CallsKnown, RowsOK
  <2>2. ASSUME NEW pc \in {"joinCreate", "add", "mark", "commit"}, Goto(r, pc)
        PROVE  /\ call[r].added \in BOOLEAN
               /\ call' = [call EXCEPT ![r].pc = pc, ![r].added = call[r].added]
    <3>1. [call[r] EXCEPT !.pc = pc] = [call[r] EXCEPT !.pc = pc, !.added = call[r].added]
      BY <2>1 DEF Call
    <3>2. [call EXCEPT ![r].pc = pc, ![r].added = call[r].added] =
             [call EXCEPT ![r] = [call[r] EXCEPT !.pc = pc, !.added = call[r].added]]
      BY <2>1
    <3>3. [call EXCEPT ![r].pc = pc] = [call EXCEPT ![r] = [call[r] EXCEPT !.pc = pc]]
      BY <2>1
    <3> QED BY <2>1, <2>2, <3>1, <3>2, <3>3 DEF Goto, Call
  <2>3. CASE CreateDirect(r)
    <3>1. call[r].me \in Users /\ call[r].who \in Users /\ call[r].max \in Capacities \cup {0}
      BY <2>1, <2>3 DEF Known, Call, CreateDirect
    <3>2. Return(r)
      BY <2>3 DEF CreateDirect
    <3>3. CASE UNCHANGED <<tables, history>>
      BY <1>3, <3>2, <3>3, ReturnInOrder
    <3>4. CASE \E rm \in Rooms : Inserted(rm, call[r].me, "direct", call[r].max, <<call[r].who>>)
      <4>1. PICK rm \in Rooms : Inserted(rm, call[r].me, "direct", call[r].max, <<call[r].who>>)
        BY <3>4
      <4>2. <<call[r].who>> \in Seq(Users)
        BY <3>1
      <4> QED BY <1>3, <3>1, <3>2, <4>1, <4>2, InsertedInOrder
    <3> QED BY <2>3, <3>3, <3>4 DEF CreateDirect
  <2>4. CASE JoinFindInvitation(r)
    <3>1. CASE Return(r)
      BY <1>3, <2>4, <3>1, ReturnInOrder DEF JoinFindInvitation
    <3>2. CASE Goto(r, "joinCreate") /\ FindByRoomAndInvitee(call[r].rm, call[r].me) = {}
      BY <1>3, <2>2, <2>4, <3>2, GoesOnInOrder DEF JoinFindInvitation
    <3> QED BY <2>4, <3>1, <3>2 DEF JoinFindInvitation
  <2>5. CASE Guard(r)
    <3>1. CASE Return(r)
      BY <1>3, <2>5, <3>1, ReturnInOrder DEF Guard
    <3>2. CASE Goto(r, "add")
      BY <1>3, <2>2, <2>5, <3>2, GoesOnInOrder DEF Guard
    <3> QED BY <2>5, <3>1, <3>2 DEF Guard
  <2>6. CASE Add(r)
    <3>1. CASE Return(r)
      BY <1>3, <2>6, <3>1, ReturnInOrder DEF Add
    <3>2. CASE call' = [call EXCEPT ![r].pc = "mark", ![r].added = TRUE]
      BY <1>3, <2>6, <3>2, GoesOnInOrder DEF Add
    <3> QED BY <2>6, <3>1, <3>2 DEF Add
  <2>7. CASE BlockRow(r)
    <3>1. CASE Return(r)
      BY <1>3, <2>7, <3>1, ReturnInOrder DEF BlockRow
    <3>2. CASE Goto(r, "mark")
      BY <1>3, <2>2, <2>7, <3>2, GoesOnInOrder DEF BlockRow
    <3> QED BY <2>7, <3>1, <3>2 DEF BlockRow
  <2>8. CASE Mark(r)
    BY <1>3, <2>2, <2>8, GoesOnInOrder DEF Mark
  <2> QED BY <1>3, <2>3, <2>4, <2>5, <2>6, <2>7, <2>8, JoinCreateInOrder, BlockInOrder,
             CommitInOrder DEF Continue
<1>4. ASSUME NEW p \in Acquainted, FriendshipChanges(p[1], p[2]), Watch PROVE OInv'
  BY <1>4, FriendshipInOrder
<1> QED BY <1>1, <1>2, <1>3, <1>4 DEF Next, Step

\* What requests rely on when they do not overlap holds in every reachable state.
THEOREM InvarianceInOrder == Spec => [](IInv /\ OInv)
BY InitIInv, NextIInv, InitInOrder, NextInOrder, PTL DEF Spec

\* "Accept, reject, or block a pending invitation": requests that do not overlap
\* never resolve one twice.
THEOREM OneAnswerEach == Spec => []ResolvedOnce
<1>1. OInv => ResolvedOnce
  BY DEF OInv, Undisturbed, AnsweredOnce, ResolvedOnce
<1> QED BY <1>1, InvarianceInOrder, PTL

\* While requests do not overlap, a refusal stands: RespondToInvitation's
\* "rejected" and "blocked" keep the user out unless he is let in otherwise,
\* its block can be found, and JoinChatRoom keeps one open request.
THEOREM RefusalsStand == Spec => []RefusalsCount
<1>1. ASSUME IInv, OInv, orderly PROVE RefusalsCount
  <2>1. ASSUME NEW p \in shut PROVE "blocked" \in FindBetweenUsers(p[2], p[1])
    <3>1. PICK u \in Users, v \in Users : p = <<u, v>>
      BY <1>1 DEF IInv, RowsOK, Pairs
    <3>2. PICK q \in {<<v, u>>, <<u, v>>} : rows[q] = "blocked"
      BY <1>1, <3>1 DEF OInv, BlockStands
    <3>3. q \in RowsBetween(v, u)
      BY <3>2 DEF RowsBetween
    <3>4. "blocked" \in {rows[x] : x \in RowsBetween(v, u)} /\ RowsBetween(v, u) # {}
      BY <3>2, <3>3
    <3> QED BY <3>1, <3>4 DEF FindBetweenUsers
  <2>2. ASSUME NEW i \in Invitations, inv[i].st \in {"rejected", "blocked"},
               inv[i].to \in members[inv[i].room]
        PROVE  \/ inv[i].to = room[inv[i].room].owner
               \/ \E j \in Invitations : /\ inv[j].room = inv[i].room /\ inv[j].to = inv[i].to
                                         /\ inv[j].st = "accepted"
    <3>1. i < nextInv
      BY <1>1, <2>2, NotMadeYet
    <3>2. inv[i].room \in Rooms
      BY <1>1, <3>1 DEF IInv, InvKnown
    <3> QED BY <1>1, <2>2, <3>2 DEF OInv, Undisturbed, MembersInvited
  <2>3. ASSUME NEW i \in Invitations, NEW j \in Invitations \ {i},
               inv[i].kind = "join_request", inv[j].kind = "join_request",
               inv[i].st = "pending", inv[j].st = "pending",
               inv[i].room = inv[j].room, inv[i].to = inv[j].to
        PROVE  FALSE
    <3>1. i < nextInv
      BY <1>1, <2>3, NotMadeYet
    <3>2. inv[i].room \in Rooms /\ inv[i].to \in Users
      BY <1>1, <3>1 DEF IInv, InvKnown
    <3>3. Asks(i, inv[i].room, inv[i].to) /\ Asks(j, inv[i].room, inv[i].to)
      BY <2>3 DEF Asks
    <3> QED BY <1>1, <3>2, <3>3 DEF OInv, Undisturbed, AsksOnce
  <2> QED BY <2>1, <2>2, <2>3 DEF RefusalsCount
<1>2. ~orderly => RefusalsCount
  BY DEF RefusalsCount
<1> QED BY <1>1, <1>2, InvarianceInOrder, PTL

-----------------------------------------------------------------------------
\* Locks.  A statement waits for the row of a room, an invitation or a friendship
\* that a transaction in progress holds; these are the guards of JoinCreate, Add,
\* BlockRow and Mark, and all other steps go on as they please.
Waits(r) ==
    \/ call[r].pc \in {"joinCreate", "add"} /\ RoomLocked(call[r].rm)
    \/ call[r].pc \in {"blockUpdate", "blockCreate"} /\ RowLocked(call[r].row)
    \/ call[r].pc = "mark" /\ InvLocked(call[r].inv)

\* However many requests compete, they never all wait for one another: locks are
\* held only by those that mark or commit, those that mark wait only for those that
\* commit, and these wait for nobody.
THEOREM NeverAllWaiting == Spec => [](InProgress # {} => \E r \in InProgress : ~Waits(r))
<1>1. ASSUME IInv, NEW r \in InProgress PROVE \E q \in InProgress : ~Waits(q)
  <2>1. r \in Calls /\ call[r].pc # "idle"
    BY <1>1 DEF InProgress
  <2>2. \A q \in Calls : call[q].added => call[q].pc \in {"mark", "commit"}
    BY <1>1 DEF IInv, CallsKnown, Known
  <2>3. ASSUME NEW q \in Calls, call[q].pc = "commit" PROVE q \in InProgress /\ ~Waits(q)
    BY <2>3 DEF InProgress, Waits
  <2>4. ASSUME NEW q \in Calls, call[q].pc = "mark", \A c \in Calls : call[c].pc # "commit"
        PROVE  q \in InProgress /\ ~Waits(q)
    BY <2>4 DEF InProgress, Waits, InvLocked
  <2>5. ASSUME \A q \in Calls : call[q].pc \notin {"mark", "commit"} PROVE ~Waits(r)
    BY <2>1, <2>2, <2>5 DEF Waits, RoomLocked, RowLocked
  <2> QED BY <2>3, <2>4, <2>5
<1>2. IInv => (InProgress # {} => \E r \in InProgress : ~Waits(r))
  BY <1>1
<1> QED BY <1>2, Invariance, PTL

=============================================================================
