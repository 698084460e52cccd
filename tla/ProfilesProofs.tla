--------------------------- MODULE ProfilesProofs ---------------------------
(***************************************************************************)
(* Proofs about Accounts and Profiles, for any addresses, role codes,      *)
(* images, bounds and number of requests served at the same time.          *)
(*                                                                         *)
(* What each property needs to be inductive: a token names one             *)
(* registration, and is mailed to its address only (Registrations, Tokens, *)
(* Verifications); a request that will write a row back holds it with the  *)
(* address it has, and a row that was banned unnoticed is held by nobody   *)
(* (Held, BanKept); what a registration about to commit will need to be    *)
(* confirmed is there (Confirmable); a user about to be inserted is the    *)
(* first of its account (FirstUsers); and unless requests of a user        *)
(* overlapped, the only one knows the roles and files it works on          *)
(* (RolesInHand, AvatarInHand).                                            *)
(***************************************************************************)
EXTENDS Profiles, FiniteSetTheorems, TLAPS

Row == [mail : Addresses \cup {NoMail}, status : {"applying", "active", "banned"}]
Verifying == {"delete", "find", "activate"}
Holding == {"activate", "login", "update"}
RoleSteps == {"revoke", "assign"}

CallRecord ==
    [pc : {"idle", "login", "update"} \cup Registering \cup Verifying \cup UploadSteps \cup ProfileSteps,
     n : Nat, id : Nat, u : Nat, mail : Addresses \cup {NoMail},
     old : Row \cup Images \cup {NoRow}, new : Images \cup {NoRow},
     codes : SUBSET Codes, todo : SUBSET (Codes \cup Ids)]

\* What a request needs for its step is there.
Equipped(x) ==
    /\ x.pc \in Registering => x.n \in Serials /\ x.id \in Ids /\ x.mail \in Addresses
    /\ x.pc \in Verifying => x.id \in Ids /\ x.u \in Serials
    /\ x.pc \in Holding => x.id \in Ids /\ x.old \in Row
    /\ x.pc = "login" => x.u = 0
    /\ x.pc = "update" => x.u \in Ids \cup {0}
    /\ x.pc \in UploadSteps => x.u \in Ids /\ x.new \in Images /\ x.old \in Images \cup {NoRow}
    /\ x.pc \in ProfileSteps => x.u \in Ids /\ x.old \in Images \cup {NoRow}
    /\ x.pc \in RoleSteps => x.todo \subseteq Codes
CallsOK == call \in [Calls -> CallRecord] /\ \A c \in Calls : Equipped(call[c])

TypeOK ==
    /\ account \in [Ids -> Row \cup {NoRow}]
    /\ owner \in [Ids -> Ids \cup {0}]
    /\ roles \in [Ids -> SUBSET Codes]
    /\ nextId \in [accounts : 2 .. (MaxIds + 1), users : 2 .. (MaxIds + 1)]
    /\ store \in [Serials -> Ids \cup {0}]
    /\ inbox \in [Serials -> Addresses \cup {NoMail}]
    /\ served \in 0..MaxCalls
    /\ spent \subseteq Ids /\ crowded \subseteq Ids
    /\ ruling \in [Ids -> {"none", "banned", "raced"}]
    /\ avatar \in [Ids -> Images \cup {NoRow}]
    /\ files \subseteq Ids \X Images /\ torn \subseteq Ids \X Images
    /\ trash \subseteq Ids \X (Images \cup {NoRow})
    /\ asked \in [Ids -> SUBSET Codes]
    /\ mixed \subseteq Ids /\ clash \subseteq Ids

Registers(c) == call[c].pc \in Registering

\* Ids and serials in use have been handed out, and registrations share none.
Registrations ==
    /\ \A c \in Calls : Registers(c) =>
           call[c].n <= served /\ call[c].id < nextId.accounts /\ account[call[c].id] = NoRow
    /\ \A c, d \in Calls : Registers(c) /\ Registers(d) /\ c # d =>
           call[c].n # call[d].n /\ call[c].id # call[d].id
    /\ \A i \in Ids : account[i] # NoRow => i < nextId.accounts
    /\ \A t \in Serials : /\ t > served => store[t] = 0 /\ inbox[t] = NoMail
                          /\ store[t] < nextId.accounts

\* A token names the account of the registration it was made for, and is mailed
\* to the address that registered.
Tokens ==
    /\ \A c \in Calls : Registers(c) =>
           /\ \A t \in Serials : store[t] = call[c].id => t = call[c].n
           /\ store[call[c].n] \in {0, call[c].id}
           /\ call[c].pc = "store" => store[call[c].n] = 0
           /\ inbox[call[c].n] = IF call[c].pc = "commit" THEN call[c].mail ELSE NoMail
    /\ \A t \in Serials : store[t] # 0 /\ inbox[t] # NoMail /\ account[store[t]] # NoRow =>
           inbox[t] = account[store[t]].mail

\* So does the token that a confirmation has looked up.
Verifications ==
    \A d \in Calls : call[d].pc \in Verifying =>
        /\ inbox[call[d].u] # NoMail
        /\ store[call[d].u] \in {0, call[d].id}
        /\ call[d].id < nextId.accounts
        /\ account[call[d].id] # NoRow => inbox[call[d].u] = account[call[d].id].mail
        /\ \A c \in Calls : Registers(c) /\ call[c].id = call[d].id => call[c].n = call[d].u

\* A row that is to be written back has the address that the table has.
Held ==
    \A c \in Calls : call[c].pc \in Holding =>
        /\ account[call[c].id] # NoRow
        /\ call[c].old.mail = account[call[c].id].mail
        /\ call[c].pc # "activate" => /\ call[c].old.status = "active"
                                      /\ call[c].id # 1 => call[c].old.mail \in confirmed

\* Nobody holds a row that was banned while nobody held it.
BanKept == \A i \in Ids : ruling[i] = "banned" =>
    account[i] # NoRow /\ account[i].status = "banned" /\ ~HoldsRow(i)

\* The account a registration will publish can be confirmed.
Confirmable ==
    \A c \in Calls :
        /\ call[c].pc = "send" => call[c].id \in spent \/ store[call[c].n] = call[c].id
        /\ call[c].pc = "commit" =>
               \/ call[c].id \in spent \/ store[call[c].n] = call[c].id
               \/ \E d \in Calls : call[d].pc \in {"find", "activate"} /\ call[d].id = call[c].id

Inserts(c) == call[c].pc = "update" /\ call[c].u # 0

\* Users belong to accounts that exist, and ids of users are handed out once; an
\* account that is not crowded has one user, or one request about to insert it.
FirstUsers ==
    /\ \A u \in Ids : owner[u] # 0 => u < nextId.users /\ account[owner[u]] # NoRow
    /\ \A c \in Calls : Inserts(c) => call[c].u < nextId.users /\ owner[call[c].u] = 0
    /\ \A c, d \in Calls : Inserts(c) /\ Inserts(d) /\ c # d => call[c].u # call[d].u
    /\ \A i \in Ids : i \notin crowded =>
           /\ \A u, v \in getUserIDs(i) : u = v
           /\ \A c \in Calls : Inserts(c) /\ call[c].id = i =>
                  /\ getUserIDs(i) = {}
                  /\ \A d \in Calls : Inserts(d) /\ call[d].id = i => c = d

\* Requests about profiles are about users that exist; one of a user whose role
\* updates did not overlap is the only one between its statements, and has still
\* to revoke, or has already assigned, exactly the roles the user has.
RolesInHand ==
    /\ \A u \in Ids : owner[u] = 0 => asked[u] = {"user"}
    /\ \A c \in Calls : call[c].pc \in UploadSteps \cup ProfileSteps => owner[call[c].u] # 0
    /\ \A c, d \in Calls :
           call[c].pc \in RoleSteps /\ call[d].pc \in RoleSteps /\ call[c].u = call[d].u /\ call[c].u \notin mixed => c = d
    /\ \A c \in Calls : call[c].pc \in RoleSteps /\ call[c].u \notin mixed =>
           /\ asked[call[c].u] = call[c].codes
           /\ call[c].pc = "revoke" => roles[call[c].u] = call[c].todo
           /\ call[c].pc = "assign" => /\ call[c].todo \subseteq call[c].codes
                                       /\ roles[call[c].u] = call[c].codes \ call[c].todo

\* The file <<u, img>> is complete and will stay.
Safe(u, img) == <<u, img>> \in files \ torn /\ <<u, img>> \notin trash
Profiling(c) == call[c].pc \in UploadSteps \cup ProfileSteps

\* The same for the avatar: the only request of a user knows his row and his file.
AvatarInHand ==
    /\ \A u \in Ids : u \notin clash => avatar[u] = NoRow \/ Safe(u, avatar[u])
    /\ \A c, d \in Calls :
           Profiling(c) /\ Profiling(d) /\ call[c].u = call[d].u /\ call[c].u \notin clash => c = d
    /\ \A c \in Calls : Profiling(c) /\ call[c].u \notin clash =>
           /\ call[c].pc \in UploadSteps \cup {"name"} => call[c].old = avatar[call[c].u]
           /\ call[c].pc = "stat" => <<call[c].u, call[c].new>> \notin trash \cup torn
           /\ call[c].pc = "write" => <<call[c].u, call[c].new>> \notin trash \cup files
           /\ call[c].pc \in {"exists", "row"} => Safe(call[c].u, call[c].new)

AccountInv == /\ Registrations /\ Tokens /\ Verifications /\ Held /\ BanKept /\ Confirmable /\ FirstUsers
              /\ RegistrationCanBeVerified /\ StatusIsEarned
IInv == TypeOK /\ CallsOK /\ AccountInv /\ RolesInHand /\ RolesOfOneUpdate /\ AvatarInHand

-----------------------------------------------------------------------------
\* What the ways to go on leave in call.
Only(c) == \A d \in Calls : d # c => call'[d] = call[d]
Moved(c, pc) == Only(c) /\ call'[c].pc = pc /\ CallsOK'
Same(c) == /\ call'[c].n = call[c].n /\ call'[c].id = call[c].id /\ call'[c].u = call[c].u
           /\ call'[c].mail = call[c].mail /\ call'[c].old = call[c].old /\ call'[c].new = call[c].new
           /\ call'[c].codes = call[c].codes

\* A request that has returned needs nothing.
LEMMA ReturnedOK ==
    /\ Returned \in CallRecord /\ Equipped(Returned)
    /\ Returned.pc = "idle" /\ Returned.n = 0 /\ Returned.id = 0 /\ Returned.u = 0 /\ Returned.mail = NoMail
    /\ Returned.old = NoRow /\ Returned.new = NoRow /\ Returned.codes = {} /\ Returned.todo = {}
BY DEF Returned, CallRecord, Equipped, Registering, Verifying, Holding, UploadSteps, ProfileSteps, RoleSteps

\* A step that writes one request, equipped for what comes next, keeps the types.
LEMMA CallTypes ==
    ASSUME CallsOK, NEW c \in Calls, NEW x \in CallRecord, Equipped(x), call' = [call EXCEPT ![c] = x]
    PROVE  CallsOK' /\ Only(c) /\ call'[c] = x
BY DEF CallsOK, Only

\* A request that starts has the fields it starts with, and the next serial.
LEMMA Starts ==
    ASSUME TypeOK, CallsOK, NEW c \in Calls, NEW rec \in CallRecord, Start(c, rec),
           \A n \in Serials : Equipped([rec EXCEPT !.n = n])
    PROVE  /\ Moved(c, rec.pc) /\ call[c].pc = "idle" /\ served' = served + 1 /\ served + 1 \in Serials
           /\ call'[c].n = served + 1 /\ call'[c].id = rec.id /\ call'[c].u = rec.u /\ call'[c].mail = rec.mail
           /\ call'[c].old = rec.old /\ call'[c].new = rec.new /\ call'[c].codes = rec.codes /\ call'[c].todo = rec.todo
<1>1. served + 1 \in Serials /\ served + 1 \in Nat /\ served' = served + 1 /\ call[c].pc = "idle"
  BY AccountsAssumption DEF TypeOK, Serials, Start
<1> DEFINE x == [rec EXCEPT !.n = served + 1]
<1>2. /\ x \in CallRecord /\ x.pc = rec.pc /\ x.n = served + 1 /\ x.id = rec.id /\ x.u = rec.u /\ x.mail = rec.mail
      /\ x.old = rec.old /\ x.new = rec.new /\ x.codes = rec.codes /\ x.todo = rec.todo
  BY <1>1 DEF CallRecord
<1>3. Equipped(x) /\ call' = [call EXCEPT ![c] = x]
  BY <1>1 DEF Start
<1>4. CallsOK' /\ Only(c) /\ call'[c] = x
  <2> HIDE DEF x
  <2> QED BY <1>2, <1>3, CallTypes
<1> QED BY <1>1, <1>2, <1>4 DEF Moved

\* A request that returns is idle.
LEMMA Returns ==
    ASSUME CallsOK, NEW c \in Calls, Return(c)
    PROVE  Moved(c, "idle") /\ call'[c] = Returned /\ served' = served
BY ReturnedOK, CallTypes DEF Return, Moved

\* One that goes on keeps its fields, and is equipped if it was for the same.
LEMMA GoesOn ==
    ASSUME CallsOK, NEW c \in Calls,
           NEW pc \in {"send", "commit", "find", "update", "exists", "write", "row", "roles"}, Goto(c, pc),
           \/ call[c].pc \in Registering /\ pc \in Registering
           \/ call[c].pc \in Verifying /\ pc = "find"
           \/ call[c].pc \in UploadSteps /\ pc \in UploadSteps
           \/ call[c].pc \in ProfileSteps /\ pc = "roles"
           \/ call[c].pc = "login" /\ call[c].u = 0 /\ pc = "update"
    PROVE  Moved(c, pc) /\ Same(c) /\ served' = served
<1>1. call[c] \in CallRecord /\ Equipped(call[c])
  BY DEF CallsOK
<1> DEFINE x == [call[c] EXCEPT !.pc = pc]
<1>2. pc \in {"idle", "login", "update"} \cup Registering \cup Verifying \cup UploadSteps \cup ProfileSteps
  BY DEF Registering, Verifying, UploadSteps, ProfileSteps
<1>3. /\ x \in CallRecord /\ x.pc = pc /\ x.n = call[c].n /\ x.id = call[c].id /\ x.u = call[c].u
      /\ x.mail = call[c].mail /\ x.old = call[c].old /\ x.new = call[c].new /\ x.codes = call[c].codes
  BY <1>1, <1>2 DEF CallRecord
<1>4. call' = [call EXCEPT ![c] = x] /\ served' = served
  BY DEF Goto, CallsOK
<1> HIDE DEF x
<1>5. Equipped(x)
  BY <1>1, <1>3 DEF Equipped, Registering, Verifying, Holding, UploadSteps, ProfileSteps, RoleSteps
<1> QED BY <1>3, <1>4, <1>5, CallTypes DEF Moved, Same

-----------------------------------------------------------------------------
\* What each step does to the requests, which is all the invariants need to know
\* of call: registrations, ...
LEMMA RegisterMoves ==
    ASSUME TypeOK, CallsOK, NEW c \in Calls
    PROVE  /\ \A a \in Addresses : RegisterCreate(c, a) =>
                  /\ Moved(c, "store") /\ call[c].pc = "idle" /\ served' = served + 1 /\ served + 1 \in Serials
                  /\ call'[c].n = served + 1 /\ call'[c].id = nextId.accounts /\ call'[c].mail = a
                  /\ nextId.accounts \in Ids
           /\ RegisterStore(c) => call[c].pc = "store" /\ Moved(c, "send") /\ Same(c) /\ served' = served
           /\ RegisterSend(c) => call[c].pc = "send" /\ Moved(c, "commit") /\ Same(c) /\ served' = served
           /\ RegisterSendFails(c) => call[c].pc = "send" /\ Moved(c, "idle") /\ served' = served
           /\ RegisterCommit(c) => call[c].pc = "commit" /\ Moved(c, "idle") /\ served' = served
           /\ Rollback(c) => Moved(c, "idle") /\ served' = served
<1>1. ASSUME NEW a \in Addresses, RegisterCreate(c, a)
      PROVE  /\ Moved(c, "store") /\ call[c].pc = "idle" /\ served' = served + 1 /\ served + 1 \in Serials
             /\ call'[c].n = served + 1 /\ call'[c].id = nextId.accounts /\ call'[c].mail = a
             /\ nextId.accounts \in Ids
  <2> DEFINE rec == [Returned EXCEPT !.pc = "store", !.id = nextId.accounts, !.mail = a]
  <2>1. Start(c, rec) /\ nextId.accounts \in Ids /\ nextId.accounts \in Nat
    BY <1>1 DEF RegisterCreate, AccountCreate, Ids
  <2>2. rec \in CallRecord /\ rec.pc = "store" /\ rec.id = nextId.accounts /\ rec.mail = a
    BY <2>1, ReturnedOK DEF CallRecord, Registering
  <2>3. ASSUME NEW n \in Serials
        PROVE  Equipped([rec EXCEPT !.n = n])
    <3> DEFINE x == [rec EXCEPT !.n = n]
    <3>1. x.pc = "store" /\ x.n = n /\ x.id = nextId.accounts /\ x.mail = a
      BY <2>2 DEF CallRecord
    <3> HIDE DEF x
    <3>2. Equipped(x)
      BY <2>1, <3>1 DEF Equipped, Registering, Verifying, Holding, UploadSteps, ProfileSteps, RoleSteps
    <3> QED BY <3>2 DEF x
  <2> HIDE DEF rec
  <2> QED BY <2>1, <2>2, <2>3, Starts
<1>2. RegisterStore(c) => call[c].pc = "store" /\ Moved(c, "send") /\ Same(c) /\ served' = served
  BY GoesOn DEF RegisterStore, Registering
<1>3. RegisterSend(c) => call[c].pc = "send" /\ Moved(c, "commit") /\ Same(c) /\ served' = served
  BY GoesOn DEF RegisterSend, Registering
<1>4. /\ RegisterSendFails(c) => call[c].pc = "send" /\ Moved(c, "idle") /\ served' = served
      /\ RegisterCommit(c) => call[c].pc = "commit" /\ Moved(c, "idle") /\ served' = served
      /\ Rollback(c) => Moved(c, "idle") /\ served' = served
  BY Returns DEF RegisterSendFails, RegisterCommit, Rollback
<1> QED BY <1>1, <1>2, <1>3, <1>4

\* ... confirmations, ...
LEMMA VerifyMoves ==
    ASSUME TypeOK, CallsOK, NEW c \in Calls
    PROVE  /\ \A t \in Serials : VerifyGet(c, t) =>
                  /\ Moved(c, "delete") /\ call[c].pc = "idle" /\ served' = served + 1 /\ served + 1 \in Serials
                  /\ call'[c].id = store[t] /\ call'[c].u = t
           /\ VerifyDelete(c) => call[c].pc = "delete" /\ Moved(c, "find") /\ Same(c) /\ served' = served
           /\ VerifyDeleteFails(c) => call[c].pc = "delete" /\ Moved(c, "idle") /\ served' = served
           /\ VerifyFind(c) =>
                  /\ call[c].pc = "find" /\ served' = served
                  /\ IF Applying(account[call[c].id])
                     THEN /\ Moved(c, "activate") /\ call'[c].id = call[c].id /\ call'[c].u = call[c].u
                          /\ call'[c].old = account[call[c].id]
                     ELSE Moved(c, "idle")
           /\ VerifyUpdate(c) => call[c].pc = "activate" /\ Moved(c, "idle") /\ served' = served
           /\ VerifyUpdateFails(c) => call[c].pc = "activate" /\ Moved(c, "idle") /\ served' = served
<1>1. ASSUME NEW t \in Serials, VerifyGet(c, t)
      PROVE  /\ Moved(c, "delete") /\ call[c].pc = "idle" /\ served' = served + 1 /\ served + 1 \in Serials
             /\ call'[c].id = store[t] /\ call'[c].u = t
  <2> DEFINE rec == [Returned EXCEPT !.pc = "delete", !.id = store[t], !.u = t]
  <2>1. Start(c, rec) /\ store[t] \in Ids /\ store[t] \in Nat /\ t \in Nat
    BY <1>1 DEF VerifyGet, TypeOK, Ids, Serials
  <2>2. rec \in CallRecord /\ rec.pc = "delete" /\ rec.id = store[t] /\ rec.u = t
    BY <2>1, ReturnedOK DEF CallRecord, Verifying
  <2>3. ASSUME NEW n \in Serials
        PROVE  Equipped([rec EXCEPT !.n = n])
    <3> DEFINE x == [rec EXCEPT !.n = n]
    <3>1. x.pc = "delete" /\ x.id = store[t] /\ x.u = t
      BY <2>2 DEF CallRecord
    <3> HIDE DEF x
    <3>2. Equipped(x)
      BY <2>1, <3>1 DEF Equipped, Registering, Verifying, Holding, UploadSteps, ProfileSteps, RoleSteps
    <3> QED BY <3>2 DEF x
  <2> HIDE DEF rec
  <2> QED BY <2>1, <2>2, <2>3, Starts
<1>2. VerifyDelete(c) => call[c].pc = "delete" /\ Moved(c, "find") /\ Same(c) /\ served' = served
  BY GoesOn DEF VerifyDelete, Verifying
<1>3. /\ VerifyDeleteFails(c) => call[c].pc = "delete" /\ Moved(c, "idle") /\ served' = served
      /\ VerifyUpdate(c) => call[c].pc = "activate" /\ Moved(c, "idle") /\ served' = served
      /\ VerifyUpdateFails(c) => call[c].pc = "activate" /\ Moved(c, "idle") /\ served' = served
  BY Returns DEF VerifyDeleteFails, VerifyUpdate, VerifyUpdateFails
<1>4. ASSUME VerifyFind(c), ~Applying(account[call[c].id])
      PROVE  call[c].pc = "find" /\ served' = served /\ Moved(c, "idle")
  BY <1>4, Returns DEF VerifyFind, findAccount
<1>5. ASSUME VerifyFind(c), Applying(account[call[c].id])
      PROVE  /\ call[c].pc = "find" /\ served' = served /\ Moved(c, "activate") /\ call'[c].id = call[c].id
             /\ call'[c].u = call[c].u /\ call'[c].old = account[call[c].id]
  <2>1. /\ call[c].pc = "find" /\ served' = served
        /\ call' = [call EXCEPT ![c].pc = "activate", ![c].old = account[call[c].id]]
    BY <1>5 DEF VerifyFind, findAccount
  <2>2. call[c] \in CallRecord /\ Equipped(call[c]) /\ call[c].id \in Ids /\ call[c].u \in Serials
    BY <2>1 DEF CallsOK, Equipped, Verifying
  <2>3. account[call[c].id] \in Row
    BY <1>5, <2>2 DEF TypeOK, Applying
  <2> DEFINE x == [call[c] EXCEPT !.pc = "activate", !.old = account[call[c].id]]
  <2>4. x \in CallRecord /\ x.pc = "activate" /\ x.id = call[c].id /\ x.u = call[c].u /\ x.old = account[call[c].id]
    BY <2>2, <2>3 DEF CallRecord, Verifying
  <2>5. call' = [call EXCEPT ![c] = x]
    BY <2>1 DEF CallsOK
  <2> HIDE DEF x
  <2>6. Equipped(x)
    BY <2>2, <2>3, <2>4 DEF Equipped, Registering, Verifying, Holding, UploadSteps, ProfileSteps, RoleSteps
  <2> QED BY <2>1, <2>4, <2>5, <2>6, CallTypes DEF Moved
<1> QED BY <1>1, <1>2, <1>3, <1>4, <1>5

\* ... logins, ...
LEMMA LoginMoves ==
    ASSUME TypeOK, CallsOK, NEW c \in Calls
    PROVE  /\ \A i \in Ids : LoginFind(c, i) =>
                  /\ Moved(c, "login") /\ call[c].pc = "idle" /\ served' = served + 1 /\ served + 1 \in Serials
                  /\ call'[c].id = i /\ call'[c].old = account[i] /\ call'[c].u = 0
           /\ LoginUser(c) =>
                  /\ call[c].pc = "login" /\ served' = served
                  /\ \/ Moved(c, "update") /\ call'[c].id = call[c].id /\ call'[c].old = call[c].old
                     \/ Moved(c, "idle")
                  /\ \/ /\ nextId' = nextId /\ crowded' = crowded
                        /\ call'[c].pc = "update" => call'[c].u = 0
                     \/ /\ nextId.users \in Ids /\ nextId' = Advance("users") /\ getUserIDs(call[c].id) = {}
                        /\ crowded' = IF Inserting(call[c].id) THEN crowded \cup {call[c].id} ELSE crowded
                        /\ call'[c].pc = "update" /\ call'[c].u = nextId.users
           /\ LoginCommit(c) => call[c].pc = "update" /\ Moved(c, "idle") /\ served' = served
<1>1. ASSUME NEW i \in Ids, LoginFind(c, i)
      PROVE  /\ Moved(c, "login") /\ call[c].pc = "idle" /\ served' = served + 1 /\ served + 1 \in Serials
             /\ call'[c].id = i /\ call'[c].old = account[i] /\ call'[c].u = 0
  <2> DEFINE rec == [Returned EXCEPT !.pc = "login", !.id = i, !.old = account[i], !.todo = getUserIDs(i)]
  <2>1. Start(c, rec) /\ account[i] \in Row /\ getUserIDs(i) \subseteq Codes \cup Ids /\ i \in Nat
    BY <1>1 DEF LoginFind, findAccount, TypeOK, getUserIDs, Ids
  <2>2. rec \in CallRecord /\ rec.pc = "login" /\ rec.id = i /\ rec.old = account[i] /\ rec.u = 0
    BY <2>1, ReturnedOK DEF CallRecord
  <2>3. ASSUME NEW n \in Serials
        PROVE  Equipped([rec EXCEPT !.n = n])
    <3> DEFINE x == [rec EXCEPT !.n = n]
    <3>1. x.pc = "login" /\ x.id = i /\ x.old = account[i] /\ x.u = 0
      BY <2>2 DEF CallRecord
    <3> HIDE DEF x
    <3>2. Equipped(x)
      BY <2>1, <3>1 DEF Equipped, Registering, Verifying, Holding, UploadSteps, ProfileSteps, RoleSteps
    <3> QED BY <3>2 DEF x
  <2> HIDE DEF rec
  <2> QED BY <2>1, <2>2, <2>3, Starts
<1>2. ASSUME LoginUser(c)
      PROVE  /\ call[c].pc = "login" /\ served' = served
             /\ \/ Moved(c, "update") /\ call'[c].id = call[c].id /\ call'[c].old = call[c].old
                \/ Moved(c, "idle")
             /\ \/ /\ nextId' = nextId /\ crowded' = crowded
                   /\ call'[c].pc = "update" => call'[c].u = 0
                \/ /\ nextId.users \in Ids /\ nextId' = Advance("users") /\ getUserIDs(call[c].id) = {}
                   /\ crowded' = IF Inserting(call[c].id) THEN crowded \cup {call[c].id} ELSE crowded
                   /\ call'[c].pc = "update" /\ call'[c].u = nextId.users
  <2>0. call[c].pc = "login" /\ call[c].u = 0 /\ call[c] \in CallRecord /\ Equipped(call[c])
    BY <1>2 DEF LoginUser, CallsOK, Equipped
  <2>1. CASE call[c].todo # {}
    <3>1. Goto(c, "update") /\ nextId' = nextId /\ crowded' = crowded
      BY <1>2, <2>1 DEF LoginUser
    <3> QED BY <3>1, <2>0, GoesOn DEF Moved, Same
  <2>2. CASE call[c].todo = {} /\ WithinLimit(call[c].id)
    <3>1. /\ nextId.users \in Ids /\ nextId' = Advance("users") /\ getUserIDs(call[c].id) = {} /\ served' = served
          /\ crowded' = IF Inserting(call[c].id) THEN crowded \cup {call[c].id} ELSE crowded
          /\ call' = [call EXCEPT ![c].pc = "update", ![c].u = nextId.users] /\ nextId.users \in Nat
      BY <1>2, <2>2 DEF LoginUser, WithinLimit, Ids
    <3> DEFINE x == [call[c] EXCEPT !.pc = "update", !.u = nextId.users]
    <3>2. x \in CallRecord /\ x.pc = "update" /\ x.u = nextId.users /\ x.id = call[c].id /\ x.old = call[c].old
      BY <2>0, <3>1 DEF CallRecord
    <3>3. call' = [call EXCEPT ![c] = x]
      BY <3>1 DEF CallsOK
    <3> HIDE DEF x
    <3>4. Equipped(x)
      BY <2>0, <3>1, <3>2 DEF Equipped, Registering, Verifying, Holding, UploadSteps, ProfileSteps, RoleSteps
    <3>5. Moved(c, "update") /\ call'[c] = x
      BY <3>2, <3>3, <3>4, CallTypes DEF Moved
    <3> QED BY <2>0, <3>1, <3>2, <3>5 DEF Moved
  <2>3. CASE call[c].todo = {} /\ ~WithinLimit(call[c].id)
    <3>1. Return(c) /\ nextId' = nextId /\ crowded' = crowded
      BY <1>2, <2>3 DEF LoginUser
    <3> QED BY <3>1, <2>0, Returns DEF Moved
  <2> QED BY <2>1, <2>2, <2>3
<1>3. LoginCommit(c) => call[c].pc = "update" /\ Moved(c, "idle") /\ served' = served
  BY Returns DEF LoginCommit
<1> QED BY <1>1, <1>2, <1>3

\* ... uploads, ...
LEMMA UploadMoves ==
    ASSUME TypeOK, CallsOK, NEW c \in Calls
    PROVE  /\ \A u \in Ids, img \in Images : UploadFind(c, u, img) =>
                  /\ Moved(c, "stat") /\ call[c].pc = "idle" /\ served' = served + 1 /\ served + 1 \in Serials
                  /\ call'[c].u = u /\ call'[c].old = avatar[u] /\ call'[c].new = img
           /\ Stat(c) =>
                  /\ call[c].pc = "stat" /\ Same(c) /\ served' = served
                  /\ IF <<call[c].u, call[c].new>> \in files THEN Moved(c, "exists") ELSE Moved(c, "write")
           /\ Save(c) => call[c].pc = "write" /\ Moved(c, "row") /\ Same(c) /\ served' = served
           /\ SaveFails(c) => call[c].pc = "write" /\ Moved(c, "idle") /\ served' = served
           /\ UploadExists(c) => call[c].pc = "exists" /\ Moved(c, "idle") /\ served' = served
           /\ UploadRow(c) => call[c].pc = "row" /\ Moved(c, "idle") /\ served' = served
<1>1. ASSUME NEW u \in Ids, NEW img \in Images, UploadFind(c, u, img)
      PROVE  /\ Moved(c, "stat") /\ call[c].pc = "idle" /\ served' = served + 1 /\ served + 1 \in Serials
             /\ call'[c].u = u /\ call'[c].old = avatar[u] /\ call'[c].new = img
  <2> DEFINE rec == [Returned EXCEPT !.pc = "stat", !.u = u, !.old = findOneBy(u).avatar, !.new = img]
  <2>1. Start(c, rec) /\ findOneBy(u).avatar = avatar[u] /\ avatar[u] \in Images \cup {NoRow} /\ u \in Nat
    BY <1>1 DEF UploadFind, findOneBy, TypeOK, Ids
  <2>2. rec \in CallRecord /\ rec.pc = "stat" /\ rec.u = u /\ rec.old = avatar[u] /\ rec.new = img
    BY <2>1, ReturnedOK DEF CallRecord, UploadSteps
  <2>3. ASSUME NEW n \in Serials
        PROVE  Equipped([rec EXCEPT !.n = n])
    <3> DEFINE x == [rec EXCEPT !.n = n]
    <3>1. x.pc = "stat" /\ x.u = u /\ x.old = avatar[u] /\ x.new = img
      BY <2>2 DEF CallRecord
    <3> HIDE DEF x
    <3>2. Equipped(x)
      BY <2>1, <3>1 DEF Equipped, Registering, Verifying, Holding, UploadSteps, ProfileSteps, RoleSteps
    <3> QED BY <3>2 DEF x
  <2> HIDE DEF rec
  <2> QED BY <2>1, <2>2, <2>3, Starts
<1>2. ASSUME Stat(c)
      PROVE  /\ call[c].pc = "stat" /\ Same(c) /\ served' = served
             /\ IF <<call[c].u, call[c].new>> \in files THEN Moved(c, "exists") ELSE Moved(c, "write")
  BY <1>2, GoesOn DEF Stat, UploadSteps
<1>3. Save(c) => call[c].pc = "write" /\ Moved(c, "row") /\ Same(c) /\ served' = served
  BY GoesOn DEF Save, UploadSteps
<1>4. /\ SaveFails(c) => call[c].pc = "write" /\ Moved(c, "idle") /\ served' = served
      /\ UploadExists(c) => call[c].pc = "exists" /\ Moved(c, "idle") /\ served' = served
      /\ UploadRow(c) => call[c].pc = "row" /\ Moved(c, "idle") /\ served' = served
  BY Returns DEF SaveFails, UploadExists, UploadRow
<1> QED BY <1>1, <1>2, <1>3, <1>4

\* ... and updates of a profile.
LEMMA ProfileMoves ==
    ASSUME TypeOK, CallsOK, NEW c \in Calls
    PROVE  /\ \A u \in Ids, renamed \in BOOLEAN, codes \in SUBSET Codes : ProfileFind(c, u, renamed, codes) =>
                  /\ Moved(c, "name") \/ Moved(c, "roles")
                  /\ call[c].pc = "idle" /\ served' = served + 1 /\ served + 1 \in Serials
                  /\ call'[c].u = u /\ call'[c].old = avatar[u] /\ call'[c].codes = codes
           /\ ProfileName(c) =>
                  /\ call[c].pc = "name" /\ served' = served
                  /\ (Moved(c, "roles") /\ Same(c)) \/ Moved(c, "idle")
           /\ ProfileRoles(c) =>
                  /\ call[c].pc = "roles" /\ Moved(c, "revoke") /\ Same(c) /\ served' = served
                  /\ call'[c].todo = roles[call[c].u]
           /\ ProfileRevoke(c) =>
                  /\ call[c].pc = "revoke" /\ Same(c) /\ served' = served
                  /\ \/ /\ call[c].todo = {} /\ Moved(c, "assign") /\ call'[c].todo = call[c].codes /\ roles' = roles
                     \/ \E code \in call[c].todo :
                           /\ Moved(c, "revoke") /\ call'[c].todo = call[c].todo \ {code}
                           /\ roles' = [roles EXCEPT ![call[c].u] = @ \ {code}]
           /\ ProfileAssign(c) =>
                  /\ call[c].pc = "assign" /\ served' = served
                  /\ \E code \in call[c].todo :
                        /\ roles' = [roles EXCEPT ![call[c].u] = @ \cup {code}]
                        /\ IF call[c].todo = {code} THEN Moved(c, "idle")
                           ELSE Moved(c, "assign") /\ Same(c) /\ call'[c].todo = call[c].todo \ {code}
           /\ ProfileFails(c) => Profiling(c) /\ Moved(c, "idle") /\ served' = served
<1>0. call[c] \in CallRecord /\ Equipped(call[c])
  BY DEF CallsOK
<1>1. ASSUME NEW u \in Ids, NEW renamed \in BOOLEAN, NEW codes \in SUBSET Codes, ProfileFind(c, u, renamed, codes)
      PROVE  /\ Moved(c, "name") \/ Moved(c, "roles")
             /\ call[c].pc = "idle" /\ served' = served + 1 /\ served + 1 \in Serials
             /\ call'[c].u = u /\ call'[c].old = avatar[u] /\ call'[c].codes = codes
  <2> DEFINE pc == IF renamed THEN "name" ELSE "roles"
             rec == [Returned EXCEPT !.pc = pc, !.u = u, !.old = findOneBy(u).avatar, !.codes = codes]
  <2>1. Start(c, rec) /\ findOneBy(u).avatar = avatar[u] /\ avatar[u] \in Images \cup {NoRow} /\ u \in Nat
    BY <1>1 DEF ProfileFind, findOneBy, TypeOK, Ids
  <2>2. pc \in {"name", "roles"}
    OBVIOUS
  <2> HIDE DEF pc
  <2>3. rec \in CallRecord /\ rec.pc = pc /\ rec.u = u /\ rec.old = avatar[u] /\ rec.codes = codes
    BY <2>1, <2>2, ReturnedOK DEF CallRecord, ProfileSteps
  <2>4. ASSUME NEW n \in Serials
        PROVE  Equipped([rec EXCEPT !.n = n])
    <3> DEFINE x == [rec EXCEPT !.n = n]
    <3>1. x.pc = pc /\ x.u = u /\ x.old = avatar[u]
      BY <2>3 DEF CallRecord
    <3> HIDE DEF x
    <3>2. Equipped(x)
      BY <2>1, <2>2, <3>1 DEF Equipped, Registering, Verifying, Holding, UploadSteps, ProfileSteps, RoleSteps
    <3> QED BY <3>2 DEF x
  <2> HIDE DEF rec
  <2> QED BY <2>1, <2>2, <2>3, <2>4, Starts
<1>2. ProfileName(c) => /\ call[c].pc = "name" /\ served' = served
                        /\ (Moved(c, "roles") /\ Same(c)) \/ Moved(c, "idle")
  BY GoesOn, Returns DEF ProfileName, ProfileSteps
\* The steps that set the codes still to do.
<1>3. ASSUME NEW pc \in RoleSteps, NEW todo \in SUBSET Codes, call[c].pc \in ProfileSteps,
             call' = [call EXCEPT ![c] = [call[c] EXCEPT !.pc = pc, !.todo = todo]]
      PROVE  Moved(c, pc) /\ Same(c) /\ call'[c].todo = todo
  <2> DEFINE x == [call[c] EXCEPT !.pc = pc, !.todo = todo]
  <2>1. /\ x \in CallRecord /\ x.pc = pc /\ x.n = call[c].n /\ x.id = call[c].id /\ x.u = call[c].u
        /\ x.mail = call[c].mail /\ x.old = call[c].old /\ x.new = call[c].new /\ x.codes = call[c].codes /\ x.todo = todo
    BY <1>0 DEF CallRecord, ProfileSteps, RoleSteps
  <2>2. call' = [call EXCEPT ![c] = x]
    BY <1>3
  <2> HIDE DEF x
  <2>3. Equipped(x)
    BY <1>0, <1>3, <2>1 DEF Equipped, Registering, Verifying, Holding, UploadSteps, ProfileSteps, RoleSteps
  <2> QED BY <2>1, <2>2, <2>3, CallTypes DEF Moved, Same
<1>4. ASSUME ProfileRoles(c)
      PROVE  /\ call[c].pc = "roles" /\ Moved(c, "revoke") /\ Same(c) /\ served' = served
             /\ call'[c].todo = roles[call[c].u]
  <2>1. call[c].pc = "roles" /\ served' = served /\ call[c].u \in Ids /\ roles[call[c].u] \in SUBSET Codes
    BY <1>0, <1>4 DEF ProfileRoles, Equipped, ProfileSteps, TypeOK
  <2>2. call' = [call EXCEPT ![c] = [call[c] EXCEPT !.pc = "revoke", !.todo = roles[call[c].u]]]
    BY <1>4 DEF ProfileRoles, FindRolesByUser, CallsOK
  <2> QED BY <2>1, <2>2, <1>3 DEF RoleSteps, ProfileSteps
<1>5. ASSUME ProfileRevoke(c)
      PROVE  /\ call[c].pc = "revoke" /\ Same(c) /\ served' = served
             /\ \/ /\ call[c].todo = {} /\ Moved(c, "assign") /\ call'[c].todo = call[c].codes /\ roles' = roles
                \/ \E code \in call[c].todo :
                      /\ Moved(c, "revoke") /\ call'[c].todo = call[c].todo \ {code}
                      /\ roles' = [roles EXCEPT ![call[c].u] = @ \ {code}]
  <2>1. call[c].pc = "revoke" /\ call[c].todo \subseteq Codes /\ call[c].codes \subseteq Codes /\ served' = served
    BY <1>0, <1>5 DEF ProfileRevoke, Equipped, RoleSteps, CallRecord
  <2>2. CASE call[c].todo = {}
    <3>1. call' = [call EXCEPT ![c] = [call[c] EXCEPT !.pc = "assign", !.todo = call[c].codes]] /\ roles' = roles
      BY <1>5, <2>2 DEF ProfileRevoke, CallsOK
    <3> QED BY <2>1, <2>2, <3>1, <1>3 DEF RoleSteps, ProfileSteps
  <2>3. CASE call[c].todo # {}
    <3>1. PICK code \in call[c].todo : /\ roles' = [roles EXCEPT ![call[c].u] = @ \ {code}]
                                       /\ call' = [call EXCEPT ![c].todo = @ \ {code}]
      BY <1>5, <2>3 DEF ProfileRevoke, Revoked
    <3>2. call' = [call EXCEPT ![c] = [call[c] EXCEPT !.pc = "revoke", !.todo = call[c].todo \ {code}]]
      <4>1. [call[c] EXCEPT !.todo = @ \ {code}] = [call[c] EXCEPT !.pc = "revoke", !.todo = call[c].todo \ {code}]
        BY <1>0, <2>1 DEF CallRecord
      <4> QED BY <3>1, <4>1 DEF CallsOK
    <3>3. Moved(c, "revoke") /\ Same(c) /\ call'[c].todo = call[c].todo \ {code}
      BY <2>1, <3>2, <1>3 DEF RoleSteps, ProfileSteps
    <3> QED BY <2>1, <3>1, <3>3
  <2> QED BY <2>2, <2>3
<1>6. ASSUME ProfileAssign(c)
      PROVE  /\ call[c].pc = "assign" /\ served' = served
             /\ \E code \in call[c].todo :
                   /\ roles' = [roles EXCEPT ![call[c].u] = @ \cup {code}]
                   /\ IF call[c].todo = {code} THEN Moved(c, "idle")
                      ELSE Moved(c, "assign") /\ Same(c) /\ call'[c].todo = call[c].todo \ {code}
  <2>1. call[c].pc = "assign" /\ call[c].todo \subseteq Codes
    BY <1>0, <1>6 DEF ProfileAssign, Equipped, RoleSteps
  <2>2. PICK code \in call[c].todo :
           /\ roles' = [roles EXCEPT ![call[c].u] = @ \cup {code}]
           /\ IF call[c].todo = {code} THEN Return(c)
              ELSE call' = [call EXCEPT ![c].todo = @ \ {code}] /\ UNCHANGED served
    BY <1>6 DEF ProfileAssign, Assigned
  <2>3. CASE call[c].todo = {code}
    BY <2>1, <2>2, <2>3, Returns
  <2>4. CASE call[c].todo # {code}
    <3>1. call' = [call EXCEPT ![c] = [call[c] EXCEPT !.pc = "assign", !.todo = call[c].todo \ {code}]]
      <4>1. [call[c] EXCEPT !.todo = @ \ {code}] = [call[c] EXCEPT !.pc = "assign", !.todo = call[c].todo \ {code}]
        BY <1>0, <2>1 DEF CallRecord
      <4> QED BY <2>2, <2>4, <4>1 DEF CallsOK
    <3>2. Moved(c, "assign") /\ Same(c) /\ call'[c].todo = call[c].todo \ {code}
      BY <2>1, <3>1, <1>3 DEF RoleSteps, ProfileSteps
    <3> QED BY <2>1, <2>2, <2>4, <3>2
  <2> QED BY <2>3, <2>4
<1>7. ProfileFails(c) => Profiling(c) /\ Moved(c, "idle") /\ served' = served
  BY Returns DEF ProfileFails, Profiling, UploadSteps, ProfileSteps
<1> QED BY <1>1, <1>2, <1>4, <1>5, <1>6, <1>7

\* The sequences: one goes on by one, the other stays.
LEMMA Advances ==
    ASSUME TypeOK
    PROVE  /\ nextId.accounts \in Ids /\ nextId' = Advance("accounts") =>
                  /\ nextId' \in [accounts : 2 .. (MaxIds + 1), users : 2 .. (MaxIds + 1)]
                  /\ nextId'.accounts = nextId.accounts + 1 /\ nextId'.users = nextId.users
           /\ nextId.users \in Ids /\ nextId' = Advance("users") =>
                  /\ nextId' \in [accounts : 2 .. (MaxIds + 1), users : 2 .. (MaxIds + 1)]
                  /\ nextId'.users = nextId.users + 1 /\ nextId'.accounts = nextId.accounts
<1>1. MaxIds \in Nat /\ nextId \in [accounts : 2 .. (MaxIds + 1), users : 2 .. (MaxIds + 1)]
  BY AccountsAssumption DEF TypeOK
<1>2. ASSUME nextId.accounts \in Ids, nextId' = Advance("accounts")
      PROVE  /\ nextId' \in [accounts : 2 .. (MaxIds + 1), users : 2 .. (MaxIds + 1)]
             /\ nextId'.accounts = nextId.accounts + 1 /\ nextId'.users = nextId.users
  BY <1>1, <1>2 DEF Advance, Ids
<1>3. ASSUME nextId.users \in Ids, nextId' = Advance("users")
      PROVE  /\ nextId' \in [accounts : 2 .. (MaxIds + 1), users : 2 .. (MaxIds + 1)]
             /\ nextId'.users = nextId.users + 1 /\ nextId'.accounts = nextId.accounts
  BY <1>1, <1>3 DEF Advance, Ids
<1> QED BY <1>2, <1>3

-----------------------------------------------------------------------------
\* Types: of the tables, the store and the histories, ...
LEMMA AccountTypes ==
    ASSUME IInv, AccountsNext, UNCHANGED profileVars
    PROVE  TypeOK' /\ CallsOK'
<1> USE DEF tables, history, profileVars
<1>0. TypeOK /\ CallsOK /\ MaxIds \in Nat /\ Ids \subseteq Nat /\ "user" \in Codes
  BY AccountsAssumption DEF IInv, Ids
<1>1. ASSUME NEW c \in Calls, NEW a \in Addresses, RegisterCreate(c, a)
      PROVE  TypeOK' /\ CallsOK'
  <2>1. nextId' = Advance("accounts") /\ nextId.accounts \in Ids /\ served' = served + 1 /\ served + 1 \in Serials /\ CallsOK'
    BY <1>0, <1>1, RegisterMoves DEF RegisterCreate, AccountCreate, Moved
  <2>2. nextId' \in [accounts : 2 .. (MaxIds + 1), users : 2 .. (MaxIds + 1)] /\ served' \in 0..MaxCalls
    BY <2>1, <1>0, Advances, AccountsAssumption DEF Serials, TypeOK
  <2> QED BY <2>1, <2>2, <1>0, <1>1 DEF RegisterCreate, TypeOK
<1>2. ASSUME NEW c \in Calls,
             RegisterStore(c) \/ RegisterSend(c) \/ RegisterSendFails(c) \/ Rollback(c)
      PROVE  TypeOK' /\ CallsOK'
  <2>1. CallsOK' /\ served' = served
    BY <1>0, <1>2, RegisterMoves DEF Moved
  <2>2. call[c].pc \in Registering => call[c].n \in Serials /\ call[c].id \in Ids /\ call[c].mail \in Addresses
    BY <1>0 DEF CallsOK, Equipped
  <2> QED BY <2>1, <2>2, <1>0, <1>2
    DEF RegisterStore, RegisterSend, RegisterSendFails, Rollback, Stored, Send, TypeOK, Registering
<1>3. ASSUME NEW c \in Calls, RegisterCommit(c)
      PROVE  TypeOK' /\ CallsOK'
  <2>1. CallsOK' /\ served' = served /\ call[c].pc = "commit"
    BY <1>0, <1>3, RegisterMoves DEF Moved
  <2>2. call[c].id \in Ids /\ call[c].mail \in Addresses
    BY <1>0, <2>1 DEF CallsOK, Equipped, Registering
  <2>3. nextId' \in [accounts : 2 .. (MaxIds + 1), users : 2 .. (MaxIds + 1)] /\ nextId.users \in Ids
    BY <1>3, <1>0, Advances DEF RegisterCommit
  <2>4. account' \in [Ids -> Row \cup {NoRow}]
    BY <1>3, <1>0, <2>2 DEF RegisterCommit, TypeOK, Row
  <2> QED BY <2>1, <2>2, <2>3, <2>4, <1>0, <1>3 DEF RegisterCommit, UserCreated, TypeOK
<1>4. ASSUME NEW c \in Calls, NEW t \in Serials, VerifyGet(c, t)
      PROVE  TypeOK' /\ CallsOK'
  <2>1. CallsOK' /\ served' = served + 1 /\ served + 1 \in Serials
    BY <1>0, <1>4, VerifyMoves DEF Moved
  <2> QED BY <2>1, <1>0, <1>4, AccountsAssumption DEF VerifyGet, TypeOK, Serials
<1>5. ASSUME NEW c \in Calls,
             VerifyDelete(c) \/ VerifyDeleteFails(c) \/ VerifyFind(c) \/ VerifyUpdate(c) \/ VerifyUpdateFails(c)
      PROVE  TypeOK' /\ CallsOK'
  <2>1. CallsOK' /\ served' = served /\ call[c].pc \in Verifying
    BY <1>0, <1>5, VerifyMoves DEF Moved, Verifying
  <2>2. call[c].id \in Ids /\ call[c].u \in Serials /\ (call[c].pc = "activate" => call[c].old \in Row)
    BY <1>0, <2>1 DEF CallsOK, Equipped, Holding
  <2>3. account' \in [Ids -> Row \cup {NoRow}]
    BY <1>5, <1>0, <2>2
    DEF VerifyDelete, VerifyDeleteFails, VerifyFind, VerifyUpdate, VerifyUpdateFails, AccountUpdate, TypeOK, Row
  <2>4. /\ store' \in [Serials -> Ids \cup {0}] /\ spent' \subseteq Ids
        /\ UNCHANGED <<owner, roles, nextId, inbox, ruling, bans, crowded>>
    BY <1>5, <1>0, <2>2
    DEF VerifyDelete, VerifyDeleteFails, VerifyFind, VerifyUpdate, VerifyUpdateFails, Deleted, TypeOK
  <2> QED BY <2>1, <2>3, <2>4, <1>0 DEF TypeOK
<1>6. ASSUME NEW c \in Calls, NEW i \in Ids, LoginFind(c, i)
      PROVE  TypeOK' /\ CallsOK'
  <2>1. CallsOK' /\ served' = served + 1 /\ served + 1 \in Serials
    BY <1>0, <1>6, LoginMoves DEF Moved
  <2> QED BY <2>1, <1>0, <1>6, AccountsAssumption DEF LoginFind, TypeOK, Serials
<1>7. ASSUME NEW c \in Calls, LoginUser(c)
      PROVE  TypeOK' /\ CallsOK'
  <2>1. CallsOK' /\ served' = served /\ call[c].pc = "login"
    BY <1>0, <1>7, LoginMoves DEF Moved
  <2>2. call[c].id \in Ids
    BY <1>0, <2>1 DEF CallsOK, Equipped, Holding
  <2>3. nextId' \in [accounts : 2 .. (MaxIds + 1), users : 2 .. (MaxIds + 1)] /\ crowded' \subseteq Ids
    <3>1. CASE nextId' = nextId /\ crowded' = crowded
      BY <3>1, <1>0 DEF TypeOK
    <3>2. CASE /\ nextId.users \in Ids /\ nextId' = Advance("users")
               /\ crowded' = IF Inserting(call[c].id) THEN crowded \cup {call[c].id} ELSE crowded
      BY <3>2, <2>2, <1>0, Advances DEF TypeOK
    <3> QED BY <3>1, <3>2, <1>0, <1>7, LoginMoves
  <2> QED BY <2>1, <2>3, <1>0, <1>7 DEF LoginUser, TypeOK
<1>8. ASSUME NEW c \in Calls, LoginCommit(c)
      PROVE  TypeOK' /\ CallsOK'
  <2>1. CallsOK' /\ served' = served /\ call[c].pc = "update"
    BY <1>0, <1>8, LoginMoves DEF Moved
  <2>2. call[c].id \in Ids /\ call[c].old \in Row /\ call[c].u \in Ids \cup {0}
    BY <1>0, <2>1 DEF CallsOK, Equipped, Holding
  <2>3. account' \in [Ids -> Row \cup {NoRow}]
    BY <1>8, <1>0, <2>2 DEF LoginCommit, AccountUpdate, TypeOK
  <2>4. owner' \in [Ids -> Ids \cup {0}] /\ roles' \in [Ids -> SUBSET Codes]
    BY <1>8, <1>0, <2>2 DEF LoginCommit, UserCreated, TypeOK
  <2> QED BY <2>1, <2>3, <2>4, <1>0, <1>8 DEF LoginCommit, TypeOK
<1>9. ASSUME NEW t \in Serials, ExpireToken(t)
      PROVE  TypeOK' /\ CallsOK'
  BY <1>0, <1>9 DEF ExpireToken, Deleted, TypeOK, CallsOK
<1>10. ASSUME NEW i \in Ids, Ban(i)
       PROVE  TypeOK' /\ CallsOK'
  <2>1. account' \in [Ids -> Row \cup {NoRow}]
    BY <1>0, <1>10 DEF Ban, TypeOK, Row
  <2> QED BY <1>0, <1>10, <2>1 DEF Ban, TypeOK, CallsOK
<1> QED BY <1>1, <1>2, <1>3, <1>4, <1>5, <1>6, <1>7, <1>8, <1>9, <1>10 DEF AccountsNext

\* ... and of the profiles and files; these requests leave the rest alone.
Aside(x) == x.pc \in {"idle"} \cup UploadSteps \cup ProfileSteps

\* Every step of an upload or of a profile update keeps the types.
LEMMA ProfileTypes ==
    ASSUME IInv, ProfilesNext
    PROVE  /\ TypeOK' /\ CallsOK'
           /\ UNCHANGED <<account, owner, nextId, store, inbox, history>> /\ served <= served'
           /\ \A d \in Calls : call'[d] = call[d] \/ (Aside(call[d]) /\ Aside(call'[d]))
<1> USE DEF tables, accountVars, profileVars
<1> DEFINE Goal == /\ TypeOK' /\ CallsOK'
                   /\ UNCHANGED <<account, owner, nextId, store, inbox, history>> /\ served <= served'
                   /\ \A d \in Calls : call'[d] = call[d] \/ (Aside(call[d]) /\ Aside(call'[d]))
<1>0. TypeOK /\ CallsOK /\ served \in Nat /\ MaxCalls \in Nat
  BY AccountsAssumption DEF IInv, TypeOK
<1>1. ASSUME NEW c \in Calls, NEW u \in Ids, NEW img \in Images, UploadFind(c, u, img)
      PROVE  Goal
  <2>1. Moved(c, "stat") /\ call[c].pc = "idle" /\ served' = served + 1 /\ served + 1 \in Serials
    BY <1>0, <1>1, UploadMoves
  <2>2. \A d \in Calls : call'[d] = call[d] \/ (Aside(call[d]) /\ Aside(call'[d]))
    BY <2>1 DEF Moved, Only, Aside, UploadSteps
  <2>3. clash' \subseteq Ids
    BY <1>0, <1>1 DEF UploadFind, Clashes, TypeOK
  <2>4. served' \in 0..MaxCalls /\ served <= served' /\ CallsOK'
    BY <1>0, <2>1 DEF Moved, Serials
  <2> QED BY <1>0, <1>1, <2>2, <2>3, <2>4 DEF UploadFind, TypeOK, history
<1>2. ASSUME NEW c \in Calls, Stat(c) \/ Save(c) \/ SaveFails(c) \/ UploadExists(c) \/ UploadRow(c)
      PROVE  Goal
  <2>1. CallsOK' /\ Only(c) /\ Aside(call[c]) /\ Aside(call'[c]) /\ served' = served /\ call[c].pc \in UploadSteps
    BY <1>0, <1>2, UploadMoves DEF Moved, Aside, UploadSteps
  <2>2. \A d \in Calls : call'[d] = call[d] \/ (Aside(call[d]) /\ Aside(call'[d]))
    BY <2>1 DEF Only, Aside
  <2>3. call[c].u \in Ids /\ call[c].new \in Images /\ call[c].old \in Images \cup {NoRow}
    BY <1>0, <2>1 DEF CallsOK, Equipped
  <2>4. /\ avatar' \in [Ids -> Images \cup {NoRow}] /\ files' \subseteq Ids \X Images /\ torn' \subseteq Ids \X Images
        /\ trash' \subseteq Ids \X (Images \cup {NoRow})
    BY <1>0, <1>2, <2>3 DEF Stat, Save, SaveFails, UploadExists, UploadRow, UserUpdate, Obsolete, TypeOK
  <2>5. UNCHANGED <<accountVars, asked, mixed, clash>>
    BY <1>2 DEF Stat, Save, SaveFails, UploadExists, UploadRow
  <2> QED BY <1>0, <2>1, <2>2, <2>4, <2>5 DEF TypeOK, history
<1>3. ASSUME NEW f \in trash, DeleteFile(f)
      PROVE  Goal
  BY <1>0, <1>3 DEF DeleteFile, TypeOK, CallsOK, history
<1>4. ASSUME NEW c \in Calls, NEW u \in Ids, NEW renamed \in BOOLEAN, NEW codes \in SUBSET Codes,
             ProfileFind(c, u, renamed, codes)
      PROVE  Goal
  <2>1. /\ CallsOK' /\ Only(c) /\ Aside(call[c]) /\ Aside(call'[c])
        /\ served' = served + 1 /\ served + 1 \in Serials
    BY <1>0, <1>4, ProfileMoves DEF Moved, Aside, ProfileSteps
  <2>2. \A d \in Calls : call'[d] = call[d] \/ (Aside(call[d]) /\ Aside(call'[d]))
    BY <2>1 DEF Only, Aside
  <2>3. clash' \subseteq Ids
    BY <1>0, <1>4 DEF ProfileFind, Clashes, TypeOK
  <2> QED BY <1>0, <1>4, <2>1, <2>2, <2>3 DEF ProfileFind, TypeOK, Serials, history
<1>5. ASSUME NEW c \in Calls,
             ProfileName(c) \/ ProfileRoles(c) \/ ProfileRevoke(c) \/ ProfileAssign(c) \/ ProfileFails(c)
      PROVE  Goal
  <2>1. CallsOK' /\ Only(c) /\ Aside(call[c]) /\ Aside(call'[c]) /\ served' = served /\ Profiling(c)
    BY <1>0, <1>5, ProfileMoves DEF Moved, Aside, Profiling, UploadSteps, ProfileSteps
  <2>2. \A d \in Calls : call'[d] = call[d] \/ (Aside(call[d]) /\ Aside(call'[d]))
    BY <2>1 DEF Only, Aside
  <2>3. /\ call[c].u \in Ids /\ call[c].old \in Images \cup {NoRow} /\ call[c].codes \subseteq Codes
        /\ call[c].pc \in RoleSteps => call[c].todo \subseteq Codes
    BY <1>0, <2>1 DEF CallsOK, Equipped, CallRecord, Profiling
  <2>4. /\ avatar' \in [Ids -> Images \cup {NoRow}] /\ asked' \in [Ids -> SUBSET Codes] /\ mixed' \subseteq Ids
        /\ roles' \in [Ids -> SUBSET Codes]
    BY <1>0, <1>5, <2>3
    DEF ProfileName, ProfileRoles, ProfileRevoke, ProfileAssign, ProfileFails, UserUpdate, Revoked, Assigned,
        RoleSteps, TypeOK
  <2>5. UNCHANGED <<account, owner, nextId, store, inbox, history, files, torn, trash, clash>>
    BY <1>5 DEF ProfileName, ProfileRoles, ProfileRevoke, ProfileAssign, ProfileFails, history
  <2> QED BY <1>0, <2>1, <2>2, <2>4, <2>5 DEF TypeOK, history
<1> QED BY <1>1, <1>2, <1>3, <1>4, <1>5 DEF ProfilesNext

-----------------------------------------------------------------------------
\* What a step that is not one of a registration, its failure excepted, does to
\* the accounts: it leaves the registrations, which rows there are and whose, and
\* the mails; tokens may go.
RowsKept == \A i \in Ids : /\ account'[i] # NoRow <=> account[i] # NoRow
                           /\ account[i] # NoRow => account'[i].mail = account[i].mail
Quiet == /\ \A d \in Calls : call'[d].pc \in Registering => call'[d] = call[d]
         /\ RowsKept /\ \A t \in Serials : store'[t] \in {store[t], 0}
         /\ inbox' = inbox /\ nextId'.accounts = nextId.accounts /\ served <= served'

Confirms(c) == VerifyDelete(c) \/ VerifyDeleteFails(c) \/ VerifyFind(c) \/ VerifyUpdate(c) \/ VerifyUpdateFails(c)
LogsIn(c) == (\E i \in Ids : LoginFind(c, i)) \/ LoginUser(c) \/ LoginCommit(c)

\* Rollbacks, confirmations, logins, expiry, bans and all steps on profiles and
\* files are quiet: they insert no account and store no token.
LEMMA QuietSteps ==
    ASSUME IInv
    PROVE  /\ \A c \in Calls : (Rollback(c) \/ (\E t \in Serials : VerifyGet(c, t)) \/ Confirms(c) \/ LogsIn(c)) => Quiet
           /\ (\E t \in Serials : ExpireToken(t)) \/ (\E i \in Ids : Ban(i)) \/ ProfilesNext => Quiet
<1>0. TypeOK /\ CallsOK /\ Held /\ served \in Nat
  BY DEF IInv, AccountInv, TypeOK
<1> USE DEF tables, history
<1>1. ASSUME NEW c \in Calls, Rollback(c)
      PROVE  Quiet
  BY <1>0, <1>1, RegisterMoves DEF Rollback, Quiet, RowsKept, Moved, Only, Registering
<1>2. ASSUME NEW c \in Calls, NEW t \in Serials, VerifyGet(c, t)
      PROVE  Quiet
  <2>1. Only(c) /\ call'[c].pc = "delete" /\ served' = served + 1
    BY <1>0, <1>2, VerifyMoves DEF Moved
  <2>2. UNCHANGED <<account, nextId, store, inbox>>
    BY <1>2 DEF VerifyGet
  <2> QED BY <1>0, <2>1, <2>2 DEF Quiet, RowsKept, Only, Registering
<1>3. ASSUME NEW c \in Calls, Confirms(c)
      PROVE  Quiet
  <2>1. /\ \A d \in Calls : call'[d].pc \in Registering => call'[d] = call[d]
        /\ served' = served /\ call[c].pc \in Verifying
    BY <1>0, <1>3, VerifyMoves DEF Confirms, Moved, Only, Registering, Verifying
  <2>2. call[c].id \in Ids /\ call[c].u \in Serials
    BY <1>0, <2>1 DEF CallsOK, Equipped
  <2>3. /\ \A t \in Serials : store'[t] \in {store[t], 0}
        /\ inbox' = inbox /\ nextId' = nextId
    BY <1>0, <1>3, <2>2
    DEF Confirms, VerifyDelete, VerifyDeleteFails, VerifyFind, VerifyUpdate, VerifyUpdateFails, Deleted, TypeOK
  <2>4. RowsKept
    <3>1. CASE VerifyUpdate(c)
      <4>1. /\ call[c].old \in Row /\ account[call[c].id] # NoRow /\ call[c].old.mail = account[call[c].id].mail
            /\ account' = [account EXCEPT ![call[c].id] = [call[c].old EXCEPT !.status = "active"]]
        BY <3>1, <1>0, <2>2 DEF VerifyUpdate, AccountUpdate, CallsOK, Equipped, Holding, Held, TypeOK
      <4> DEFINE row == [call[c].old EXCEPT !.status = "active"]
      <4>2. row \in Row /\ row.mail = call[c].old.mail
        BY <4>1 DEF Row
      <4> HIDE DEF row
      <4>3. row # NoRow
        BY <4>2, AccountsAssumption DEF Row
      <4> QED BY <1>0, <4>1, <4>2, <4>3, <2>2 DEF RowsKept, TypeOK, row
    <3>2. CASE ~VerifyUpdate(c)
      BY <1>3, <3>2 DEF RowsKept, Confirms, VerifyDelete, VerifyDeleteFails, VerifyFind, VerifyUpdateFails
    <3> QED BY <3>1, <3>2
  <2> QED BY <1>0, <2>1, <2>3, <2>4 DEF Quiet
<1>4. ASSUME NEW c \in Calls, LogsIn(c)
      PROVE  Quiet
  <2>1. /\ \A d \in Calls : call'[d].pc \in Registering => call'[d] = call[d]
        /\ served <= served'
    BY <1>0, <1>4, LoginMoves DEF LogsIn, Moved, Only, Registering
  <2>2. store' = store /\ inbox' = inbox /\ nextId'.accounts = nextId.accounts
    <3>1. store' = store /\ inbox' = inbox
      BY <1>4 DEF LogsIn, LoginFind, LoginUser, LoginCommit
    <3>2. nextId' = nextId \/ (nextId.users \in Ids /\ nextId' = Advance("users"))
      BY <1>4, <1>0, LoginMoves DEF LogsIn, LoginFind, LoginCommit
    <3> QED BY <3>1, <3>2, <1>0, Advances
  <2>3. RowsKept
    <3>1. CASE LoginCommit(c)
      <4>1. call[c].pc = "update" /\ call[c].id \in Ids
        BY <3>1, <1>0 DEF LoginCommit, CallsOK, Equipped, Holding
      <4>2. /\ call[c].old \in Row /\ account[call[c].id] # NoRow /\ call[c].old.mail = account[call[c].id].mail
            /\ account' = [account EXCEPT ![call[c].id] = call[c].old]
        BY <3>1, <4>1, <1>0 DEF LoginCommit, AccountUpdate, CallsOK, Equipped, Holding, Held, TypeOK
      <4>3. call[c].old # NoRow
        BY <4>2, AccountsAssumption DEF Row
      <4> QED BY <1>0, <4>1, <4>2, <4>3 DEF RowsKept, TypeOK
    <3>2. CASE ~LoginCommit(c)
      BY <1>4, <3>2 DEF RowsKept, LogsIn, LoginFind, LoginUser
    <3> QED BY <3>1, <3>2
  <2> QED BY <2>1, <2>2, <2>3 DEF Quiet
<1>5. ASSUME NEW t \in Serials, ExpireToken(t)
      PROVE  Quiet
  BY <1>0, <1>5 DEF ExpireToken, Deleted, Quiet, RowsKept, TypeOK
<1>6. ASSUME NEW i \in Ids, Ban(i)
      PROVE  Quiet
  <2>1. account' = [account EXCEPT ![i] = [account[i] EXCEPT !.status = "banned"]] /\ account[i] \in Row
    BY <1>0, <1>6 DEF Ban, TypeOK
  <2> DEFINE row == [account[i] EXCEPT !.status = "banned"]
  <2>2. row \in Row /\ row.mail = account[i].mail
    BY <2>1 DEF Row
  <2> HIDE DEF row
  <2>3. row # NoRow /\ account[i] # NoRow
    BY <2>1, <2>2, AccountsAssumption DEF Row
  <2>4. RowsKept
    BY <1>0, <2>1, <2>2, <2>3 DEF RowsKept, TypeOK, row
  <2> QED BY <1>0, <1>6, <2>4 DEF Ban, Quiet
<1>7. ASSUME ProfilesNext
      PROVE  Quiet
  BY <1>7, ProfileTypes DEF Quiet, RowsKept, Aside, Registering, UploadSteps, ProfileSteps
<1> QED BY <1>1, <1>2, <1>3, <1>4, <1>5, <1>6, <1>7

-----------------------------------------------------------------------------
\* Registrations and tokens under a step that leaves them alone, ...
LEMMA QuietRegistrations ==
    ASSUME IInv, TypeOK', CallsOK', Quiet
    PROVE  Registrations' /\ Tokens'
<1>0. /\ TypeOK /\ CallsOK /\ Registrations /\ Tokens
      /\ Ids \subseteq Nat /\ 0 \notin Ids /\ Serials \subseteq Nat
      /\ \A t \in Serials : store[t] \in Ids \cup {0}
      /\ served \in Nat /\ served' \in Nat /\ served <= served'
      /\ \A c \in Calls : call[c].pc \in Registering => call[c].n \in Serials /\ call[c].id \in Ids
  <2>1. TypeOK /\ CallsOK /\ Registrations /\ Tokens
    BY DEF IInv, AccountInv
  <2>2. Ids \subseteq Nat /\ 0 \notin Ids /\ Serials \subseteq Nat
    BY DEF Ids, Serials
  <2>3. (\A t \in Serials : store[t] \in Ids \cup {0}) /\ served \in Nat /\ served' \in Nat /\ served <= served'
    BY <2>1 DEF TypeOK, Quiet
  <2>4. \A c \in Calls : call[c].pc \in Registering => call[c].n \in Serials /\ call[c].id \in Ids
    BY <2>1 DEF CallsOK, Equipped
  <2> QED BY <2>1, <2>2, <2>3, <2>4
<1>1. \A d \in Calls : Registers(d)' => Registers(d) /\ call'[d] = call[d]
  BY DEF Quiet, Registers
<1>2. /\ nextId.accounts \in Nat /\ nextId.accounts > 0
      /\ nextId'.accounts = nextId.accounts /\ inbox' = inbox
  BY <1>0, AccountsAssumption DEF TypeOK, Quiet
<1>3. Registrations'
  <2>1. \A c \in Calls : Registers(c)' =>
           call'[c].n <= served' /\ call'[c].id < nextId'.accounts /\ account'[call'[c].id] = NoRow
    <3> SUFFICES ASSUME NEW c \in Calls, Registers(c)'
                 PROVE  call'[c].n <= served' /\ call'[c].id < nextId'.accounts /\ account'[call'[c].id] = NoRow
      OBVIOUS
    <3>1. /\ call'[c] = call[c] /\ call[c].n \in Nat /\ call[c].id \in Ids
          /\ call[c].n <= served /\ call[c].id < nextId.accounts /\ account[call[c].id] = NoRow
      BY <1>0, <1>1 DEF Registrations, Registers
    <3>2. account'[call[c].id] = NoRow
      BY <3>1 DEF Quiet, RowsKept
    <3> QED BY <1>0, <1>2, <3>1, <3>2
  <2>2. \A c, d \in Calls : Registers(c)' /\ Registers(d)' /\ c # d =>
           call'[c].n # call'[d].n /\ call'[c].id # call'[d].id
    BY <1>0, <1>1 DEF Registrations
  <2>3. \A i \in Ids : account'[i] # NoRow => i < nextId'.accounts
    BY <1>0 DEF Quiet, RowsKept, Registrations
  <2>4. \A t \in Serials : /\ t > served' => store'[t] = 0 /\ inbox'[t] = NoMail
                           /\ store'[t] < nextId'.accounts
    <3> SUFFICES ASSUME NEW t \in Serials
                 PROVE  /\ t > served' => store'[t] = 0 /\ inbox'[t] = NoMail
                        /\ store'[t] < nextId'.accounts
      OBVIOUS
    <3>1. store'[t] \in {store[t], 0} /\ t \in Nat
      BY <1>0 DEF Quiet
    <3>2. /\ t > served => store[t] = 0 /\ inbox[t] = NoMail
          /\ store[t] < nextId.accounts
      BY <1>0 DEF Registrations
    <3> QED BY <1>0, <1>2, <3>1, <3>2
  <2> QED BY <2>1, <2>2, <2>3, <2>4 DEF Registrations
<1>4. Tokens'
  <2>1. ASSUME NEW c \in Calls, Registers(c)'
        PROVE  /\ \A t \in Serials : store'[t] = call'[c].id => t = call'[c].n
               /\ store'[call'[c].n] \in {0, call'[c].id}
               /\ call'[c].pc = "store" => store'[call'[c].n] = 0
               /\ inbox'[call'[c].n] = IF call'[c].pc = "commit" THEN call'[c].mail ELSE NoMail
    <3>1. call'[c] = call[c] /\ call[c].n \in Serials /\ call[c].id \in Ids
      BY <1>0, <1>1, <2>1 DEF Registers
    <3>2. /\ \A t \in Serials : store[t] = call[c].id => t = call[c].n
          /\ store[call[c].n] \in {0, call[c].id}
          /\ call[c].pc = "store" => store[call[c].n] = 0
          /\ inbox[call[c].n] = IF call[c].pc = "commit" THEN call[c].mail ELSE NoMail
      BY <1>0, <1>1, <2>1 DEF Tokens
    <3>3. \A t \in Serials : store'[t] \in {store[t], 0}
      BY DEF Quiet
    <3> QED BY <1>0, <1>2, <3>1, <3>2, <3>3
  <2>2. ASSUME NEW t \in Serials, store'[t] # 0, inbox'[t] # NoMail, account'[store'[t]] # NoRow
        PROVE  inbox'[t] = account'[store'[t]].mail
    <3>1. store'[t] = store[t] /\ store[t] \in Ids /\ inbox'[t] = inbox[t]
      BY <1>0, <2>2 DEF Quiet
    <3>2. account[store[t]] # NoRow /\ account'[store[t]].mail = account[store[t]].mail
      BY <2>2, <3>1 DEF Quiet, RowsKept
    <3> QED BY <1>0, <2>2, <3>1, <3>2 DEF Tokens
  <2> QED BY <2>1, <2>2 DEF Tokens
<1> QED BY <1>3, <1>4

\* ... and under the steps of a registration.
Registration(c) == (\E a \in Addresses : RegisterCreate(c, a)) \/ RegisterStore(c) \/ RegisterSend(c)
                   \/ RegisterSendFails(c) \/ RegisterCommit(c)

\* The ids and tokens a registration holds are in range.
LEMMA Numbers ==
    ASSUME IInv
    PROVE  /\ Ids \subseteq Nat /\ 0 \notin Ids /\ Serials \subseteq Nat /\ served \in Nat
           /\ nextId.accounts \in Nat /\ nextId.accounts > 0 /\ nextId.users \in Nat /\ nextId.users > 0
           /\ \A t \in Serials : store[t] \in Ids \cup {0}
           /\ \A c \in Calls : Registers(c) => /\ call[c].n \in Serials /\ call[c].id \in Ids
                                               /\ call[c].mail \in Addresses /\ call[c].mail # NoMail
<1>1. Ids \subseteq Nat /\ 0 \notin Ids /\ Serials \subseteq Nat
  BY DEF Ids, Serials
<1>2. /\ served \in Nat /\ nextId.accounts \in Nat /\ nextId.accounts > 0 /\ nextId.users \in Nat /\ nextId.users > 0
      /\ \A t \in Serials : store[t] \in Ids \cup {0}
  BY AccountsAssumption DEF IInv, TypeOK
<1>3. \A c \in Calls : Registers(c) => /\ call[c].n \in Serials /\ call[c].id \in Ids
                                       /\ call[c].mail \in Addresses /\ call[c].mail # NoMail
  BY AccountsAssumption DEF IInv, CallsOK, Equipped, Registers
<1> QED BY <1>1, <1>2, <1>3

\* The steps of a registration keep what is said of registrations and of tokens.
LEMMA RegistrationsStep ==
    ASSUME IInv, NEW c \in Calls, Registration(c)
    PROVE  Registrations' /\ Tokens'
<1> USE DEF tables, history
<1>0. TypeOK /\ CallsOK /\ Registrations /\ Tokens
  BY DEF IInv, AccountInv
<1>1. ASSUME NEW a \in Addresses, RegisterCreate(c, a)
      PROVE  Registrations' /\ Tokens'
  <2>1. /\ Only(c) /\ call'[c].pc = "store" /\ ~Registers(c) /\ served' = served + 1 /\ served + 1 \in Serials
        /\ call'[c].n = served + 1 /\ call'[c].id = nextId.accounts /\ nextId.accounts \in Ids
    BY <1>0, <1>1, RegisterMoves DEF Moved, Registers, Registering
  <2>2. nextId'.accounts = nextId.accounts + 1 /\ UNCHANGED <<account, store, inbox>>
    BY <1>0, <1>1, <2>1, Advances DEF RegisterCreate, AccountCreate
  <2>3. account[nextId.accounts] = NoRow /\ store[served + 1] = 0 /\ inbox[served + 1] = NoMail
        /\ \A t \in Serials : store[t] # nextId.accounts
    BY <1>0, <2>1, Numbers DEF Registrations
  <2>4. \A d \in Calls : Registers(d)' => d = c \/ (Registers(d) /\ call'[d] = call[d])
    BY <2>1 DEF Only, Registers
  <2>5. Registrations'
    <3>1. \A d \in Calls : Registers(d)' =>
             call'[d].n <= served' /\ call'[d].id < nextId'.accounts /\ account'[call'[d].id] = NoRow
      BY <1>0, <2>1, <2>2, <2>3, <2>4, Numbers DEF Registrations
    <3>2. \A d, e \in Calls : Registers(d)' /\ Registers(e)' /\ d # e =>
             call'[d].n # call'[e].n /\ call'[d].id # call'[e].id
      BY <1>0, <2>1, <2>4, Numbers DEF Registrations
    <3>3. /\ \A i \in Ids : account'[i] # NoRow => i < nextId'.accounts
          /\ \A t \in Serials : /\ t > served' => store'[t] = 0 /\ inbox'[t] = NoMail
                                /\ store'[t] < nextId'.accounts
      BY <1>0, <2>1, <2>2, Numbers DEF Registrations
    <3> QED BY <3>1, <3>2, <3>3 DEF Registrations
  <2>6. Tokens'
    BY <1>0, <2>1, <2>2, <2>3, <2>4 DEF Tokens, Registers
  <2> QED BY <2>5, <2>6
<1>2. ASSUME RegisterStore(c)
      PROVE  Registrations' /\ Tokens'
  <2>1. /\ Only(c) /\ call[c].pc = "store" /\ call'[c].pc = "send" /\ Same(c) /\ served' = served /\ Registers(c)
    BY <1>0, <1>2, RegisterMoves DEF Moved, Registers, Registering
  <2>2. store' = [store EXCEPT ![call[c].n] = call[c].id] /\ UNCHANGED <<account, inbox, nextId>>
    BY <1>2 DEF RegisterStore, Stored
  <2>3. /\ \A d \in Calls : Registers(d)' => /\ Registers(d) /\ call'[d].n = call[d].n /\ call'[d].id = call[d].id
                                             /\ call'[d].mail = call[d].mail /\ (d # c => call'[d].pc = call[d].pc)
        /\ store'[call[c].n] = call[c].id /\ \A t \in Serials : t # call[c].n => store'[t] = store[t]
    BY <1>0, <2>1, <2>2, Numbers DEF Only, Same, Registers, TypeOK
  <2>4. Registrations'
    <3>1. \A d \in Calls : Registers(d)' =>
             call'[d].n <= served' /\ call'[d].id < nextId'.accounts /\ account'[call'[d].id] = NoRow
      BY <1>0, <2>1, <2>2, <2>3 DEF Registrations
    <3>2. \A d, e \in Calls : Registers(d)' /\ Registers(e)' /\ d # e =>
             call'[d].n # call'[e].n /\ call'[d].id # call'[e].id
      BY <1>0, <2>3 DEF Registrations
    <3>3. /\ \A i \in Ids : account'[i] # NoRow => i < nextId'.accounts
          /\ \A t \in Serials : /\ t > served' => store'[t] = 0 /\ inbox'[t] = NoMail
                                /\ store'[t] < nextId'.accounts
      BY <1>0, <2>1, <2>2, <2>3, Numbers DEF Registrations
    <3> QED BY <3>1, <3>2, <3>3 DEF Registrations
  <2>5. Tokens'
    <3>1. ASSUME NEW d \in Calls, Registers(d)'
          PROVE  /\ \A t \in Serials : store'[t] = call'[d].id => t = call'[d].n
                 /\ store'[call'[d].n] \in {0, call'[d].id}
                 /\ call'[d].pc = "store" => store'[call'[d].n] = 0
                 /\ inbox'[call'[d].n] = IF call'[d].pc = "commit" THEN call'[d].mail ELSE NoMail
      BY <1>0, <2>1, <2>2, <2>3, <3>1, Numbers DEF Tokens, Registrations
    <3>2. ASSUME NEW t \in Serials, store'[t] # 0, inbox'[t] # NoMail, account'[store'[t]] # NoRow
          PROVE  inbox'[t] = account'[store'[t]].mail
      BY <1>0, <2>1, <2>2, <2>3, <3>2 DEF Tokens, Registrations
    <3> QED BY <3>1, <3>2 DEF Tokens
  <2> QED BY <2>4, <2>5
<1>3. ASSUME RegisterSend(c) \/ RegisterSendFails(c)
      PROVE  Registrations' /\ Tokens'
  <2>1. /\ Only(c) /\ call[c].pc = "send" /\ served' = served /\ Registers(c)
        /\ (call'[c].pc = "commit" /\ Same(c) /\ RegisterSend(c)) \/ call'[c].pc = "idle"
    BY <1>0, <1>3, RegisterMoves DEF Moved, Registers, Registering
  <2>2. /\ UNCHANGED <<account, store, nextId>>
        /\ inbox' = [inbox EXCEPT ![call[c].n] = call[c].mail] \/ inbox' = inbox
        /\ RegisterSend(c) => inbox' = [inbox EXCEPT ![call[c].n] = call[c].mail]
    BY <1>3 DEF RegisterSend, RegisterSendFails, Send
  <2>3. /\ \A d \in Calls : Registers(d)' => /\ Registers(d) /\ call'[d].n = call[d].n /\ call'[d].id = call[d].id
                                             /\ call'[d].mail = call[d].mail /\ (d # c => call'[d].pc = call[d].pc)
        /\ inbox'[call[c].n] \in {call[c].mail, inbox[call[c].n]} /\ (RegisterSend(c) => inbox'[call[c].n] = call[c].mail)
        /\ \A t \in Serials : t # call[c].n => inbox'[t] = inbox[t]
    BY <1>0, <2>1, <2>2, Numbers DEF Only, Same, Registers, Registering, TypeOK
  <2>4. Registrations'
    <3>1. \A d \in Calls : Registers(d)' =>
             call'[d].n <= served' /\ call'[d].id < nextId'.accounts /\ account'[call'[d].id] = NoRow
      BY <1>0, <2>1, <2>2, <2>3 DEF Registrations
    <3>2. \A d, e \in Calls : Registers(d)' /\ Registers(e)' /\ d # e =>
             call'[d].n # call'[e].n /\ call'[d].id # call'[e].id
      BY <1>0, <2>3 DEF Registrations
    <3>3. /\ \A i \in Ids : account'[i] # NoRow => i < nextId'.accounts
          /\ \A t \in Serials : /\ t > served' => store'[t] = 0 /\ inbox'[t] = NoMail
                                /\ store'[t] < nextId'.accounts
      BY <1>0, <2>1, <2>2, <2>3, Numbers DEF Registrations
    <3> QED BY <3>1, <3>2, <3>3 DEF Registrations
  <2>5. Tokens'
    <3>1. ASSUME NEW d \in Calls, Registers(d)'
          PROVE  /\ \A t \in Serials : store'[t] = call'[d].id => t = call'[d].n
                 /\ store'[call'[d].n] \in {0, call'[d].id}
                 /\ call'[d].pc = "store" => store'[call'[d].n] = 0
                 /\ inbox'[call'[d].n] = IF call'[d].pc = "commit" THEN call'[d].mail ELSE NoMail
      <4>1. CASE d = c
        BY <1>0, <2>1, <2>2, <2>3, <3>1, <4>1, Numbers DEF Tokens, Registers, Registering
      <4>2. CASE d # c
        BY <1>0, <2>1, <2>2, <2>3, <3>1, <4>2, Numbers DEF Tokens, Registrations
      <4> QED BY <4>1, <4>2
    <3>2. ASSUME NEW t \in Serials, store'[t] # 0, inbox'[t] # NoMail, account'[store'[t]] # NoRow
          PROVE  inbox'[t] = account'[store'[t]].mail
      BY <1>0, <2>1, <2>2, <2>3, <3>2, Numbers DEF Tokens, Registrations
    <3> QED BY <3>1, <3>2 DEF Tokens
  <2> QED BY <2>4, <2>5
<1>4. ASSUME RegisterCommit(c)
      PROVE  Registrations' /\ Tokens'
  <2>1. Only(c) /\ call[c].pc = "commit" /\ call'[c].pc = "idle" /\ served' = served /\ Registers(c) /\ ~Registers(c)'
    BY <1>0, <1>4, RegisterMoves DEF Moved, Registers, Registering
  <2> DEFINE row == [mail |-> call[c].mail, status |-> "applying"]
  <2>2. /\ UNCHANGED <<store, inbox>> /\ nextId'.accounts = nextId.accounts
        /\ account' = [account EXCEPT ![call[c].id] = row]
    BY <1>0, <1>4, Advances DEF RegisterCommit
  <2>3. \A d \in Calls : Registers(d)' => d # c /\ Registers(d) /\ call'[d] = call[d]
    BY <2>1 DEF Only, Registers
  <2>4. row.mail = call[c].mail
    OBVIOUS
  <2> HIDE DEF row
  <2>5. account'[call[c].id] = row /\ \A i \in Ids : i # call[c].id => account'[i] = account[i]
    BY <1>0, <2>1, <2>2, Numbers DEF TypeOK
  <2>6. Registrations'
    <3>1. \A d \in Calls : Registers(d)' =>
             call'[d].n <= served' /\ call'[d].id < nextId'.accounts /\ account'[call'[d].id] = NoRow
      BY <1>0, <2>1, <2>2, <2>3, <2>5, Numbers DEF Registrations
    <3>2. \A d, e \in Calls : Registers(d)' /\ Registers(e)' /\ d # e =>
             call'[d].n # call'[e].n /\ call'[d].id # call'[e].id
      BY <1>0, <2>3 DEF Registrations
    <3>3. /\ \A i \in Ids : account'[i] # NoRow => i < nextId'.accounts
          /\ \A t \in Serials : /\ t > served' => store'[t] = 0 /\ inbox'[t] = NoMail
                                /\ store'[t] < nextId'.accounts
      BY <1>0, <2>1, <2>2, <2>5, Numbers DEF Registrations
    <3> QED BY <3>1, <3>2, <3>3 DEF Registrations
  <2>7. Tokens'
    <3>1. ASSUME NEW d \in Calls, Registers(d)'
          PROVE  /\ \A t \in Serials : store'[t] = call'[d].id => t = call'[d].n
                 /\ store'[call'[d].n] \in {0, call'[d].id}
                 /\ call'[d].pc = "store" => store'[call'[d].n] = 0
                 /\ inbox'[call'[d].n] = IF call'[d].pc = "commit" THEN call'[d].mail ELSE NoMail
      BY <1>0, <2>2, <2>3, <3>1 DEF Tokens
    <3>2. ASSUME NEW t \in Serials, store'[t] # 0, inbox'[t] # NoMail, account'[store'[t]] # NoRow
          PROVE  inbox'[t] = account'[store'[t]].mail
      <4>1. store[t] \in Ids
        BY <2>2, <3>2, Numbers
      <4>2. CASE store[t] = call[c].id
        <5>1. t = call[c].n /\ inbox[t] = call[c].mail
          BY <1>0, <2>1, <4>2 DEF Tokens
        <5> QED BY <2>2, <2>4, <2>5, <4>2, <5>1
      <4>3. CASE store[t] # call[c].id
        BY <1>0, <2>2, <2>5, <3>2, <4>1, <4>3 DEF Tokens
      <4> QED BY <4>2, <4>3
    <3> QED BY <3>1, <3>2 DEF Tokens
  <2> QED BY <2>6, <2>7
<1> QED BY <1>1, <1>2, <1>3, <1>4 DEF Registration

-----------------------------------------------------------------------------
\* The tokens under confirmation: a step that begins none, ...
NoneBegins == \A d \in Calls : call'[d].pc \in Verifying =>
                  call[d].pc \in Verifying /\ call'[d].id = call[d].id /\ call'[d].u = call[d].u

\* The account and the token under confirmation are in range.
LEMMA VerificationTypes ==
    ASSUME IInv
    PROVE  \A d \in Calls : call[d].pc \in Verifying => call[d].id \in Ids /\ call[d].u \in Serials
BY DEF IInv, CallsOK, Equipped

\* ... keeps what is said of the tokens under confirmation.
LEMMA QuietVerifications ==
    ASSUME IInv, Quiet, NoneBegins
    PROVE  Verifications'
<1> SUFFICES ASSUME NEW d \in Calls, call'[d].pc \in Verifying
             PROVE  /\ inbox'[call'[d].u] # NoMail
                    /\ store'[call'[d].u] \in {0, call'[d].id}
                    /\ call'[d].id < nextId'.accounts
                    /\ account'[call'[d].id] # NoRow => inbox'[call'[d].u] = account'[call'[d].id].mail
                    /\ \A c \in Calls : Registers(c)' /\ call'[c].id = call'[d].id => call'[c].n = call'[d].u
  BY DEF Verifications
<1>1. /\ call[d].pc \in Verifying /\ call'[d].id = call[d].id /\ call'[d].u = call[d].u
      /\ call[d].id \in Ids /\ call[d].u \in Serials
  BY VerificationTypes DEF NoneBegins
<1>2. /\ inbox[call[d].u] # NoMail
      /\ store[call[d].u] \in {0, call[d].id}
      /\ call[d].id < nextId.accounts
      /\ account[call[d].id] # NoRow => inbox[call[d].u] = account[call[d].id].mail
      /\ \A c \in Calls : Registers(c) /\ call[c].id = call[d].id => call[c].n = call[d].u
  BY <1>1 DEF IInv, AccountInv, Verifications
<1>3. store'[call[d].u] \in {store[call[d].u], 0} /\ inbox' = inbox /\ nextId'.accounts = nextId.accounts
  BY <1>1 DEF Quiet
<1>4. account'[call[d].id] # NoRow => account[call[d].id] # NoRow /\ account'[call[d].id].mail = account[call[d].id].mail
  BY <1>1 DEF Quiet, RowsKept
<1>5. \A c \in Calls : Registers(c)' => Registers(c) /\ call'[c] = call[c]
  BY DEF Quiet, Registers
<1> QED BY <1>1, <1>2, <1>3, <1>4, <1>5

\* ... one that looks a token up, ...
LEMMA VerifyGetStep ==
    ASSUME IInv, NEW c \in Calls, NEW t \in Serials, VerifyGet(c, t)
    PROVE  Verifications'
<1>1. /\ Only(c) /\ call[c].pc = "idle" /\ call'[c].pc = "delete" /\ call'[c].id = store[t] /\ call'[c].u = t
      /\ ~Registers(c)' /\ UNCHANGED <<account, nextId, store, inbox>>
  <2>1. TypeOK /\ CallsOK
    BY DEF IInv
  <2> QED BY <2>1, VerifyMoves DEF VerifyGet, Moved, tables, Registers, Registering
<1>2. inbox[t] # NoMail /\ store[t] # 0 /\ store[t] \in Ids
  BY Numbers DEF VerifyGet
<1>3. Registrations /\ Tokens /\ Verifications
  BY DEF IInv, AccountInv
<1>4. \A d \in Calls : Registers(d)' => Registers(d) /\ call'[d] = call[d]
  BY <1>1 DEF Only, Registers
<1> SUFFICES ASSUME NEW d \in Calls, call'[d].pc \in Verifying
             PROVE  /\ inbox[call'[d].u] # NoMail
                    /\ store[call'[d].u] \in {0, call'[d].id}
                    /\ call'[d].id < nextId.accounts
                    /\ account[call'[d].id] # NoRow => inbox[call'[d].u] = account[call'[d].id].mail
                    /\ \A e \in Calls : Registers(e)' /\ call'[e].id = call'[d].id => call'[e].n = call'[d].u
  BY <1>1 DEF Verifications
<1>5. CASE d = c
  BY <1>1, <1>2, <1>3, <1>4, <1>5 DEF Registrations, Tokens
<1>6. CASE d # c
  BY <1>1, <1>3, <1>4, <1>6 DEF Only, Verifications
<1> QED BY <1>5, <1>6

\* ... and the steps of a registration.
LEMMA RegistrationVerifications ==
    ASSUME IInv, NEW c \in Calls, Registration(c)
    PROVE  Verifications'
<1> USE DEF tables, history
<1>0. TypeOK /\ CallsOK /\ Registrations /\ Tokens /\ Verifications
  BY DEF IInv, AccountInv
<1>1. /\ Only(c) /\ call[c].pc \in {"idle"} \cup Registering /\ call'[c].pc \in {"idle"} \cup Registering
  <2>1. ASSUME NEW a \in Addresses, RegisterCreate(c, a)
        PROVE  Only(c) /\ call[c].pc = "idle" /\ call'[c].pc = "store"
    BY <1>0, <2>1, RegisterMoves DEF Moved
  <2>2. ASSUME RegisterStore(c) \/ RegisterSend(c) \/ RegisterSendFails(c) \/ RegisterCommit(c)
        PROVE  /\ Only(c) /\ call[c].pc \in {"store", "send", "commit"}
               /\ call'[c].pc \in {"send", "commit", "idle"}
    BY <1>0, <2>2, RegisterMoves DEF Moved
  <2> QED BY <2>1, <2>2 DEF Registration, Registering
<1>2. \A d \in Calls : call'[d].pc \in Verifying =>
          d # c /\ call[d].pc \in Verifying /\ call'[d] = call[d] /\ call[d].id \in Ids /\ call[d].u \in Serials
  BY <1>1, VerificationTypes DEF Only, Verifying, Registering
<1> SUFFICES ASSUME NEW d \in Calls, call[d].pc \in Verifying, d # c, call'[d] = call[d],
                    call[d].id \in Ids, call[d].u \in Serials
             PROVE  /\ inbox'[call[d].u] # NoMail
                    /\ store'[call[d].u] \in {0, call[d].id}
                    /\ call[d].id < nextId'.accounts
                    /\ account'[call[d].id] # NoRow => inbox'[call[d].u] = account'[call[d].id].mail
                    /\ \A e \in Calls : Registers(e)' /\ call'[e].id = call[d].id => call'[e].n = call[d].u
  <2> SUFFICES ASSUME NEW d \in Calls, call'[d].pc \in Verifying
               PROVE  /\ inbox'[call'[d].u] # NoMail
                      /\ store'[call'[d].u] \in {0, call'[d].id}
                      /\ call'[d].id < nextId'.accounts
                      /\ account'[call'[d].id] # NoRow => inbox'[call'[d].u] = account'[call'[d].id].mail
                      /\ \A e \in Calls : Registers(e)' /\ call'[e].id = call'[d].id => call'[e].n = call'[d].u
    BY DEF Verifications
  <2> QED BY <1>2
<1>3. /\ inbox[call[d].u] # NoMail
      /\ store[call[d].u] \in {0, call[d].id}
      /\ call[d].id < nextId.accounts
      /\ account[call[d].id] # NoRow => inbox[call[d].u] = account[call[d].id].mail
      /\ \A e \in Calls : Registers(e) /\ call[e].id = call[d].id => call[e].n = call[d].u
  BY <1>0 DEF Verifications
<1>4. ASSUME NEW a \in Addresses, RegisterCreate(c, a)
      PROVE  /\ inbox'[call[d].u] # NoMail
             /\ store'[call[d].u] \in {0, call[d].id}
             /\ call[d].id < nextId'.accounts
             /\ account'[call[d].id] # NoRow => inbox'[call[d].u] = account'[call[d].id].mail
             /\ \A e \in Calls : Registers(e)' /\ call'[e].id = call[d].id => call'[e].n = call[d].u
  <2>1. /\ call'[c].id = nextId.accounts /\ nextId'.accounts = nextId.accounts + 1
        /\ UNCHANGED <<account, store, inbox>>
    BY <1>0, <1>4, RegisterMoves, Advances DEF RegisterCreate, AccountCreate
  <2>2. \A e \in Calls : e # c /\ Registers(e)' => Registers(e) /\ call'[e] = call[e]
    BY <1>1 DEF Only, Registers
  <2> QED BY <1>3, <2>1, <2>2, Numbers
<1>5. ASSUME RegisterStore(c) \/ RegisterSend(c) \/ RegisterSendFails(c)
      PROVE  /\ inbox'[call[d].u] # NoMail
             /\ store'[call[d].u] \in {0, call[d].id}
             /\ call[d].id < nextId'.accounts
             /\ account'[call[d].id] # NoRow => inbox'[call[d].u] = account'[call[d].id].mail
             /\ \A e \in Calls : Registers(e)' /\ call'[e].id = call[d].id => call'[e].n = call[d].u
  <2>1. call[c].pc \in {"store", "send"} /\ Registers(c) /\ (Same(c) \/ ~Registers(c)')
    BY <1>0, <1>5, RegisterMoves DEF Moved, Registers, Registering
  <2>2. call[c].n # call[d].u /\ call[c].n \in Serials
    BY <1>0, <1>3, <2>1, Numbers DEF Tokens
  <2>3. store'[call[d].u] = store[call[d].u] /\ inbox'[call[d].u] = inbox[call[d].u] /\ UNCHANGED <<account, nextId>>
    BY <1>0, <1>5, <2>2 DEF RegisterStore, RegisterSend, RegisterSendFails, Stored, Send, TypeOK
  <2>4. \A e \in Calls : Registers(e)' => Registers(e) /\ call'[e].id = call[e].id /\ call'[e].n = call[e].n
    BY <1>1, <2>1 DEF Only, Registers, Same
  <2> QED BY <1>3, <2>3, <2>4
<1>6. ASSUME RegisterCommit(c)
      PROVE  /\ inbox'[call[d].u] # NoMail
             /\ store'[call[d].u] \in {0, call[d].id}
             /\ call[d].id < nextId'.accounts
             /\ account'[call[d].id] # NoRow => inbox'[call[d].u] = account'[call[d].id].mail
             /\ \A e \in Calls : Registers(e)' /\ call'[e].id = call[d].id => call'[e].n = call[d].u
  <2>1. call[c].pc = "commit" /\ Registers(c) /\ ~Registers(c)'
    BY <1>0, <1>6, RegisterMoves DEF Moved, Registers, Registering
  <2> DEFINE row == [mail |-> call[c].mail, status |-> "applying"]
  <2>2. /\ UNCHANGED <<store, inbox>> /\ nextId'.accounts = nextId.accounts
        /\ account' = [account EXCEPT ![call[c].id] = row] /\ row.mail = call[c].mail
    BY <1>0, <1>6, Advances DEF RegisterCommit
  <2> HIDE DEF row
  <2>3. account'[call[d].id] # NoRow => inbox'[call[d].u] = account'[call[d].id].mail
    <3>1. CASE call[d].id = call[c].id
      <4>1. call[c].n = call[d].u /\ inbox[call[c].n] = call[c].mail
        BY <1>0, <1>3, <2>1, <3>1 DEF Tokens
      <4> QED BY <1>0, <2>2, <3>1, <4>1 DEF TypeOK
    <3>2. CASE call[d].id # call[c].id
      BY <1>0, <1>3, <2>2, <3>2 DEF TypeOK
    <3> QED BY <3>1, <3>2
  <2>4. \A e \in Calls : Registers(e)' => Registers(e) /\ call'[e] = call[e]
    BY <1>1, <2>1 DEF Only, Registers
  <2> QED BY <1>3, <2>2, <2>3, <2>4
<1> QED BY <1>4, <1>5, <1>6 DEF Registration

-----------------------------------------------------------------------------
\* Rows and those who hold them.  What a step does to a row: nothing, publish it,
\* write back what a request holds, or ban it; ...
RowEffect ==
    \A i \in Ids :
        /\ account[i] # NoRow => account'[i] # NoRow /\ account'[i].mail = account[i].mail
        /\ account'[i] # NoRow =>
               \/ account'[i] = account[i]
               \/ /\ account[i] = NoRow /\ account'[i].status = "applying"
                  /\ \E c \in Calls : call[c].pc = "commit" /\ call[c].id = i /\ call[c].mail = account'[i].mail
               \/ /\ HoldsRow(i) /\ account[i] # NoRow /\ account'[i].status = "active"
                  /\ i # 1 => account'[i].mail \in confirmed'
               \/ account[i] # NoRow /\ account'[i].status = "banned"

\* ... who holds one after it: who held it, or who has read it now, ...
Holders ==
    \A d \in Calls : call'[d].pc \in Holding =>
        \/ /\ call[d].pc \in Holding /\ call'[d].id = call[d].id /\ call'[d].old = call[d].old
           /\ call'[d].pc # "activate" => call[d].pc # "activate"
        \/ /\ call'[d].id \in Ids /\ account[call'[d].id] # NoRow /\ call'[d].old = account[call'[d].id]
           /\ account[call'[d].id].status # "banned"
           /\ call'[d].pc # "activate" => account[call'[d].id].status = "active"

\* ... and what an administrator decides.
Rulings ==
    \A i \in Ids : ruling'[i] = "banned" =>
        \/ ruling[i] = "banned"
        \/ ~HoldsRow(i) /\ account'[i] # NoRow /\ account'[i].status = "banned" /\ call' = call
RowStep == RowEffect /\ Holders /\ Rulings /\ confirmed \subseteq confirmed'

\* A request that holds an account row read it, and it was a row.
LEMMA HoldTypes ==
    ASSUME IInv
    PROVE  /\ \A d \in Calls : call[d].pc \in Holding => call[d].id \in Ids /\ call[d].old \in Row /\ HoldsRow(call[d].id)
           /\ \A i \in Ids : account[i] # NoRow => account[i] \in Row
           /\ NoRow \notin Row
BY AccountsAssumption DEF IInv, CallsOK, Equipped, TypeOK, HoldsRow, Holding, Row

\* Every step changes account rows in one of the ways RowStep names.
LEMMA RowSteps ==
    ASSUME IInv, TypeOK', (AccountsNext /\ UNCHANGED profileVars) \/ ProfilesNext
    PROVE  RowStep
<1> USE DEF tables, history
<1>0. TypeOK /\ CallsOK /\ Registrations /\ Verifications /\ Held
  BY DEF IInv, AccountInv
<1>1. ASSUME NEW c \in Calls, NEW a \in Addresses, RegisterCreate(c, a)
      PROVE  RowStep
  <2>1. Only(c) /\ call'[c].pc = "store" /\ UNCHANGED <<account, ruling, confirmed>>
    BY <1>0, <1>1, RegisterMoves DEF Moved, RegisterCreate
  <2> QED BY <2>1 DEF RowStep, RowEffect, Holders, Rulings, Only, Holding
<1>2. ASSUME NEW c \in Calls, RegisterStore(c) \/ RegisterSend(c) \/ RegisterSendFails(c) \/ Rollback(c)
      PROVE  RowStep
  <2>1. Only(c) /\ call'[c].pc \notin Holding /\ UNCHANGED <<account, ruling, confirmed>>
    BY <1>0, <1>2, RegisterMoves DEF Moved, RegisterStore, RegisterSend, RegisterSendFails, Rollback, Holding
  <2> QED BY <2>1 DEF RowStep, RowEffect, Holders, Rulings, Only
<1>3. ASSUME NEW c \in Calls, RegisterCommit(c)
      PROVE  RowStep
  <2>1. /\ Only(c) /\ call'[c].pc \notin Holding /\ UNCHANGED <<ruling, confirmed>> /\ call[c].pc = "commit"
        /\ account' = [account EXCEPT ![call[c].id] = [mail |-> call[c].mail, status |-> "applying"]]
    BY <1>0, <1>3, RegisterMoves DEF Moved, RegisterCommit, Holding
  <2>2. account[call[c].id] = NoRow /\ call[c].id \in Ids
    BY <1>0, <2>1, Numbers DEF Registrations, Registers, Registering
  <2>3. RowEffect
    BY <1>0, <2>1, <2>2 DEF RowEffect, TypeOK
  <2> QED BY <2>1, <2>3 DEF RowStep, Holders, Rulings, Only
<1>4. ASSUME NEW c \in Calls, NEW t \in Serials, VerifyGet(c, t)
      PROVE  RowStep
  <2>1. Only(c) /\ call'[c].pc = "delete" /\ UNCHANGED <<account, ruling, confirmed>>
    BY <1>0, <1>4, VerifyMoves DEF Moved, VerifyGet
  <2> QED BY <2>1 DEF RowStep, RowEffect, Holders, Rulings, Only, Holding
<1>5. ASSUME NEW c \in Calls, VerifyDelete(c) \/ VerifyDeleteFails(c) \/ VerifyUpdateFails(c)
      PROVE  RowStep
  <2>1. Only(c) /\ call'[c].pc \notin Holding /\ UNCHANGED <<account, ruling, confirmed>>
    BY <1>0, <1>5, VerifyMoves DEF Moved, VerifyDelete, VerifyDeleteFails, VerifyUpdateFails, Holding
  <2> QED BY <2>1 DEF RowStep, RowEffect, Holders, Rulings, Only
<1>6. ASSUME NEW c \in Calls, VerifyFind(c)
      PROVE  RowStep
  <2>1. Only(c) /\ call[c].pc = "find" /\ UNCHANGED <<account, ruling, confirmed>>
    BY <1>0, <1>6, VerifyMoves DEF Moved, VerifyFind
  <2>2. call[c].id \in Ids
    BY <2>1, VerificationTypes DEF Verifying
  <2>3. \/ call'[c].pc = "idle"
        \/ /\ call'[c].id \in Ids /\ account[call'[c].id] # NoRow /\ call'[c].old = account[call'[c].id]
           /\ account[call'[c].id].status # "banned" /\ call'[c].pc = "activate"
    BY <1>0, <1>6, <2>2, VerifyMoves DEF Moved, Applying
  <2>4. Holders
    BY <2>1, <2>3 DEF Holders, Only, Holding
  <2> QED BY <2>1, <2>4 DEF RowStep, RowEffect, Rulings
<1>7. ASSUME NEW c \in Calls, VerifyUpdate(c)
      PROVE  RowStep
  <2>1. /\ Only(c) /\ call'[c].pc = "idle" /\ call[c].pc = "activate" /\ UNCHANGED ruling
        /\ confirmed' = confirmed \cup {inbox[call[c].u]}
    BY <1>0, <1>7, VerifyMoves DEF Moved, VerifyUpdate
  <2>2. /\ call[c].id \in Ids /\ call[c].old \in Row /\ account[call[c].id] # NoRow /\ HoldsRow(call[c].id)
        /\ call[c].old.mail = account[call[c].id].mail /\ inbox[call[c].u] = account[call[c].id].mail
    BY <1>0, <2>1, HoldTypes DEF Held, Holding, Verifications, Verifying
  <2> DEFINE row == [call[c].old EXCEPT !.status = "active"]
  <2>3. /\ account' = [account EXCEPT ![call[c].id] = row]
        /\ row \in Row /\ row.mail = call[c].old.mail /\ row.status = "active"
    BY <1>0, <1>7, <2>2 DEF VerifyUpdate, AccountUpdate, TypeOK, Row
  <2> HIDE DEF row
  <2>4. RowEffect
    BY <1>0, <2>1, <2>2, <2>3, HoldTypes DEF RowEffect, TypeOK
  <2> QED BY <2>1, <2>4 DEF RowStep, Holders, Rulings, Only, Holding
<1>8. ASSUME NEW c \in Calls, NEW i \in Ids, LoginFind(c, i)
      PROVE  RowStep
  <2>1. /\ Only(c) /\ call'[c].pc = "login" /\ call'[c].id = i /\ call'[c].old = account[i]
        /\ account[i] # NoRow /\ account[i].status = "active" /\ UNCHANGED <<account, ruling, confirmed>>
    BY <1>0, <1>8, LoginMoves DEF Moved, LoginFind, findAccount, castStatusError
  <2> QED BY <2>1 DEF RowStep, RowEffect, Holders, Rulings, Only
<1>9. ASSUME NEW c \in Calls, LoginUser(c)
      PROVE  RowStep
  <2>1. /\ Only(c) /\ call[c].pc = "login" /\ UNCHANGED <<account, ruling, confirmed>>
        /\ \/ call'[c].pc = "update" /\ call'[c].id = call[c].id /\ call'[c].old = call[c].old
           \/ call'[c].pc = "idle"
    BY <1>0, <1>9, LoginMoves DEF Moved, LoginUser
  <2> QED BY <2>1 DEF RowStep, RowEffect, Holders, Rulings, Only, Holding
<1>10. ASSUME NEW c \in Calls, LoginCommit(c)
       PROVE  RowStep
  <2>1. Only(c) /\ call'[c].pc = "idle" /\ call[c].pc = "update" /\ UNCHANGED <<ruling, confirmed>>
    BY <1>0, <1>10, LoginMoves DEF Moved, LoginCommit
  <2>2. /\ call[c].id \in Ids /\ call[c].old \in Row /\ account[call[c].id] # NoRow /\ HoldsRow(call[c].id)
        /\ call[c].old.mail = account[call[c].id].mail /\ call[c].old.status = "active"
        /\ call[c].id # 1 => call[c].old.mail \in confirmed
    BY <1>0, <2>1, HoldTypes DEF Held, Holding
  <2>3. account' = [account EXCEPT ![call[c].id] = call[c].old]
    BY <1>0, <1>10, <2>2 DEF LoginCommit, AccountUpdate, TypeOK
  <2>4. RowEffect
    BY <1>0, <2>1, <2>2, <2>3, HoldTypes DEF RowEffect, TypeOK
  <2> QED BY <2>1, <2>4 DEF RowStep, Holders, Rulings, Only, Holding
<1>11. ASSUME NEW t \in Serials, ExpireToken(t)
       PROVE  RowStep
  BY <1>11 DEF ExpireToken, RowStep, RowEffect, Holders, Rulings
<1>12. ASSUME NEW i \in Ids, Ban(i)
       PROVE  RowStep
  <2>1. UNCHANGED <<call, confirmed>> /\ account[i] \in Row
    BY <1>12, HoldTypes DEF Ban
  <2> DEFINE row == [account[i] EXCEPT !.status = "banned"]
  <2>2. /\ row \in Row /\ row.mail = account[i].mail /\ row.status = "banned"
        /\ account' = [account EXCEPT ![i] = row]
    BY <1>12, <2>1 DEF Ban, Row
  <2> HIDE DEF row
  <2>3. RowEffect
    BY <1>0, <2>1, <2>2, HoldTypes DEF RowEffect, TypeOK
  <2>4. Rulings
    BY <1>0, <1>12, <2>1, <2>2, HoldTypes DEF Ban, Rulings, TypeOK
  <2> QED BY <2>1, <2>3, <2>4 DEF RowStep, Holders
<1>13. ASSUME ProfilesNext
       PROVE  RowStep
  BY <1>13, ProfileTypes DEF RowStep, RowEffect, Holders, Rulings, Aside, Holding, UploadSteps, ProfileSteps
<1> QED BY <1>1, <1>2, <1>3, <1>4, <1>5, <1>6, <1>7, <1>8, <1>9, <1>10, <1>11, <1>12, <1>13 DEF AccountsNext

\* A held row stays, and a ban.
LEMMA RowsStep ==
    ASSUME IInv, RowStep
    PROVE  Held' /\ BanKept' /\ StatusIsEarned'
<1>0. Held /\ BanKept /\ StatusIsEarned
  BY DEF IInv, AccountInv
<1>1. Held'
  <2> SUFFICES ASSUME NEW d \in Calls, call'[d].pc \in Holding
               PROVE  /\ account'[call'[d].id] # NoRow
                      /\ call'[d].old.mail = account'[call'[d].id].mail
                      /\ call'[d].pc # "activate" => /\ call'[d].old.status = "active"
                                                     /\ call'[d].id # 1 => call'[d].old.mail \in confirmed'
    BY DEF Held
  <2>1. CASE /\ call[d].pc \in Holding /\ call'[d].id = call[d].id /\ call'[d].old = call[d].old
             /\ call'[d].pc # "activate" => call[d].pc # "activate"
    BY <1>0, <2>1, HoldTypes DEF Held, RowStep, RowEffect
  <2>2. CASE /\ call'[d].id \in Ids /\ account[call'[d].id] # NoRow /\ call'[d].old = account[call'[d].id]
             /\ call'[d].pc # "activate" => account[call'[d].id].status = "active"
    BY <1>0, <2>2 DEF StatusIsEarned, RowStep, RowEffect
  <2> QED BY <2>1, <2>2 DEF RowStep, Holders
<1>2. ASSUME NEW i \in Ids, ruling'[i] = "banned"
      PROVE  account'[i] # NoRow /\ account'[i].status = "banned" /\ ~HoldsRow(i)'
  <2>1. CASE ruling[i] = "banned"
    <3>1. account[i] # NoRow /\ account[i].status = "banned" /\ ~HoldsRow(i)
      BY <1>0, <2>1 DEF BanKept
    <3>2. ASSUME NEW d \in Calls, call'[d].pc \in Holding
          PROVE  call'[d].id # i
      BY <3>1, <3>2 DEF RowStep, Holders, HoldsRow, Holding
    <3> QED BY <3>1, <3>2 DEF RowStep, RowEffect, HoldsRow, Holding
  <2>2. CASE ~HoldsRow(i) /\ account'[i] # NoRow /\ account'[i].status = "banned" /\ call' = call
    BY <2>2 DEF HoldsRow
  <2> QED BY <1>2, <2>1, <2>2 DEF RowStep, Rulings
<1>3. BanKept'
  BY <1>2 DEF BanKept
<1>4. ASSUME NEW i \in Ids, account'[i] # NoRow, i # 1, account'[i].status = "active"
      PROVE  account'[i].mail \in confirmed'
  BY <1>0, <1>4 DEF StatusIsEarned, RowStep, RowEffect
<1> QED BY <1>1, <1>2, <1>3, <1>4 DEF StatusIsEarned

-----------------------------------------------------------------------------
\* What a step leaves an account to be confirmed with.  A token stays, or is
\* given up, or a confirmation has taken it; ...
TokenEffect ==
    /\ spent \subseteq spent'
    /\ \A t \in Serials :
           /\ store[t] # 0 => \/ store'[t] = store[t] \/ store[t] \in spent'
                              \/ inbox[t] # NoMail /\ \E d \in Calls : call'[d].pc = "find" /\ call'[d].id = store[t]
           /\ inbox[t] # NoMail \/ (store[t] # 0 /\ account[store[t]] # NoRow) => inbox'[t] = inbox[t]

\* ... a confirmation goes on, or is given up, or the account is not waiting for it; ...
ConfirmationEffect ==
    \A d \in Calls : call[d].pc \in {"find", "activate"} =>
        \/ call'[d].pc \in {"find", "activate"} /\ call'[d].id = call[d].id
        \/ call[d].id \in spent'
        \/ account[call[d].id] # NoRow /\ account'[call[d].id].status # "applying"

\* ... and a registration sends what it has stored.
RegistrationEffect ==
    \A c \in Calls : call'[c].pc \in {"send", "commit"} =>
        \/ /\ call[c].pc \in {"send", "commit"} /\ (call'[c].pc = "send" => call[c].pc = "send")
           /\ call'[c].id = call[c].id /\ call'[c].n = call[c].n
        \/ store'[call'[c].n] = call'[c].id
LifeStep == TokenEffect /\ ConfirmationEffect /\ RegistrationEffect

\* Every step uses up tokens and ends registrations as LifeStep says.
LEMMA LifeSteps ==
    ASSUME IInv, (AccountsNext /\ UNCHANGED profileVars) \/ ProfilesNext
    PROVE  LifeStep
<1> USE DEF tables, history
<1>0. TypeOK /\ CallsOK /\ Registrations /\ Tokens /\ Verifications /\ Held
  BY DEF IInv, AccountInv
\* A step that leaves the tokens, the confirmations and the registrations alone.
<1> DEFINE Plain == /\ store' = store /\ spent' = spent /\ inbox' = inbox
                    /\ \A d \in Calls : /\ call[d].pc \in {"find", "activate"} => call'[d] = call[d]
                                        /\ call'[d].pc \in {"send", "commit"} => call'[d] = call[d]
<1>1. ASSUME Plain
      PROVE  LifeStep
  BY <1>1 DEF LifeStep, TokenEffect, ConfirmationEffect, RegistrationEffect
<1> HIDE DEF Plain
<1>2. ASSUME NEW c \in Calls, (\E a \in Addresses : RegisterCreate(c, a)) \/ RegisterCommit(c) \/ Rollback(c)
      PROVE  Plain
  <2>1. /\ Only(c) /\ call[c].pc \notin {"find", "activate"} /\ call'[c].pc \notin {"send", "commit"}
    <3>1. ASSUME NEW a \in Addresses, RegisterCreate(c, a)
          PROVE  Only(c) /\ call[c].pc = "idle" /\ call'[c].pc = "store"
      BY <1>0, <3>1, RegisterMoves DEF Moved
    <3>2. ASSUME RegisterCommit(c) \/ Rollback(c)
          PROVE  Only(c) /\ call[c].pc \notin {"find", "activate"} /\ call'[c].pc = "idle"
      BY <1>0, <3>2, RegisterMoves DEF Moved, Rollback, Registering
    <3> QED BY <1>2, <3>1, <3>2
  <2> QED BY <1>2, <2>1 DEF Plain, Only, RegisterCreate, RegisterCommit, Rollback
<1>3. ASSUME NEW c \in Calls, NEW t \in Serials, VerifyGet(c, t)
      PROVE  Plain
  BY <1>0, <1>3, VerifyMoves DEF Plain, Moved, Only, VerifyGet
<1>4. ASSUME NEW c \in Calls, LogsIn(c)
      PROVE  Plain
  <2>1. /\ Only(c) /\ call[c].pc \notin {"find", "activate"} /\ call'[c].pc \notin {"send", "commit"}
    BY <1>0, <1>4, LoginMoves DEF LogsIn, Moved
  <2> QED BY <1>4, <2>1 DEF Plain, Only, LogsIn, LoginFind, LoginUser, LoginCommit
<1>5. ASSUME NEW i \in Ids, Ban(i)
      PROVE  Plain
  BY <1>5 DEF Plain, Ban
<1>6. ASSUME ProfilesNext
      PROVE  Plain
  BY <1>6, ProfileTypes DEF Plain, Aside, UploadSteps, ProfileSteps
<1>7. ASSUME NEW c \in Calls, RegisterStore(c)
      PROVE  LifeStep
  <2>1. Only(c) /\ call[c].pc = "store" /\ call'[c].pc = "send" /\ Same(c) /\ Registers(c)
    BY <1>0, <1>7, RegisterMoves DEF Moved, Registers, Registering
  <2>2. store[call[c].n] = 0 /\ call[c].n \in Serials
    BY <1>0, <2>1, Numbers DEF Tokens
  <2>3. store' = [store EXCEPT ![call[c].n] = call[c].id] /\ UNCHANGED <<inbox, spent, account>>
    BY <1>7 DEF RegisterStore, Stored
  <2> QED BY <1>0, <2>1, <2>2, <2>3
    DEF LifeStep, TokenEffect, ConfirmationEffect, RegistrationEffect, Only, Same, TypeOK
<1>8. ASSUME NEW c \in Calls, RegisterSend(c) \/ RegisterSendFails(c)
      PROVE  LifeStep
  <2>1. /\ Only(c) /\ call[c].pc = "send" /\ Registers(c)
        /\ (call'[c].pc = "commit" /\ Same(c)) \/ call'[c].pc = "idle"
    BY <1>0, <1>8, RegisterMoves DEF Moved, Registers, Registering
  <2>2. /\ call[c].n \in Serials /\ inbox[call[c].n] = NoMail
        /\ store[call[c].n] # 0 => account[store[call[c].n]] = NoRow
    BY <1>0, <2>1, Numbers DEF Tokens, Registrations
  <2>3. UNCHANGED <<store, spent, account>> /\ \A t \in Serials : t # call[c].n => inbox'[t] = inbox[t]
    BY <1>0, <1>8 DEF RegisterSend, RegisterSendFails, Send, TypeOK
  <2> QED BY <2>1, <2>2, <2>3
    DEF LifeStep, TokenEffect, ConfirmationEffect, RegistrationEffect, Only, Same
<1>9. ASSUME NEW c \in Calls, VerifyDelete(c) \/ VerifyDeleteFails(c)
      PROVE  LifeStep
  <2>1. /\ Only(c) /\ call[c].pc = "delete" /\ UNCHANGED <<inbox, account>>
        /\ call'[c].pc \in {"find", "idle"}
    BY <1>0, <1>9, VerifyMoves DEF Moved, VerifyDelete, VerifyDeleteFails
  <2>2. /\ call[c].u \in Serials /\ inbox[call[c].u] # NoMail /\ store[call[c].u] \in {0, call[c].id}
    BY <1>0, <2>1, VerificationTypes DEF Verifications, Verifying
  <2>3. spent \subseteq spent' /\ \A t \in Serials : t # call[c].u => store'[t] = store[t]
    BY <1>0, <1>9, <2>2 DEF VerifyDelete, VerifyDeleteFails, Deleted, TypeOK
  <2>4. \/ store'[call[c].u] = store[call[c].u] \/ call[c].id \in spent'
        \/ call'[c].pc = "find" /\ call'[c].id = call[c].id
    BY <1>0, <1>9, VerifyMoves DEF Moved, Same, VerifyDeleteFails
  <2>5. TokenEffect
    BY <2>1, <2>2, <2>3, <2>4 DEF TokenEffect
  <2> QED BY <2>1, <2>5 DEF LifeStep, ConfirmationEffect, RegistrationEffect, Only
<1>10. ASSUME NEW c \in Calls, VerifyFind(c) \/ VerifyUpdate(c) \/ VerifyUpdateFails(c)
       PROVE  LifeStep
  <2>1. Only(c) /\ call[c].pc \in {"find", "activate"} /\ call'[c].pc \in {"activate", "idle"}
    BY <1>0, <1>10, VerifyMoves DEF Moved
  <2>2. call[c].id \in Ids /\ (call[c].pc = "activate" => account[call[c].id] # NoRow /\ call[c].old \in Row)
    BY <1>0, <2>1, VerificationTypes, HoldTypes DEF Verifying, Held, Holding
  <2>3. UNCHANGED <<store, inbox>> /\ spent \subseteq spent'
    BY <1>10 DEF VerifyFind, VerifyUpdate, VerifyUpdateFails
  <2>4. \/ call'[c].pc \in {"find", "activate"} /\ call'[c].id = call[c].id
        \/ call[c].id \in spent'
        \/ account[call[c].id] # NoRow /\ account'[call[c].id].status # "applying"
    <3>1. CASE VerifyFind(c)
      BY <1>0, <3>1, VerifyMoves DEF VerifyFind, Moved, findAccount, Applying
    <3>2. CASE VerifyUpdate(c)
      <4> DEFINE row == [call[c].old EXCEPT !.status = "active"]
      <4>1. call[c].old \in Row /\ account[call[c].id] # NoRow
        BY <1>0, <2>2, <3>2, VerifyMoves
      <4>2. account' = [account EXCEPT ![call[c].id] = row] /\ row.status = "active"
        BY <1>0, <2>2, <3>2, <4>1 DEF VerifyUpdate, AccountUpdate, TypeOK, Row
      <4> HIDE DEF row
      <4> QED BY <1>0, <2>2, <4>1, <4>2 DEF TypeOK
    <3>3. CASE VerifyUpdateFails(c)
      BY <3>3 DEF VerifyUpdateFails
    <3> QED BY <1>10, <3>1, <3>2, <3>3
  <2>5. TokenEffect
    BY <2>3 DEF TokenEffect
  <2> QED BY <2>1, <2>4, <2>5 DEF LifeStep, ConfirmationEffect, RegistrationEffect, Only
<1>11. ASSUME NEW t \in Serials, ExpireToken(t)
       PROVE  LifeStep
  BY <1>0, <1>11 DEF ExpireToken, Deleted, LifeStep, TokenEffect, ConfirmationEffect, RegistrationEffect, TypeOK
<1> QED BY <1>1, <1>2, <1>3, <1>4, <1>5, <1>6, <1>7, <1>8, <1>9, <1>10, <1>11 DEF AccountsNext, LogsIn

\* So an account can be confirmed when it is published, and as long as it waits.
LEMMA ConfirmableStep ==
    ASSUME IInv, RowStep, LifeStep
    PROVE  Confirmable' /\ RegistrationCanBeVerified'
<1>0. Registrations /\ Tokens /\ Confirmable /\ RegistrationCanBeVerified
  BY DEF IInv, AccountInv
<1>1. ASSUME NEW c \in Calls, call'[c].pc \in {"send", "commit"}
      PROVE  \/ call'[c].id \in spent' \/ store'[call'[c].n] = call'[c].id
             \/ /\ call'[c].pc = "commit"
                /\ \E d \in Calls : call'[d].pc \in {"find", "activate"} /\ call'[d].id = call'[c].id
  <2>1. CASE store'[call'[c].n] = call'[c].id
    BY <2>1
  <2>2. CASE /\ call[c].pc \in {"send", "commit"} /\ (call'[c].pc = "send" => call[c].pc = "send")
             /\ call'[c].id = call[c].id /\ call'[c].n = call[c].n
    <3>1. Registers(c) /\ call[c].n \in Serials /\ call[c].id \in Ids /\ call[c].id # 0 /\ account[call[c].id] = NoRow
      BY <1>0, <2>2, Numbers DEF Registers, Registering, Registrations
    <3>2. CASE store[call[c].n] = call[c].id
      BY <1>0, <1>1, <2>2, <3>1, <3>2 DEF LifeStep, TokenEffect, Tokens
    <3>3. CASE call[c].id \in spent
      BY <2>2, <3>3 DEF LifeStep, TokenEffect
    <3>4. ASSUME call[c].pc = "commit", NEW d \in Calls, call[d].pc \in {"find", "activate"}, call[d].id = call[c].id
          PROVE  \/ call'[c].id \in spent'
                 \/ call'[d].pc \in {"find", "activate"} /\ call'[d].id = call'[c].id
      BY <2>2, <3>1, <3>4 DEF LifeStep, ConfirmationEffect
    <3> QED BY <1>0, <1>1, <2>2, <3>2, <3>3, <3>4 DEF Confirmable
  <2> QED BY <1>1, <2>1, <2>2 DEF LifeStep, RegistrationEffect
<1>2. Confirmable'
  BY <1>1 DEF Confirmable
<1>3. ASSUME NEW i \in Ids, account'[i] # NoRow, account'[i].status = "applying"
      PROVE  \/ i \in spent'
             \/ \E t \in Serials : store'[t] = i /\ inbox'[t] = account'[i].mail
             \/ \E c \in Calls : call'[c].pc \in {"find", "activate"} /\ call'[c].id = i
  <2>0. i # 0
    BY Numbers
  \* What helps before the step helps after it.
  <2>1. ASSUME NEW d \in Calls, call[d].pc \in {"find", "activate"}, call[d].id = i
        PROVE  i \in spent' \/ (call'[d].pc \in {"find", "activate"} /\ call'[d].id = i)
    BY <1>3, <2>1 DEF LifeStep, ConfirmationEffect
  <2>2. ASSUME NEW t \in Serials, store[t] = i, inbox[t] # NoMail \/ account[i] # NoRow
        PROVE  \/ i \in spent' \/ (store'[t] = i /\ inbox'[t] = inbox[t])
               \/ \E d \in Calls : call'[d].pc \in {"find", "activate"} /\ call'[d].id = i
    BY <2>0, <2>2 DEF LifeStep, TokenEffect
  <2>3. i \in spent => i \in spent'
    BY DEF LifeStep, TokenEffect
  <2>4. CASE account'[i] = account[i]
    BY <1>0, <1>3, <2>1, <2>2, <2>3, <2>4 DEF RegistrationCanBeVerified
  <2>5. ASSUME NEW c \in Calls, call[c].pc = "commit", call[c].id = i, call[c].mail = account'[i].mail
        PROVE  \/ i \in spent'
               \/ \E t \in Serials : store'[t] = i /\ inbox'[t] = account'[i].mail
               \/ \E d \in Calls : call'[d].pc \in {"find", "activate"} /\ call'[d].id = i
    <3>1. call[c].n \in Serials /\ inbox[call[c].n] = call[c].mail /\ call[c].mail # NoMail
      BY <1>0, <2>5, Numbers DEF Registers, Registering, Tokens
    <3> QED BY <1>0, <2>1, <2>2, <2>3, <2>5, <3>1 DEF Confirmable
  <2> QED BY <1>3, <2>4, <2>5 DEF RowStep, RowEffect
<1>4. RegistrationCanBeVerified'
  BY <1>3 DEF RegistrationCanBeVerified
<1> QED BY <1>2, <1>4

-----------------------------------------------------------------------------
\* Users.  Steps that insert none, ...
NoUser == /\ owner' = owner /\ crowded' = crowded /\ nextId'.users = nextId.users
          /\ \A d \in Calls : Inserts(d)' => Inserts(d) /\ call'[d] = call[d]

\* The ids of users and of their accounts are in range.
LEMMA UserTypes ==
    ASSUME IInv
    PROVE  /\ \A c \in Calls : Inserts(c) => call[c].u \in Ids /\ call[c].id \in Ids
           /\ \A u \in Ids : owner[u] \in Ids \cup {0}
BY DEF IInv, TypeOK, CallsOK, Equipped, Inserts, Holding

\* ... keep what is said of the first users of accounts.
LEMMA NoUserStep ==
    ASSUME IInv, NoUser, RowStep
    PROVE  FirstUsers'
<1>0. FirstUsers
  BY DEF IInv, AccountInv
<1>1. \A u \in Ids : owner'[u] # 0 => u < nextId'.users /\ account'[owner'[u]] # NoRow
  BY <1>0, UserTypes DEF FirstUsers, NoUser, RowStep, RowEffect
<1>2. \A c \in Calls : Inserts(c)' => call'[c].u < nextId'.users /\ owner'[call'[c].u] = 0
  BY <1>0 DEF FirstUsers, NoUser
<1>3. \A c, d \in Calls : Inserts(c)' /\ Inserts(d)' /\ c # d => call'[c].u # call'[d].u
  BY <1>0 DEF FirstUsers, NoUser
<1>4. ASSUME NEW i \in Ids, i \notin crowded'
      PROVE  /\ \A u, v \in getUserIDs(i)' : u = v
             /\ \A c \in Calls : Inserts(c)' /\ call'[c].id = i =>
                    /\ getUserIDs(i)' = {}
                    /\ \A d \in Calls : Inserts(d)' /\ call'[d].id = i => c = d
  <2>1. getUserIDs(i)' = getUserIDs(i) /\ i \notin crowded
    BY <1>4 DEF NoUser, getUserIDs
  <2> QED BY <1>0, <2>1 DEF FirstUsers, NoUser
<1> QED BY <1>1, <1>2, <1>3, <1>4 DEF FirstUsers

\* ... and those that insert one; no row of another account changes hands.
LEMMA FirstUsersStep ==
    ASSUME IInv, RowStep, (AccountsNext /\ UNCHANGED profileVars) \/ ProfilesNext
    PROVE  FirstUsers'
<1> USE DEF tables, history
<1>0. TypeOK /\ CallsOK /\ Registrations /\ Held /\ FirstUsers
  BY DEF IInv, AccountInv
<1>1. ASSUME NEW c \in Calls, (\E a \in Addresses : RegisterCreate(c, a)) \/ RegisterStore(c) \/ RegisterSend(c)
                              \/ RegisterSendFails(c) \/ Rollback(c)
      PROVE  NoUser
  <2>1. ASSUME NEW a \in Addresses, RegisterCreate(c, a)
        PROVE  NoUser
    <3>1. Only(c) /\ call'[c].pc = "store" /\ nextId'.users = nextId.users /\ owner' = owner /\ crowded' = crowded
      BY <1>0, <2>1, RegisterMoves, Advances DEF Moved, RegisterCreate, AccountCreate
    <3> QED BY <3>1 DEF NoUser, Only, Inserts
  <2>2. ASSUME RegisterStore(c) \/ RegisterSend(c) \/ RegisterSendFails(c) \/ Rollback(c)
        PROVE  NoUser
    <3>1. Only(c) /\ call'[c].pc # "update"
      BY <1>0, <2>2, RegisterMoves DEF Moved
    <3> QED BY <2>2, <3>1 DEF NoUser, Only, Inserts, RegisterStore, RegisterSend, RegisterSendFails, Rollback
  <2> QED BY <1>1, <2>1, <2>2
<1>2. ASSUME NEW c \in Calls, Confirms(c) \/ \E t \in Serials : VerifyGet(c, t)
      PROVE  NoUser
  <2>1. Only(c) /\ call'[c].pc # "update"
    BY <1>0, <1>2, VerifyMoves DEF Confirms, Moved
  <2> QED BY <1>2, <2>1 DEF NoUser, Only, Inserts, Confirms, VerifyGet, VerifyDelete, VerifyDeleteFails, VerifyFind,
                            VerifyUpdate, VerifyUpdateFails
<1>3. ASSUME NEW c \in Calls, \E i \in Ids : LoginFind(c, i)
      PROVE  NoUser
  <2>1. Only(c) /\ call'[c].pc # "update"
    BY <1>0, <1>3, LoginMoves DEF Moved
  <2> QED BY <1>3, <2>1 DEF NoUser, Only, Inserts, LoginFind
<1>4. ASSUME (\E t \in Serials : ExpireToken(t)) \/ (\E i \in Ids : Ban(i))
      PROVE  NoUser
  BY <1>4 DEF ExpireToken, Ban, NoUser, Inserts
<1>5. ASSUME ProfilesNext
      PROVE  NoUser
  BY <1>5, ProfileTypes DEF NoUser, Inserts, Aside, UploadSteps, ProfileSteps
<1>6. ASSUME NEW c \in Calls, RegisterCommit(c)
      PROVE  FirstUsers'
  <2>1. /\ Only(c) /\ call[c].pc = "commit" /\ call'[c].pc = "idle" /\ call[c].id \in Ids /\ account[call[c].id] = NoRow
    BY <1>0, <1>6, RegisterMoves, Numbers DEF Moved, Registers, Registering, Registrations
  <2>2. /\ nextId.users \in Ids /\ nextId'.users = nextId.users + 1 /\ crowded' = crowded
        /\ owner' = [owner EXCEPT ![nextId.users] = call[c].id] /\ account'[call[c].id] # NoRow
    <3>1. account' = [account EXCEPT ![call[c].id] = [mail |-> call[c].mail, status |-> "applying"]]
      BY <1>6 DEF RegisterCommit
    <3>2. [mail |-> call[c].mail, status |-> "applying"] # NoRow
      BY <2>1, Numbers, AccountsAssumption DEF Registers, Registering
    <3> QED BY <1>0, <1>6, <2>1, <3>1, <3>2, Advances DEF RegisterCommit, UserCreated, TypeOK
  <2>3. /\ owner[nextId.users] = 0 /\ getUserIDs(call[c].id) = {}
        /\ \A d \in Calls : Inserts(d)' => Inserts(d) /\ call'[d] = call[d] /\ call[d].id # call[c].id
    BY <1>0, <2>1, <2>2, Numbers, UserTypes DEF FirstUsers, getUserIDs, Held, Holding, Inserts, Only
  <2>4. \A u \in Ids : owner'[u] = IF u = nextId.users THEN call[c].id ELSE owner[u]
    BY <1>0, <2>2 DEF TypeOK
  <2>5. \A u \in Ids : owner'[u] # 0 => u < nextId'.users /\ account'[owner'[u]] # NoRow
    BY <1>0, <2>2, <2>4, Numbers, UserTypes DEF FirstUsers, RowStep, RowEffect
  <2>6. \A d \in Calls : Inserts(d)' => call'[d].u < nextId'.users /\ owner'[call'[d].u] = 0
    BY <1>0, <2>2, <2>3, <2>4, Numbers, UserTypes DEF FirstUsers
  <2>7. \A e, d \in Calls : Inserts(e)' /\ Inserts(d)' /\ e # d => call'[e].u # call'[d].u
    BY <1>0, <2>3 DEF FirstUsers
  <2>8. ASSUME NEW i \in Ids, i \notin crowded'
        PROVE  /\ \A u, v \in getUserIDs(i)' : u = v
               /\ \A e \in Calls : Inserts(e)' /\ call'[e].id = i =>
                      /\ getUserIDs(i)' = {}
                      /\ \A d \in Calls : Inserts(d)' /\ call'[d].id = i => e = d
    <3>1. CASE i = call[c].id
      BY <2>3, <2>4, <3>1 DEF getUserIDs
    <3>2. CASE i # call[c].id
      <4>1. getUserIDs(i)' = getUserIDs(i)
        BY <2>3, <2>4, <3>2, Numbers DEF getUserIDs
      <4> QED BY <1>0, <2>2, <2>3, <2>8, <4>1 DEF FirstUsers
    <3> QED BY <3>1, <3>2
  <2> QED BY <2>5, <2>6, <2>7, <2>8 DEF FirstUsers
<1>7. ASSUME NEW c \in Calls, LoginUser(c)
      PROVE  FirstUsers'
  <2>1. /\ Only(c) /\ call[c].pc = "login" /\ call[c].id \in Ids /\ owner' = owner
        /\ call'[c].pc = "idle" \/ (call'[c].pc = "update" /\ call'[c].id = call[c].id)
    BY <1>0, <1>7, LoginMoves, HoldTypes DEF Moved, LoginUser, Holding
  <2>2. CASE nextId' = nextId /\ crowded' = crowded /\ (call'[c].pc = "update" => call'[c].u = 0)
    <3>1. NoUser
      BY <2>1, <2>2 DEF NoUser, Inserts, Only
    <3> QED BY <3>1, NoUserStep
  <2>3. CASE /\ nextId.users \in Ids /\ nextId' = Advance("users") /\ getUserIDs(call[c].id) = {}
             /\ crowded' = IF Inserting(call[c].id) THEN crowded \cup {call[c].id} ELSE crowded
             /\ call'[c].pc = "update" /\ call'[c].u = nextId.users
    <3>1. nextId'.users = nextId.users + 1 /\ crowded \subseteq crowded'
      BY <1>0, <2>3, Advances
    <3>2. \A d \in Calls : Inserts(d)' => d = c \/ (Inserts(d) /\ call'[d] = call[d])
      BY <2>1 DEF Only, Inserts
    <3>3. \A u \in Ids : owner'[u] # 0 => u < nextId'.users /\ account'[owner'[u]] # NoRow
      BY <1>0, <2>1, <3>1, Numbers, UserTypes DEF FirstUsers, RowStep, RowEffect
    <3>4. \A d \in Calls : Inserts(d)' => call'[d].u < nextId'.users /\ owner'[call'[d].u] = 0
      BY <1>0, <2>1, <2>3, <3>1, <3>2, Numbers, UserTypes DEF FirstUsers
    <3>5. \A e, d \in Calls : Inserts(e)' /\ Inserts(d)' /\ e # d => call'[e].u # call'[d].u
      BY <1>0, <2>3, <3>2, Numbers, UserTypes DEF FirstUsers
    <3>6. ASSUME NEW i \in Ids, i \notin crowded'
          PROVE  /\ \A u, v \in getUserIDs(i)' : u = v
                 /\ \A e \in Calls : Inserts(e)' /\ call'[e].id = i =>
                        /\ getUserIDs(i)' = {}
                        /\ \A d \in Calls : Inserts(d)' /\ call'[d].id = i => e = d
      <4>1. getUserIDs(i)' = getUserIDs(i) /\ i \notin crowded
        BY <2>1, <3>1, <3>6 DEF getUserIDs
      <4>2. CASE i = call[c].id
        <5>1. ~Inserting(i)
          BY <2>3, <3>6, <4>2
        <5>2. \A d \in Calls : ~(Inserts(d) /\ call[d].id = i)
          BY <5>1 DEF Inserting, Inserts
        <5> QED BY <2>3, <3>2, <4>1, <4>2, <5>2
      <4>3. CASE i # call[c].id
        <5>1. \A e \in Calls : Inserts(e)' /\ call'[e].id = i => Inserts(e) /\ call[e].id = i
          BY <2>1, <2>3, <3>2, <4>3
        <5> QED BY <1>0, <4>1, <5>1 DEF FirstUsers
      <4> QED BY <4>2, <4>3
    <3> QED BY <3>3, <3>4, <3>5, <3>6 DEF FirstUsers
  <2> QED BY <1>0, <1>7, <2>2, <2>3, LoginMoves
<1>8. ASSUME NEW c \in Calls, LoginCommit(c)
      PROVE  FirstUsers'
  <2>1. /\ Only(c) /\ call[c].pc = "update" /\ call'[c].pc = "idle" /\ call[c].id \in Ids
        /\ nextId' = nextId /\ crowded' = crowded
    BY <1>0, <1>8, LoginMoves, HoldTypes DEF Moved, LoginCommit, Holding
  <2>2. \A d \in Calls : Inserts(d)' => d # c /\ Inserts(d) /\ call'[d] = call[d]
    BY <2>1 DEF Only, Inserts
  <2>3. CASE call[c].u = 0
    <3>1. NoUser
      BY <1>8, <2>1, <2>2, <2>3 DEF LoginCommit, NoUser
    <3> QED BY <3>1, NoUserStep
  <2>4. CASE call[c].u # 0
    <3>1. Inserts(c) /\ call[c].u \in Ids
      BY <2>1, <2>4, UserTypes DEF Inserts
    <3>2. \A u \in Ids : owner'[u] = IF u = call[c].u THEN call[c].id ELSE owner[u]
      BY <1>0, <1>8, <2>4, <3>1 DEF LoginCommit, UserCreated, TypeOK
    <3>3. owner[call[c].u] = 0 /\ call[c].u < nextId.users /\ account'[call[c].id] # NoRow
      BY <1>0, <2>1, <3>1 DEF FirstUsers, Held, Holding, RowStep, RowEffect
    <3>4. \A u \in Ids : owner'[u] # 0 => u < nextId'.users /\ account'[owner'[u]] # NoRow
      BY <1>0, <2>1, <3>2, <3>3, UserTypes DEF FirstUsers, RowStep, RowEffect
    <3>5. \A d \in Calls : Inserts(d)' => call'[d].u < nextId'.users /\ owner'[call'[d].u] = 0
      BY <1>0, <2>1, <2>2, <3>1, <3>2, UserTypes DEF FirstUsers
    <3>6. \A e, d \in Calls : Inserts(e)' /\ Inserts(d)' /\ e # d => call'[e].u # call'[d].u
      BY <1>0, <2>2 DEF FirstUsers
    <3>7. ASSUME NEW i \in Ids, i \notin crowded'
          PROVE  /\ \A u, v \in getUserIDs(i)' : u = v
                 /\ \A e \in Calls : Inserts(e)' /\ call'[e].id = i =>
                        /\ getUserIDs(i)' = {}
                        /\ \A d \in Calls : Inserts(d)' /\ call'[d].id = i => e = d
      <4>1. CASE i = call[c].id
        <5>1. /\ getUserIDs(i) = {}
              /\ \A d \in Calls : Inserts(d) /\ call[d].id = i => c = d
          BY <1>0, <2>1, <3>1, <3>7, <4>1 DEF FirstUsers
        <5> QED BY <2>2, <3>2, <4>1, <5>1 DEF getUserIDs
      <4>2. CASE i # call[c].id
        <5>1. getUserIDs(i)' = getUserIDs(i)
          BY <3>2, <3>3, <4>2, Numbers DEF getUserIDs
        <5> QED BY <1>0, <2>1, <2>2, <3>7, <5>1 DEF FirstUsers
      <4> QED BY <4>1, <4>2
    <3> QED BY <3>4, <3>5, <3>6, <3>7 DEF FirstUsers
  <2> QED BY <2>3, <2>4
<1> QED BY <1>1, <1>2, <1>3, <1>4, <1>5, <1>6, <1>7, <1>8, NoUserStep DEF AccountsNext, Confirms

-----------------------------------------------------------------------------
\* Roles.  The requests of the accounts leave those of the profiles alone, and
\* write only the row of a user that was not there.
LEMMA AccountsAside ==
    ASSUME IInv, AccountsNext, UNCHANGED profileVars
    PROVE  /\ \A d \in Calls : call'[d] = call[d] \/ (~Profiling(d) /\ ~Profiling(d)')
           /\ \A u \in Ids : \/ owner'[u] = owner[u] /\ roles'[u] = roles[u]
                             \/ owner[u] = 0 /\ owner'[u] # 0 /\ roles'[u] = {"user"}
<1> USE DEF tables, history
<1>0. TypeOK /\ CallsOK /\ FirstUsers /\ Ids \subseteq Nat /\ 0 \notin Ids
  BY Numbers DEF IInv, AccountInv
<1> DEFINE CallsAside == \A d \in Calls : call'[d] = call[d] \/ (~Profiling(d) /\ ~Profiling(d)')
           UsersAside == \A u \in Ids : \/ owner'[u] = owner[u] /\ roles'[u] = roles[u]
                                        \/ owner[u] = 0 /\ owner'[u] # 0 /\ roles'[u] = {"user"}
<1>1. ASSUME NEW c \in Calls, NEW a \in Addresses, RegisterCreate(c, a)
      PROVE  CallsAside /\ UsersAside
  <2>1. Only(c) /\ call[c].pc = "idle" /\ call'[c].pc = "store"
    BY <1>0, <1>1, RegisterMoves DEF Moved
  <2> QED BY <1>1, <2>1 DEF Only, Profiling, UploadSteps, ProfileSteps, RegisterCreate
<1>2. ASSUME NEW c \in Calls, RegisterStore(c) \/ RegisterSend(c) \/ RegisterSendFails(c) \/ Rollback(c)
      PROVE  CallsAside /\ UsersAside
  <2>1. Only(c) /\ ~Profiling(c)
    BY <1>0, <1>2, RegisterMoves
    DEF Moved, Profiling, UploadSteps, ProfileSteps, Registering, RegisterStore, RegisterSend, RegisterSendFails, Rollback
  <2>2. ~Profiling(c)'
    BY <1>0, <1>2, RegisterMoves DEF Moved, Profiling, UploadSteps, ProfileSteps
  <2> QED BY <1>2, <2>1, <2>2 DEF Only, Profiling, RegisterStore, RegisterSend, RegisterSendFails, Rollback
<1>3. ASSUME NEW c \in Calls, RegisterCommit(c)
      PROVE  CallsAside /\ UsersAside
  <2>1. Only(c) /\ ~Profiling(c) /\ ~Profiling(c)' /\ call[c].id \in Ids
    BY <1>0, <1>3, RegisterMoves, Numbers DEF Moved, Profiling, UploadSteps, ProfileSteps, Registers, Registering
  <2>2. /\ nextId.users \in Ids /\ owner' = [owner EXCEPT ![nextId.users] = call[c].id]
        /\ roles' = [roles EXCEPT ![nextId.users] = {"user"}]
    BY <1>3 DEF RegisterCommit, UserCreated
  <2>3. owner[nextId.users] = 0
    BY <1>0, <2>2, Numbers DEF FirstUsers
  <2>4. UsersAside
    BY <1>0, <2>1, <2>2, <2>3 DEF TypeOK
  <2> QED BY <2>1, <2>4 DEF Only, Profiling
<1>4. ASSUME NEW c \in Calls, Confirms(c) \/ \E t \in Serials : VerifyGet(c, t)
      PROVE  CallsAside /\ UsersAside
  <2>1. Only(c) /\ ~Profiling(c) /\ ~Profiling(c)'
    BY <1>0, <1>4, VerifyMoves DEF Confirms, Moved, Profiling, UploadSteps, ProfileSteps
  <2> QED BY <1>4, <2>1 DEF Only, Profiling, Confirms, VerifyGet, VerifyDelete, VerifyDeleteFails, VerifyFind,
                            VerifyUpdate, VerifyUpdateFails
<1>5. ASSUME NEW c \in Calls, (\E i \in Ids : LoginFind(c, i)) \/ LoginUser(c)
      PROVE  CallsAside /\ UsersAside
  <2>1. Only(c) /\ ~Profiling(c) /\ ~Profiling(c)'
    BY <1>0, <1>5, LoginMoves DEF Moved, Profiling, UploadSteps, ProfileSteps
  <2> QED BY <1>5, <2>1 DEF Only, Profiling, LoginFind, LoginUser
<1>6. ASSUME NEW c \in Calls, LoginCommit(c)
      PROVE  CallsAside /\ UsersAside
  <2>1. Only(c) /\ ~Profiling(c) /\ ~Profiling(c)' /\ call[c].pc = "update" /\ call[c].id \in Ids
    BY <1>0, <1>6, LoginMoves, HoldTypes DEF Moved, Profiling, UploadSteps, ProfileSteps, Holding
  <2>2. UsersAside
    <3>1. CASE call[c].u = 0
      BY <1>6, <3>1 DEF LoginCommit
    <3>2. CASE call[c].u # 0
      <4>1. call[c].u \in Ids /\ owner[call[c].u] = 0
        BY <1>0, <2>1, <3>2, UserTypes DEF FirstUsers, Inserts
      <4>2. /\ owner' = [owner EXCEPT ![call[c].u] = call[c].id]
            /\ roles' = [roles EXCEPT ![call[c].u] = {"user"}]
        BY <1>6, <3>2 DEF LoginCommit, UserCreated
      <4> QED BY <1>0, <2>1, <4>1, <4>2 DEF TypeOK
    <3> QED BY <3>1, <3>2
  <2> QED BY <2>1, <2>2 DEF Only, Profiling
<1>7. ASSUME (\E t \in Serials : ExpireToken(t)) \/ (\E i \in Ids : Ban(i))
      PROVE  CallsAside /\ UsersAside
  BY <1>7 DEF ExpireToken, Ban
<1> QED BY <1>1, <1>2, <1>3, <1>4, <1>5, <1>6, <1>7 DEF AccountsNext, Confirms

\* A request about a profile is about a user, with the codes it has to do.
LEMMA ProfilingTypes ==
    ASSUME IInv
    PROVE  \A c \in Calls : /\ Profiling(c) => call[c].u \in Ids
                            /\ call[c].pc \in RoleSteps => Profiling(c)
                            /\ call[c].pc \in UploadSteps => call[c].new \in Images
BY DEF IInv, CallsOK, Equipped, Profiling, RoleSteps, ProfileSteps, UploadSteps

\* Steps that are not about roles, unless one fails, ...
NoRoles == /\ roles' = roles /\ asked' = asked /\ owner' = owner /\ mixed \subseteq mixed'
           /\ \A d \in Calls : /\ call'[d].pc \in RoleSteps => call'[d] = call[d]
                               /\ call[d].pc \in RoleSteps => call'[d] = call[d] \/ call[d].u \in mixed'
                               /\ Profiling(d)' => \/ Profiling(d) /\ call'[d].u = call[d].u
                                                   \/ owner[call'[d].u] # 0

\* ... keep what is said of roles.
LEMMA NoRolesStep ==
    ASSUME IInv, NoRoles
    PROVE  RolesInHand' /\ RolesOfOneUpdate'
<1>0. RolesInHand /\ RolesOfOneUpdate
  BY DEF IInv
<1>1. RolesInHand'
  <2>1. \A u \in Ids : owner'[u] = 0 => asked'[u] = {"user"}
    BY <1>0 DEF RolesInHand, NoRoles
  <2>2. \A c \in Calls : call'[c].pc \in UploadSteps \cup ProfileSteps => owner'[call'[c].u] # 0
    BY <1>0 DEF RolesInHand, NoRoles, Profiling
  <2>3. \A c, d \in Calls : call'[c].pc \in RoleSteps /\ call'[d].pc \in RoleSteps /\ call'[c].u = call'[d].u
                            /\ call'[c].u \notin mixed' => c = d
    BY <1>0 DEF RolesInHand, NoRoles
  <2>4. \A c \in Calls : call'[c].pc \in RoleSteps /\ call'[c].u \notin mixed' =>
           /\ asked'[call'[c].u] = call'[c].codes
           /\ call'[c].pc = "revoke" => roles'[call'[c].u] = call'[c].todo
           /\ call'[c].pc = "assign" => /\ call'[c].todo \subseteq call'[c].codes
                                        /\ roles'[call'[c].u] = call'[c].codes \ call'[c].todo
    BY <1>0 DEF RolesInHand, NoRoles
  <2> QED BY <2>1, <2>2, <2>3, <2>4 DEF RolesInHand
<1>2. RolesOfOneUpdate'
  BY <1>0 DEF RolesOfOneUpdate, NoRoles, RoleSteps
<1> QED BY <1>1, <1>2

\* ... steps of the accounts, ...
LEMMA AccountsKeepRoles ==
    ASSUME IInv, AccountsNext, UNCHANGED profileVars
    PROVE  RolesInHand' /\ RolesOfOneUpdate'
<1>0. RolesInHand /\ RolesOfOneUpdate /\ UNCHANGED <<asked, mixed>>
  BY DEF IInv, profileVars
<1>1. \A d \in Calls : Profiling(d)' => Profiling(d) /\ call'[d] = call[d]
  BY AccountsAside DEF Profiling
<1>2. \A d \in Calls : Profiling(d) => call'[d] = call[d]
  BY AccountsAside
<1>3. \A u \in Ids : \/ owner'[u] = owner[u] /\ roles'[u] = roles[u]
                     \/ owner[u] = 0 /\ owner'[u] # 0 /\ roles'[u] = {"user"}
  BY AccountsAside
<1>4. \A d \in Calls : /\ call[d].pc \in RoleSteps => Profiling(d)
                       /\ call'[d].pc \in RoleSteps => Profiling(d)'
                       /\ Profiling(d) => call[d].u \in Ids /\ owner[call[d].u] # 0
  BY <1>0, ProfilingTypes DEF RolesInHand, Profiling, RoleSteps, ProfileSteps
<1>5. \A u \in Ids : owner[u] # 0 => owner'[u] = owner[u] /\ roles'[u] = roles[u]
  BY <1>3
<1>6. RolesInHand'
  <2>1. \A u \in Ids : owner'[u] = 0 => asked'[u] = {"user"}
    BY <1>0, <1>3 DEF RolesInHand
  <2>2. \A c \in Calls : Profiling(c)' => owner'[call'[c].u] # 0
    BY <1>1, <1>4, <1>5
  <2>3. \A c, d \in Calls : call'[c].pc \in RoleSteps /\ call'[d].pc \in RoleSteps /\ call'[c].u = call'[d].u
                            /\ call'[c].u \notin mixed' => c = d
    BY <1>0, <1>1, <1>4 DEF RolesInHand
  <2>4. ASSUME NEW c \in Calls, call'[c].pc \in RoleSteps, call'[c].u \notin mixed'
        PROVE  /\ asked'[call'[c].u] = call'[c].codes
               /\ call'[c].pc = "revoke" => roles'[call'[c].u] = call'[c].todo
               /\ call'[c].pc = "assign" => /\ call'[c].todo \subseteq call'[c].codes
                                            /\ roles'[call'[c].u] = call'[c].codes \ call'[c].todo
    <3>1. call'[c] = call[c] /\ roles'[call[c].u] = roles[call[c].u]
      BY <1>1, <1>4, <1>5, <2>4
    <3> QED BY <1>0, <2>4, <3>1 DEF RolesInHand
  <2> QED BY <2>1, <2>2, <2>3, <2>4 DEF RolesInHand, Profiling
<1>7. ASSUME NEW u \in Ids
      PROVE  \/ owner'[u] = 0 \/ u \in mixed'
             \/ \E c \in Calls : call'[c].u = u /\ call'[c].pc \in {"revoke", "assign"}
             \/ roles'[u] = asked'[u]
  <2>1. CASE owner[u] = 0
    BY <1>0, <1>3, <2>1 DEF RolesInHand
  <2>2. CASE owner[u] # 0
    BY <1>0, <1>2, <1>4, <1>5, <2>2 DEF RolesOfOneUpdate, RoleSteps
  <2> QED BY <2>1, <2>2
<1> QED BY <1>6, <1>7 DEF RolesOfOneUpdate

\* ... the start of a role update, which finds the user's only one or is mixed, ...
LEMMA ProfileRolesStep ==
    ASSUME IInv, NEW c \in Calls, ProfileRoles(c)
    PROVE  RolesInHand' /\ RolesOfOneUpdate'
<1>0. TypeOK /\ CallsOK /\ RolesInHand /\ RolesOfOneUpdate
  BY DEF IInv
<1> DEFINE u == call[c].u
<1>1. /\ Only(c) /\ call[c].pc = "roles" /\ call'[c].pc = "revoke" /\ call'[c].u = call[c].u
      /\ call'[c].codes = call[c].codes /\ call'[c].todo = roles[call[c].u] /\ u \in Ids /\ Profiling(c)
  BY <1>0, ProfileMoves, ProfilingTypes DEF Moved, Same, Profiling, ProfileSteps
<1>2. /\ asked' = [asked EXCEPT ![u] = call[c].codes]
      /\ mixed' = IF Others(c, u, {"revoke", "assign"}) # {} THEN mixed \cup {u} ELSE mixed \ {u}
      /\ roles' = roles /\ owner' = owner
  BY DEF ProfileRoles, accountVars, tables
<1>3. /\ \A v \in Ids : v # u => asked'[v] = asked[v] /\ (v \in mixed' <=> v \in mixed)
      /\ asked'[u] = call[c].codes
      /\ u \notin mixed' => \A d \in Calls : d # c /\ call[d].pc \in RoleSteps => call[d].u # u
  BY <1>0, <1>1, <1>2 DEF TypeOK, Others, RoleSteps
<1>4. \A d \in Calls : d # c => call'[d] = call[d]
  BY <1>1 DEF Only
<1>5. \A d \in Calls : call[d].pc \in RoleSteps => call[d].u \in Ids
  BY ProfilingTypes
<1>6. owner[u] # 0
  BY <1>0, <1>1 DEF RolesInHand, Profiling
<1> HIDE DEF u
<1>7. RolesInHand'
  <2>1. \A v \in Ids : owner'[v] = 0 => asked'[v] = {"user"}
    BY <1>0, <1>2, <1>3, <1>6 DEF RolesInHand
  <2>2. \A d \in Calls : call'[d].pc \in UploadSteps \cup ProfileSteps => owner'[call'[d].u] # 0
    BY <1>0, <1>1, <1>2, <1>4, <1>6 DEF RolesInHand, u
  <2>3. \A d, e \in Calls : call'[d].pc \in RoleSteps /\ call'[e].pc \in RoleSteps /\ call'[d].u = call'[e].u
                            /\ call'[d].u \notin mixed' => d = e
    BY <1>0, <1>1, <1>3, <1>4, <1>5 DEF RolesInHand, u
  <2>4. \A d \in Calls : call'[d].pc \in RoleSteps /\ call'[d].u \notin mixed' =>
           /\ asked'[call'[d].u] = call'[d].codes
           /\ call'[d].pc = "revoke" => roles'[call'[d].u] = call'[d].todo
           /\ call'[d].pc = "assign" => /\ call'[d].todo \subseteq call'[d].codes
                                        /\ roles'[call'[d].u] = call'[d].codes \ call'[d].todo
    BY <1>0, <1>1, <1>2, <1>3, <1>4, <1>5 DEF RolesInHand, u
  <2> QED BY <2>1, <2>2, <2>3, <2>4 DEF RolesInHand
<1>8. ASSUME NEW v \in Ids
      PROVE  \/ owner'[v] = 0 \/ v \in mixed'
             \/ \E d \in Calls : call'[d].u = v /\ call'[d].pc \in {"revoke", "assign"}
             \/ roles'[v] = asked'[v]
  <2>1. CASE v = u
    BY <1>1, <2>1 DEF u
  <2>2. CASE v # u
    BY <1>0, <1>1, <1>2, <1>3, <1>4, <2>2 DEF RolesOfOneUpdate
  <2> QED BY <2>1, <2>2
<1> QED BY <1>7, <1>8 DEF RolesOfOneUpdate

\* ... and its statements, each of which revokes or assigns one role.
LEMMA OneRoleStep ==
    ASSUME IInv, NEW c \in Calls, ProfileRevoke(c) \/ ProfileAssign(c)
    PROVE  RolesInHand' /\ RolesOfOneUpdate'
<1>0. TypeOK /\ CallsOK /\ RolesInHand /\ RolesOfOneUpdate
  BY DEF IInv
<1> DEFINE u == call[c].u
           R == /\ call'[c].pc = "revoke" => roles'[u] = call'[c].todo
                /\ call'[c].pc = "assign" => /\ call'[c].todo \subseteq call[c].codes
                                             /\ roles'[u] = call[c].codes \ call'[c].todo
                /\ call'[c].pc \notin RoleSteps => roles'[u] = call[c].codes
<1>1. /\ call[c].pc \in RoleSteps /\ u \in Ids /\ Profiling(c)
      /\ u \notin mixed => /\ asked[u] = call[c].codes
                           /\ call[c].pc = "revoke" => roles[u] = call[c].todo
                           /\ call[c].pc = "assign" => /\ call[c].todo \subseteq call[c].codes
                                                       /\ roles[u] = call[c].codes \ call[c].todo
  BY <1>0, ProfilingTypes DEF ProfileRevoke, ProfileAssign, RoleSteps, RolesInHand
<1>2. /\ Only(c) /\ UNCHANGED <<asked, mixed, owner>>
      /\ call'[c].pc = "idle" \/ (call'[c].pc \in RoleSteps /\ call'[c].u = u /\ call'[c].codes = call[c].codes)
      /\ \A v \in Ids : v # u => roles'[v] = roles[v]
      /\ u \notin mixed => R
  <2>1. CASE ProfileRevoke(c)
    <3>1. call[c].pc = "revoke" /\ Same(c) /\ UNCHANGED <<asked, mixed, owner>>
      BY <1>0, <2>1, ProfileMoves DEF ProfileRevoke, profileVars
    <3>2. CASE /\ call[c].todo = {} /\ Moved(c, "assign") /\ call'[c].todo = call[c].codes /\ roles' = roles
      BY <1>1, <3>1, <3>2 DEF Moved, Same, RoleSteps
    <3>3. ASSUME NEW code \in call[c].todo, Moved(c, "revoke"), call'[c].todo = call[c].todo \ {code},
                 roles' = [roles EXCEPT ![call[c].u] = @ \ {code}]
          PROVE  /\ Only(c) /\ call'[c].pc = "revoke" /\ call'[c].u = u /\ call'[c].codes = call[c].codes
                 /\ \A v \in Ids : v # u => roles'[v] = roles[v]
                 /\ u \notin mixed => R
      <4>1. roles'[u] = roles[u] \ {code} /\ \A v \in Ids : v # u => roles'[v] = roles[v]
        BY <1>0, <1>1, <3>3 DEF TypeOK
      <4>2. Only(c) /\ call'[c].pc = "revoke" /\ call'[c].u = u /\ call'[c].codes = call[c].codes
        BY <3>1, <3>3 DEF Moved, Same
      <4> QED BY <1>1, <3>1, <3>3, <4>1, <4>2 DEF RoleSteps
    <3>4. \/ call[c].todo = {} /\ Moved(c, "assign") /\ call'[c].todo = call[c].codes /\ roles' = roles
          \/ \E code \in call[c].todo :
                /\ Moved(c, "revoke") /\ call'[c].todo = call[c].todo \ {code}
                /\ roles' = [roles EXCEPT ![call[c].u] = @ \ {code}]
      BY <1>0, <2>1, ProfileMoves
    <3>5. CASE \E code \in call[c].todo :
                  /\ Moved(c, "revoke") /\ call'[c].todo = call[c].todo \ {code}
                  /\ roles' = [roles EXCEPT ![call[c].u] = @ \ {code}]
      <4>1. /\ Only(c) /\ call'[c].pc = "revoke" /\ call'[c].u = u /\ call'[c].codes = call[c].codes
            /\ \A v \in Ids : v # u => roles'[v] = roles[v]
            /\ u \notin mixed => R
        <5> HIDE DEF R, u
        <5> QED BY <3>3, <3>5
      <4> HIDE DEF R
      <4> QED BY <3>1, <4>1 DEF RoleSteps
    <3> QED BY <3>2, <3>4, <3>5
  <2>2. CASE ProfileAssign(c)
    <3>1. call[c].pc = "assign" /\ UNCHANGED <<asked, mixed, owner>>
      BY <1>0, <2>2, ProfileMoves DEF ProfileAssign, profileVars
    <3>2. PICK code \in call[c].todo :
              /\ roles' = [roles EXCEPT ![call[c].u] = @ \cup {code}]
              /\ IF call[c].todo = {code} THEN Moved(c, "idle")
                 ELSE Moved(c, "assign") /\ Same(c) /\ call'[c].todo = call[c].todo \ {code}
      BY <1>0, <2>2, ProfileMoves
    <3>3. roles'[u] = roles[u] \cup {code} /\ \A v \in Ids : v # u => roles'[v] = roles[v]
      BY <1>0, <1>1, <3>2 DEF TypeOK
    <3>4. CASE call[c].todo = {code}
      BY <1>1, <3>1, <3>2, <3>3, <3>4 DEF Moved, RoleSteps
    <3>5. CASE call[c].todo # {code}
      BY <1>1, <3>1, <3>2, <3>3, <3>5 DEF Moved, Same, RoleSteps
    <3> QED BY <3>4, <3>5
  <2> QED BY <2>1, <2>2
<1>3. \A d \in Calls : d # c => call'[d] = call[d]
  BY <1>2 DEF Only
<1>4. \A d \in Calls : call[d].pc \in RoleSteps => call[d].u \in Ids
  BY ProfilingTypes
<1>5. \A d \in Calls : d # c /\ call[d].pc \in RoleSteps /\ call[d].u \notin mixed => call[d].u # u
  BY <1>0, <1>1 DEF RolesInHand
<1>6. owner[u] # 0
  BY <1>0, <1>1 DEF RolesInHand, Profiling
<1>7. RolesInHand'
  <2>1. \A v \in Ids : owner'[v] = 0 => asked'[v] = {"user"}
    BY <1>0, <1>2 DEF RolesInHand
  <2>2. \A d \in Calls : call'[d].pc \in UploadSteps \cup ProfileSteps => owner'[call'[d].u] # 0
    BY <1>0, <1>2, <1>3, <1>6 DEF RolesInHand, UploadSteps, ProfileSteps
  <2>3. \A d, e \in Calls : call'[d].pc \in RoleSteps /\ call'[e].pc \in RoleSteps /\ call'[d].u = call'[e].u
                            /\ call'[d].u \notin mixed' => d = e
    BY <1>0, <1>1, <1>2, <1>3, <1>5 DEF RolesInHand, RoleSteps
  <2>4. ASSUME NEW d \in Calls, call'[d].pc \in RoleSteps, call'[d].u \notin mixed'
        PROVE  /\ asked'[call'[d].u] = call'[d].codes
               /\ call'[d].pc = "revoke" => roles'[call'[d].u] = call'[d].todo
               /\ call'[d].pc = "assign" => /\ call'[d].todo \subseteq call'[d].codes
                                            /\ roles'[call'[d].u] = call'[d].codes \ call'[d].todo
    <3>1. CASE d = c
      BY <1>1, <1>2, <2>4, <3>1 DEF RoleSteps
    <3>2. CASE d # c
      <4>1. call'[d] = call[d] /\ call[d].u \notin mixed /\ call[d].u # u /\ call[d].u \in Ids
        BY <1>2, <1>3, <1>4, <1>5, <2>4, <3>2
      <4>2. roles'[call[d].u] = roles[call[d].u] /\ asked' = asked
        BY <1>2, <4>1
      <4> HIDE DEF u, R
      <4> QED BY <1>0, <2>4, <4>1, <4>2 DEF RolesInHand
    <3> QED BY <3>1, <3>2
  <2> QED BY <2>1, <2>2, <2>3, <2>4 DEF RolesInHand
<1>8. ASSUME NEW v \in Ids
      PROVE  \/ owner'[v] = 0 \/ v \in mixed'
             \/ \E d \in Calls : call'[d].u = v /\ call'[d].pc \in {"revoke", "assign"}
             \/ roles'[v] = asked'[v]
  <2>1. CASE v = u
    BY <1>1, <1>2, <2>1 DEF RoleSteps
  <2>2. CASE v # u
    <3>1. \A d \in Calls : call[d].u = v => call'[d] = call[d]
      BY <1>3, <2>2
    <3>2. roles'[v] = roles[v] /\ UNCHANGED <<asked, mixed, owner>>
      BY <1>2, <2>2
    <3> HIDE DEF u, R
    <3> QED BY <1>0, <3>1, <3>2 DEF RolesOfOneUpdate
  <2> QED BY <2>1, <2>2
<1> QED BY <1>7, <1>8 DEF RolesOfOneUpdate

\* Uploads, updates of a profile and both halves of a role update keep the roles
\* those of one update.
LEMMA ProfilesKeepRoles ==
    ASSUME IInv, ProfilesNext
    PROVE  RolesInHand' /\ RolesOfOneUpdate'
<1> USE DEF tables, accountVars, profileVars
<1>0. TypeOK /\ CallsOK
  BY DEF IInv
<1>1. ASSUME NEW c \in Calls, NEW u \in Ids, NEW img \in Images, UploadFind(c, u, img)
      PROVE  NoRoles
  <2>1. Only(c) /\ call[c].pc = "idle" /\ call'[c].pc = "stat" /\ call'[c].u = u /\ owner[u] # 0
    BY <1>0, <1>1, UploadMoves DEF Moved, UploadFind
  <2>2. UNCHANGED <<roles, asked, owner, mixed>>
    BY <1>1 DEF UploadFind
  <2> QED BY <2>1, <2>2 DEF NoRoles, Only, RoleSteps, Profiling
<1>2. ASSUME NEW c \in Calls, NEW u \in Ids, NEW renamed \in BOOLEAN, NEW codes \in SUBSET Codes,
             ProfileFind(c, u, renamed, codes)
      PROVE  NoRoles
  <2>1. Only(c) /\ call[c].pc = "idle" /\ call'[c].pc \in {"name", "roles"} /\ call'[c].u = u /\ owner[u] # 0
    BY <1>0, <1>2, ProfileMoves DEF Moved, ProfileFind
  <2>2. UNCHANGED <<roles, asked, owner, mixed>>
    BY <1>2 DEF ProfileFind
  <2> QED BY <2>1, <2>2 DEF NoRoles, Only, RoleSteps, Profiling
<1>3. ASSUME NEW c \in Calls, Stat(c) \/ Save(c) \/ SaveFails(c) \/ UploadExists(c) \/ UploadRow(c)
      PROVE  NoRoles
  <2>1. /\ Only(c) /\ call[c].pc \in UploadSteps /\ call'[c].pc \notin RoleSteps
        /\ call'[c].pc = "idle" \/ call'[c].u = call[c].u
    BY <1>0, <1>3, UploadMoves DEF Moved, Same, UploadSteps, RoleSteps
  <2>2. UNCHANGED <<roles, asked, owner, mixed>>
    BY <1>3 DEF Stat, Save, SaveFails, UploadExists, UploadRow
  <2> QED BY <2>1, <2>2 DEF NoRoles, Only, RoleSteps, Profiling, UploadSteps, ProfileSteps
<1>4. ASSUME NEW f \in trash, DeleteFile(f)
      PROVE  NoRoles
  BY <1>4 DEF DeleteFile, NoRoles, Profiling
<1>5. ASSUME NEW c \in Calls, ProfileName(c) \/ ProfileFails(c)
      PROVE  NoRoles
  <2>1. /\ Only(c) /\ Profiling(c) /\ call'[c].pc \notin RoleSteps
        /\ call'[c].pc = "idle" \/ call'[c].u = call[c].u
    BY <1>0, <1>5, ProfileMoves DEF Moved, Same, Profiling, ProfileSteps, RoleSteps
  <2>2. /\ UNCHANGED <<roles, asked, owner>> /\ mixed \subseteq mixed'
        /\ call[c].pc \in RoleSteps => call[c].u \in mixed'
    BY <1>5 DEF ProfileName, ProfileFails, RoleSteps
  <2> QED BY <2>1, <2>2 DEF NoRoles, Only, Profiling, UploadSteps, ProfileSteps
<1> QED BY <1>1, <1>2, <1>3, <1>4, <1>5, NoRolesStep, ProfileRolesStep, OneRoleStep DEF ProfilesNext

-----------------------------------------------------------------------------
\* Files.  What is in hand of a user whose requests did not overlap, for one request
\* of his as it is after a step, ...
InHand(c) == /\ call[c].pc \in UploadSteps \cup {"name"} => call[c].old = avatar[call[c].u]
             /\ call[c].pc = "stat" => <<call[c].u, call[c].new>> \notin trash \cup torn
             /\ call[c].pc = "write" => <<call[c].u, call[c].new>> \notin trash \cup files
             /\ call[c].pc \in {"exists", "row"} => Safe(call[c].u, call[c].new)

HasFile(u) == avatar[u] = NoRow \/ Safe(u, avatar[u])

\* ... and what a step of a request c of user u leaves to the other users.
OthersKept(u) ==
    \A v \in Ids : v # u =>
        /\ avatar'[v] = avatar[v]
        /\ \A img \in Images : /\ <<v, img>> \in files' <=> <<v, img>> \in files
                               /\ <<v, img>> \in torn' <=> <<v, img>> \in torn
                               /\ <<v, img>> \in trash' <=> <<v, img>> \in trash

\* It is enough to look at the user and the request that the step is about.
LEMMA OneUserStep ==
    ASSUME IInv, TypeOK', NEW c \in Calls, NEW u \in Ids, Only(c), OthersKept(u), clash \subseteq clash',
           Profiling(c) => call[c].u = u,
           Profiling(c)' => call'[c].u = u,
           u \notin clash' => \A d \in Calls : d # c /\ Profiling(d) => call[d].u # u,
           u \notin clash' => HasFile(u)',
           u \notin clash' /\ Profiling(c)' => InHand(c)'
    PROVE  AvatarInHand'
<1>0. AvatarInHand /\ TypeOK
  BY DEF IInv
<1>1. \A d \in Calls : d # c => call'[d] = call[d]
  BY DEF Only
<1>2. ASSUME NEW v \in Ids, v \notin clash'
      PROVE  avatar'[v] = NoRow \/ (<<v, avatar'[v]>> \in files' \ torn' /\ <<v, avatar'[v]>> \notin trash')
  <2>1. CASE v = u
    BY <1>2, <2>1 DEF Safe, HasFile
  <2>2. CASE v # u
    <3>1. avatar'[v] = avatar[v] /\ (avatar[v] = NoRow \/ Safe(v, avatar[v])) /\ avatar[v] \in Images \cup {NoRow}
      BY <1>0, <1>2, <2>2 DEF OthersKept, AvatarInHand, TypeOK
    <3> QED BY <2>2, <3>1 DEF OthersKept, Safe
  <2> QED BY <2>1, <2>2
<1>3. \A d, e \in Calls : Profiling(d)' /\ Profiling(e)' /\ call'[d].u = call'[e].u /\ call'[d].u \notin clash' => d = e
  BY <1>0, <1>1 DEF AvatarInHand, Profiling
<1>4. ASSUME NEW d \in Calls, Profiling(d)', call'[d].u \notin clash'
      PROVE  InHand(d)'
  <2>1. CASE d = c
    BY <1>4, <2>1 DEF Profiling
  <2>2. CASE d # c
    <3>1. call'[d] = call[d] /\ Profiling(d) /\ call[d].u \in Ids /\ call[d].u \notin clash
      BY <1>1, <1>4, <2>2, ProfilingTypes DEF Profiling
    <3>2. call[d].u # u
      BY <1>4, <2>2, <3>1
    <3>3. InHand(d)
      BY <1>0, <3>1 DEF AvatarInHand, InHand
    <3>4. call[d].pc \in UploadSteps => call[d].new \in Images
      BY ProfilingTypes
    <3>5. avatar'[call[d].u] = avatar[call[d].u]
      BY <3>1, <3>2 DEF OthersKept
    <3>6. ASSUME call[d].pc \in UploadSteps
          PROVE  LET f == <<call[d].u, call[d].new>> IN
                 (f \in files' <=> f \in files) /\ (f \in torn' <=> f \in torn) /\ (f \in trash' <=> f \in trash)
      BY <3>1, <3>2, <3>4, <3>6 DEF OthersKept
    <3> QED BY <3>1, <3>3, <3>5, <3>6 DEF InHand, Safe, UploadSteps
  <2> QED BY <2>1, <2>2
<1> QED BY <1>2, <1>3, <1>4 DEF AvatarInHand, InHand, Safe, Profiling

\* A step that touches no row and no file, and begins no request.
NoFiles == /\ UNCHANGED <<avatar, files, torn, trash, clash>>
           /\ \A d \in Calls : Profiling(d)' => /\ Profiling(d) /\ call'[d].u = call[d].u
                                                /\ call'[d] = call[d] \/ call'[d].pc \in {"roles", "revoke", "assign"}

\* ... keep what is said of files.
LEMMA NoFilesStep ==
    ASSUME IInv, NoFiles
    PROVE  AvatarInHand'
<1>0. AvatarInHand
  BY DEF IInv
<1>1. \A u \in Ids : u \notin clash' => HasFile(u)'
  BY <1>0 DEF AvatarInHand, NoFiles, Safe, HasFile
<1>2. \A d, e \in Calls : Profiling(d)' /\ Profiling(e)' /\ call'[d].u = call'[e].u /\ call'[d].u \notin clash' => d = e
  BY <1>0 DEF AvatarInHand, NoFiles
<1>3. \A d \in Calls : Profiling(d)' /\ call'[d].u \notin clash' => InHand(d)'
  BY <1>0 DEF AvatarInHand, NoFiles, InHand, Safe, UploadSteps
<1> QED BY <1>1, <1>2, <1>3 DEF AvatarInHand, InHand, HasFile

\* Every step keeps the file of the avatar, for users that no two requests changed
\* at a time.
LEMMA AvatarStep ==
    ASSUME IInv, TypeOK', (AccountsNext /\ UNCHANGED profileVars) \/ ProfilesNext
    PROVE  AvatarInHand'
<1> USE DEF profileVars
<1>0. TypeOK /\ CallsOK /\ AvatarInHand
  BY DEF IInv
<1>1. ASSUME AccountsNext, UNCHANGED profileVars
      PROVE  NoFiles
  <2>1. \A d \in Calls : Profiling(d)' => Profiling(d) /\ call'[d] = call[d]
    BY <1>1, AccountsAside DEF Profiling
  <2> QED BY <1>1, <2>1 DEF NoFiles
<1>2. ASSUME NEW c \in Calls, ProfileRoles(c) \/ ProfileRevoke(c) \/ ProfileAssign(c) \/ ProfileFails(c)
      PROVE  NoFiles
  <2>1. /\ Only(c) /\ Profiling(c) /\ call'[c].pc \in {"idle", "revoke", "assign"}
        /\ call'[c].pc = "idle" \/ call'[c].u = call[c].u
    BY <1>0, <1>2, ProfileMoves DEF Moved, Same, Profiling, ProfileSteps
  <2>2. UNCHANGED <<avatar, files, torn, trash, clash>>
    BY <1>2 DEF ProfileRoles, ProfileRevoke, ProfileAssign, ProfileFails
  <2> QED BY <2>1, <2>2 DEF NoFiles, Only, Profiling, UploadSteps, ProfileSteps
\* A request that begins clashes, or is the only one.
<1>3. ASSUME NEW c \in Calls, NEW u \in Ids, call[c].pc = "idle",
             clash' = Clashes(c, u) \/ clash' = clash \cup {u}
      PROVE  /\ clash \subseteq clash' /\ ~Profiling(c)
             /\ u \notin clash' => \A d \in Calls : d # c /\ Profiling(d) => call[d].u # u
  BY <1>3 DEF Clashes, Others, Profiling, UploadSteps, ProfileSteps
<1>4. ASSUME NEW c \in Calls, NEW u \in Ids, NEW img \in Images, UploadFind(c, u, img)
      PROVE  AvatarInHand'
  <2>1. /\ Only(c) /\ call[c].pc = "idle" /\ call'[c].pc = "stat" /\ call'[c].u = u
        /\ call'[c].old = avatar[u] /\ call'[c].new = img
    BY <1>0, <1>4, UploadMoves DEF Moved
  <2>2. /\ UNCHANGED <<avatar, files, torn, trash>>
        /\ clash' = IF <<u, img>> \in trash \cup torn THEN clash \cup {u} ELSE Clashes(c, u)
    BY <1>4 DEF UploadFind
  <2>3. /\ clash \subseteq clash' /\ ~Profiling(c)
        /\ u \notin clash' => \A d \in Calls : d # c /\ Profiling(d) => call[d].u # u
    BY <1>3, <2>1, <2>2
  <2>4. OthersKept(u)
    BY <2>2 DEF OthersKept
  <2>5. u \notin clash' => HasFile(u)'
    BY <1>0, <2>2, <2>3 DEF AvatarInHand, HasFile, Safe
  <2>6. u \notin clash' => InHand(c)'
    BY <2>1, <2>2 DEF InHand
  <2> QED BY <2>1, <2>3, <2>4, <2>5, <2>6, OneUserStep
<1>5. ASSUME NEW c \in Calls, NEW u \in Ids, NEW renamed \in BOOLEAN, NEW codes \in SUBSET Codes,
             ProfileFind(c, u, renamed, codes)
      PROVE  AvatarInHand'
  <2>1. /\ Only(c) /\ call[c].pc = "idle" /\ call'[c].pc \in {"name", "roles"} /\ call'[c].u = u
        /\ call'[c].old = avatar[u]
    BY <1>0, <1>5, ProfileMoves DEF Moved
  <2>2. UNCHANGED <<avatar, files, torn, trash>> /\ clash' = Clashes(c, u)
    BY <1>5 DEF ProfileFind
  <2>3. /\ clash \subseteq clash' /\ ~Profiling(c)
        /\ u \notin clash' => \A d \in Calls : d # c /\ Profiling(d) => call[d].u # u
    BY <1>3, <2>1, <2>2
  <2>4. OthersKept(u)
    BY <2>2 DEF OthersKept
  <2>5. u \notin clash' => HasFile(u)'
    BY <1>0, <2>2, <2>3 DEF AvatarInHand, HasFile, Safe
  <2>6. u \notin clash' => InHand(c)'
    BY <2>1, <2>2 DEF InHand
  <2> QED BY <2>1, <2>3, <2>4, <2>5, <2>6, OneUserStep
\* What a request under way knows, if its user's requests did not overlap.
<1>6. ASSUME NEW c \in Calls, Profiling(c)
      PROVE  /\ call[c].u \in Ids
             /\ call[c].u \notin clash =>
                    /\ InHand(c) /\ HasFile(call[c].u)
                    /\ \A d \in Calls : d # c /\ Profiling(d) => call[d].u # call[c].u
  BY <1>0, <1>6, ProfilingTypes DEF AvatarInHand, InHand, HasFile
<1>7. ASSUME NEW c \in Calls, Stat(c) \/ Save(c) \/ SaveFails(c) \/ UploadExists(c) \/ UploadRow(c) \/ ProfileName(c)
      PROVE  AvatarInHand'
  <2>0. PICK u : u = call[c].u
    OBVIOUS
  <2>9. PICK f : f = <<u, call[c].new>>
    OBVIOUS
  <2>1. /\ Only(c) /\ Profiling(c) /\ clash' = clash
        /\ call'[c].pc = "idle" \/ (call'[c].u = call[c].u /\ call'[c].new = call[c].new /\ call'[c].old = call[c].old)
    BY <1>0, <1>7, UploadMoves, ProfileMoves
    DEF Moved, Same, Profiling, UploadSteps, ProfileSteps, Stat, Save, SaveFails, UploadExists, UploadRow, ProfileName
  <2>2. /\ u \in Ids /\ u = call[c].u
        /\ u \notin clash => /\ InHand(c) /\ HasFile(u)
                             /\ \A d \in Calls : d # c /\ Profiling(d) => call[d].u # u
    BY <1>6, <2>0, <2>1
  <2>3. Profiling(c)' => call'[c].u = u
    BY <2>1, <2>2 DEF Profiling, UploadSteps, ProfileSteps
  <2>4. call[c].pc \in UploadSteps => call[c].new \in Images
    BY ProfilingTypes
  <2>5. /\ OthersKept(u)
        /\ u \notin clash => HasFile(u)'
        /\ u \notin clash /\ Profiling(c)' => InHand(c)'
    <3>1. CASE Stat(c)
      <4>1. call[c].pc = "stat" /\ UNCHANGED <<avatar, files, torn, trash>>
            /\ (IF f \in files THEN call'[c].pc = "exists" ELSE call'[c].pc = "write")
        BY <1>0, <2>2, <2>9, <3>1, UploadMoves DEF Stat, Moved
      <4> QED BY <2>1, <2>2, <2>9, <4>1 DEF OthersKept, Safe, HasFile, InHand, UploadSteps
    <3>2. CASE Save(c)
      <4>1. /\ call[c].pc = "write" /\ call'[c].pc = "row" /\ UNCHANGED <<avatar, trash>>
            /\ files' = files \cup {f} /\ torn' = torn \ {f}
        BY <1>0, <2>2, <2>9, <3>2, UploadMoves DEF Save, Moved
      <4>2. OthersKept(u)
        BY <2>9, <4>1 DEF OthersKept
      <4> QED BY <2>1, <2>2, <2>9, <4>1, <4>2 DEF Safe, HasFile, InHand, UploadSteps
    <3>3. CASE SaveFails(c)
      <4>1. /\ call[c].pc = "write" /\ call'[c].pc = "idle" /\ UNCHANGED <<avatar, trash>>
            /\ \/ files' = files /\ torn' = torn
               \/ files' = files \cup {f} /\ torn' = torn \cup {f}
        BY <1>0, <2>2, <2>9, <3>3, UploadMoves DEF SaveFails, Moved
      <4>2. OthersKept(u)
        BY <2>9, <4>1 DEF OthersKept
      <4>3. u \notin clash => HasFile(u)'
        BY <2>2, <2>9, <4>1 DEF Safe, HasFile, InHand
      <4>4. ~Profiling(c)'
        BY <4>1 DEF Profiling, UploadSteps, ProfileSteps
      <4> QED BY <2>1, <4>2, <4>3, <4>4
    <3>4. CASE UploadExists(c)
      <4>1. /\ call[c].pc = "exists" /\ call'[c].pc = "idle" /\ UNCHANGED <<files, torn, trash>>
            /\ avatar' = IF call[c].old # call[c].new THEN [avatar EXCEPT ![u] = call[c].new] ELSE avatar
        BY <1>0, <2>2, <3>4, UploadMoves DEF UploadExists, UserUpdate, Moved
      <4>2. OthersKept(u)
        BY <1>0, <2>2, <4>1 DEF OthersKept, TypeOK
      <4>3. u \notin clash => avatar'[u] = call[c].new /\ Safe(u, call[c].new)
        BY <1>0, <2>2, <4>1 DEF InHand, UploadSteps, TypeOK
      <4>4. u \notin clash => HasFile(u)'
        BY <4>1, <4>3 DEF Safe, HasFile
      <4>5. ~Profiling(c)'
        BY <4>1 DEF Profiling, UploadSteps, ProfileSteps
      <4> QED BY <2>1, <4>2, <4>4, <4>5
    <3>5. CASE UploadRow(c)
      <4>1. /\ call[c].pc = "row" /\ call'[c].pc = "idle" /\ UNCHANGED <<files, torn>>
            /\ avatar' = [avatar EXCEPT ![u] = call[c].new]
            /\ trash' = trash \/ (call[c].old # call[c].new /\ trash' = trash \cup {<<u, call[c].old>>})
        BY <1>0, <2>2, <3>5, UploadMoves DEF UploadRow, UserUpdate, Obsolete, Moved
      <4>2. OthersKept(u)
        BY <1>0, <2>2, <4>1 DEF OthersKept, TypeOK
      <4>3. avatar'[u] = call[c].new /\ (u \notin clash => Safe(u, call[c].new))
        BY <1>0, <2>2, <4>1 DEF InHand, TypeOK
      <4>4. u \notin clash => HasFile(u)'
        BY <4>1, <4>3 DEF Safe, HasFile
      <4>5. ~Profiling(c)'
        BY <4>1 DEF Profiling, UploadSteps, ProfileSteps
      <4> QED BY <2>1, <4>2, <4>4, <4>5
    <3>6. CASE ProfileName(c)
      <4>1. /\ call[c].pc = "name" /\ call'[c].pc \in {"idle", "roles"} /\ UNCHANGED <<files, torn, trash>>
            /\ avatar' = [avatar EXCEPT ![u] = call[c].old]
        BY <1>0, <2>2, <3>6, ProfileMoves DEF ProfileName, UserUpdate, Moved
      <4>2. OthersKept(u)
        BY <1>0, <2>2, <4>1 DEF OthersKept, TypeOK
      <4>3. u \notin clash => avatar'[u] = avatar[u]
        BY <1>0, <2>2, <4>1 DEF InHand, TypeOK
      <4> QED BY <2>2, <4>1, <4>2, <4>3 DEF Safe, HasFile, InHand, UploadSteps
    <3> QED BY <1>7, <3>1, <3>2, <3>3, <3>4, <3>5, <3>6
  <2> QED BY <2>1, <2>2, <2>3, <2>5, OneUserStep
<1>8. ASSUME NEW f \in trash, DeleteFile(f)
      PROVE  AvatarInHand'
  <2>1. /\ UNCHANGED <<avatar, call, clash>> /\ trash' \subseteq trash /\ files' \subseteq files /\ torn' \subseteq torn
        /\ \A g \in files : g \notin trash => g \in files'
    BY <1>8 DEF DeleteFile
  <2> QED BY <1>0, <2>1 DEF AvatarInHand, Safe, Profiling
<1> QED BY <1>1, <1>2, <1>4, <1>5, <1>7, <1>8, NoFilesStep DEF ProfilesNext

-----------------------------------------------------------------------------
\* The invariant holds at the start, ...
LEMMA InitOK == Init => IInv
<1> SUFFICES ASSUME Init PROVE IInv
  OBVIOUS
<1> USE DEF Init, InitAccounts
<1>0. MaxIds \in Nat /\ MaxIds >= 1 /\ MaxCalls \in Nat /\ "user" \in Codes /\ 1 \in Ids /\ 0 \notin Ids /\ Ids \subseteq Nat
  BY AccountsAssumption DEF Ids
<1> DEFINE root == [mail |-> NoMail, status |-> "active"]
<1>1. root \in Row /\ root # NoRow /\ root.status = "active"
  BY AccountsAssumption DEF Row
<1>2. \A i \in Ids : account[i] = IF i = 1 THEN root ELSE NoRow
  OBVIOUS
<1> HIDE DEF root
<1>3. \A c \in Calls : call[c] = Returned /\ call[c].pc = "idle"
  BY ReturnedOK
<1>4. /\ \A u \in Ids : owner[u] \in {0, 1} /\ (owner[u] = 1 => u = 1)
      /\ owner \in [Ids -> Ids \cup {0}] /\ roles \in [Ids -> SUBSET Codes]
      /\ \A u \in Ids : owner[u] = 0 => roles[u] = {}
  BY <1>0
<1>5. TypeOK
  <2>1. account \in [Ids -> Row \cup {NoRow}]
    BY <1>1 DEF root
  <2>2. nextId \in [accounts : 2 .. (MaxIds + 1), users : 2 .. (MaxIds + 1)] /\ served \in 0..MaxCalls
    BY <1>0
  <2>3. /\ asked \in [Ids -> SUBSET Codes] /\ ruling \in [Ids -> {"none", "banned", "raced"}]
        /\ avatar \in [Ids -> Images \cup {NoRow}]
    BY <1>0, <1>4
  <2> QED BY <1>4, <2>1, <2>2, <2>3 DEF TypeOK
<1>6. CallsOK
  BY ReturnedOK DEF CallsOK
<1>7. \A c \in Calls : /\ call[c].pc \notin Registering \cup Verifying \cup Holding \cup UploadSteps \cup ProfileSteps
                       /\ call[c].pc \notin RoleSteps /\ call[c].pc \notin {"send", "commit", "find", "activate", "update", "name"}
  BY <1>3 DEF Registering, Verifying, Holding, UploadSteps, ProfileSteps, RoleSteps
<1>8. nextId.accounts = 2 /\ nextId.users = 2
  OBVIOUS
<1>9. Registrations /\ Tokens /\ Verifications
  BY <1>0, <1>2, <1>7, <1>8 DEF Registrations, Tokens, Verifications, Registers
<1>10. Held /\ BanKept /\ Confirmable
  BY <1>7 DEF Held, BanKept, Confirmable
<1>11. FirstUsers
  BY <1>0, <1>1, <1>2, <1>4, <1>7, <1>8 DEF FirstUsers, Inserts, getUserIDs
<1>12. RegistrationCanBeVerified /\ StatusIsEarned
  BY <1>1, <1>2 DEF RegistrationCanBeVerified, StatusIsEarned
<1>13. RolesInHand /\ RolesOfOneUpdate
  BY <1>4, <1>7 DEF RolesInHand, RolesOfOneUpdate
<1>14. AvatarInHand
  BY <1>7 DEF AvatarInHand, Profiling
<1> QED BY <1>5, <1>6, <1>9, <1>10, <1>11, <1>12, <1>13, <1>14 DEF IInv, AccountInv

\* ... and every step keeps it.
LEMMA StepOK == IInv /\ [Next]_vars => IInv'
<1> SUFFICES ASSUME IInv, [Next]_vars PROVE IInv'
  OBVIOUS
<1>1. CASE (AccountsNext /\ UNCHANGED profileVars) \/ ProfilesNext
  <2>1. TypeOK' /\ CallsOK'
    BY <1>1, AccountTypes, ProfileTypes
  <2>2. RowStep /\ LifeStep
    BY <1>1, <2>1, RowSteps, LifeSteps
  <2>3. Held' /\ BanKept' /\ StatusIsEarned' /\ Confirmable' /\ RegistrationCanBeVerified' /\ FirstUsers'
    BY <1>1, <2>2, RowsStep, ConfirmableStep, FirstUsersStep
  <2>4. Registrations' /\ Tokens' /\ Verifications'
    <3>1. ASSUME NEW c \in Calls, Registration(c)
          PROVE  Registrations' /\ Tokens' /\ Verifications'
      BY <3>1, RegistrationsStep, RegistrationVerifications
    <3>2. ASSUME NEW c \in Calls, NEW t \in Serials, VerifyGet(c, t)
          PROVE  Registrations' /\ Tokens' /\ Verifications'
      BY <2>1, <3>2, QuietSteps, QuietRegistrations, VerifyGetStep
    <3>3. ASSUME NEW c \in Calls, Rollback(c) \/ Confirms(c) \/ LogsIn(c)
          PROVE  Registrations' /\ Tokens' /\ Verifications'
      <4>1. NoneBegins
        <5>1. TypeOK /\ CallsOK
          BY DEF IInv
        <5>2. CASE Rollback(c)
          BY <5>1, <5>2, RegisterMoves DEF Moved, Only, NoneBegins, Verifying
        <5>3. CASE Confirms(c)
          BY <5>1, <5>3, VerifyMoves DEF Moved, Only, Same, Confirms, NoneBegins, Verifying
        <5>4. CASE LogsIn(c)
          BY <5>1, <5>4, LoginMoves DEF Moved, Only, LogsIn, NoneBegins, Verifying
        <5> QED BY <3>3, <5>2, <5>3, <5>4
      <4> QED BY <2>1, <3>3, <4>1, QuietSteps, QuietRegistrations, QuietVerifications
    <3>4. ASSUME (\E t \in Serials : ExpireToken(t)) \/ (\E i \in Ids : Ban(i)) \/ ProfilesNext
          PROVE  Registrations' /\ Tokens' /\ Verifications'
      <4>1. NoneBegins
        <5>1. CASE (\E t \in Serials : ExpireToken(t)) \/ (\E i \in Ids : Ban(i))
          BY <5>1 DEF ExpireToken, Ban, NoneBegins
        <5>2. CASE ProfilesNext
          BY <5>2, ProfileTypes DEF Aside, NoneBegins, Verifying, UploadSteps, ProfileSteps
        <5> QED BY <3>4, <5>1, <5>2
      <4> QED BY <2>1, <3>4, <4>1, QuietSteps, QuietRegistrations, QuietVerifications
    <3> QED BY <1>1, <3>1, <3>2, <3>3, <3>4 DEF AccountsNext, Registration, Confirms, LogsIn
  <2>5. RolesInHand' /\ RolesOfOneUpdate' /\ AvatarInHand'
    BY <1>1, <2>1, AccountsKeepRoles, ProfilesKeepRoles, AvatarStep
  <2> QED BY <2>1, <2>3, <2>4, <2>5 DEF IInv, AccountInv
<1>2. CASE UNCHANGED vars
  <2> USE <1>2 DEF vars, accountVars, tables, history, profileVars
  <2>1. TypeOK' /\ CallsOK'
    BY DEF IInv, TypeOK, CallsOK
  <2>2. AccountInv'
    BY DEF IInv, AccountInv, Registrations, Tokens, Verifications, Held, BanKept, Confirmable, FirstUsers,
           RegistrationCanBeVerified, StatusIsEarned, Registers, HoldsRow, Inserts, getUserIDs
  <2>3. RolesInHand' /\ RolesOfOneUpdate' /\ AvatarInHand'
    BY DEF IInv, RolesInHand, RolesOfOneUpdate, AvatarInHand, Safe, Profiling
  <2> QED BY <2>1, <2>2, <2>3 DEF IInv
<1> QED BY <1>1, <1>2 DEF Next

\* What the properties below rest on: types, tokens and the rows they are for, rows
\* held during a request, users about to be inserted, roles and files in hand.
THEOREM Invariant == Spec => []IInv
<1> QED BY InitOK, StepOK, PTL DEF Spec

\* Every table, store, file and request keeps its type, the ids handed out included.
THEOREM TypeCorrect == Spec => [](TypeOK /\ CallsOK)
<1>1. IInv => TypeOK /\ CallsOK
  BY DEF IInv
<1> QED BY <1>1, Invariant, PTL

\* An account that waits for its confirmation can get it, however registrations,
\* confirmations and failures interleave, unless its token was lost (register.go
\* mails the token before it commits, verify_email.go deletes it before it writes).
THEOREM CanBeVerified == Spec => []RegistrationCanBeVerified
<1>1. IInv => RegistrationCanBeVerified
  BY DEF IInv, AccountInv
<1> QED BY <1>1, Invariant, PTL

\* Nobody is active whose address was not confirmed, and a ban holds unless a
\* request held the row when it came (AccountRepo.Update writes the whole row).
THEOREM StatusEarned == Spec => []StatusIsEarned
<1>1. IInv => StatusIsEarned
  BY DEF IInv, AccountInv
<1> QED BY <1>1, Invariant, PTL

\* At most one user for each account, crowded ones excepted: the set of an
\* account's users is empty or a singleton (limit_user_per_account).
THEOREM OneUserEach == Spec => []UserLimitKept
<1>1. IInv => UserLimitKept
  <2> SUFFICES ASSUME IInv, NEW i \in Ids, i \notin crowded
               PROVE  Cardinality(getUserIDs(i)) <= 1
    BY DEF UserLimitKept
  <2>1. \A u, v \in getUserIDs(i) : u = v
    BY DEF IInv, AccountInv, FirstUsers
  <2>2. CASE getUserIDs(i) = {}
    BY <2>2, FS_EmptySet
  <2>3. CASE getUserIDs(i) # {}
    <3>1. PICK u : getUserIDs(i) = {u}
      BY <2>1, <2>3
    <3>2. Cardinality({u}) = 1
      BY FS_Singleton
    <3> QED BY <3>1, <3>2
  <2> QED BY <2>2, <2>3
<1> QED BY <1>1, Invariant, PTL

\* The roles of a user are those of the last update, not a mixture, unless one
\* failed or overlapped another (update_profile.go revokes and assigns one by one).
THEOREM RolesOfOne == Spec => []RolesOfOneUpdate
<1>1. IInv => RolesOfOneUpdate
  BY DEF IInv
<1> QED BY <1>1, Invariant, PTL

\* The file a user's row names is there and complete, unless his requests overlapped
\* (upload_avatar.go deletes the old file in the background).
THEOREM AvatarKept == Spec => []AvatarIsKept
<1>1. IInv => AvatarIsKept
  BY DEF IInv, AvatarInHand, Safe, AvatarIsKept
<1> QED BY <1>1, Invariant, PTL
=============================================================================
