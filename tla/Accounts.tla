------------------------------ MODULE Accounts ------------------------------
(***************************************************************************)
(* Accounts (internal/application/auth with the Postgres repositories of   *)
(* accounts, users and roles, the verification store in Redis and the mail *)
(* service): registration, confirmation of the e-mail address, login.      *)
(*                                                                         *)
(* A registration is one transaction, but its token is stored in Redis and *)
(* mailed before the transaction commits; a confirmation is four steps     *)
(* without a transaction; a login writes back the whole row it has read.   *)
(* What a transaction inserts is published by its commit, and an insert of *)
(* a key that another transaction holds waits for its end.                 *)
(*                                                                         *)
(* An account row is abstracted to its e-mail address (the account name is *)
(* unique in the same way) and its status; passwords, names and the audit  *)
(* log of mails are left out.  A request that fails before its first write *)
(* changes nothing and is not an action.                                   *)
(***************************************************************************)
EXTENDS Integers, FiniteSets

CONSTANTS
    Addresses,  \* e-mail addresses that register
    Codes,      \* role codes, "user" among them
    Calls,      \* requests served at the same time
    MaxIds,     \* bound: ids of accounts and of users
    MaxCalls,   \* bound: requests served altogether
    MaxRulings, \* bound: bans by an administrator
    NoRow, NoMail

ASSUME AccountsAssumption ==
    /\ MaxIds \in Nat \ {0} /\ MaxCalls \in Nat /\ MaxRulings \in Nat
    /\ "user" \in Codes /\ NoMail \notin Addresses
    /\ NoRow \notin [mail : Addresses \cup {NoMail}, status : {"applying", "active", "banned"}]

Ids == 1 .. MaxIds
Serials == 1 .. MaxCalls   \* one for each request; a registration's token is named after it

VARIABLES
    account,   \* accounts: [mail, status], or NoRow
    owner,     \* users: the account of each user, 0 for no row
    roles,     \* users_roles
    nextId,    \* the identity sequences of accounts and users
    store,     \* Redis: the account id stored under a token, 0 for none
    inbox,     \* the address a token has been mailed to, or NoMail
    call,      \* requests in progress
    served,    \* requests started so far
    spent,     \* history: accounts whose token was lost before it could help
    confirmed, \* history: addresses whose token was presented
    ruling,    \* history: of each account, none, banned, or raced: banned while
               \* a request held the row it was going to write back
    bans,      \* history: rulings so far
    crowded    \* history: accounts whose first user two logins inserted at once

tables == <<account, owner, roles, nextId>>
history == <<spent, confirmed, ruling, bans, crowded>>
accountVars == <<tables, store, inbox, history>>

Returned == [pc |-> "idle", n |-> 0, id |-> 0, u |-> 0, mail |-> NoMail,
             old |-> NoRow, new |-> NoRow, codes |-> {}, todo |-> {}]

Start(c, rec) ==
    /\ call[c].pc = "idle" /\ served < MaxCalls
    /\ served' = served + 1
    /\ call' = [call EXCEPT ![c] = [rec EXCEPT !.n = served + 1]]
Goto(c, pc) == call' = [call EXCEPT ![c].pc = pc] /\ UNCHANGED served
Return(c) == call' = [call EXCEPT ![c] = Returned] /\ UNCHANGED served

Registering == {"store", "send", "commit"}

\* Queries of the repositories.
findAccount(id) == account[id]
getUserIDs(id) == {u \in Ids : owner[u] = id}

\* The seeded account with its user and roles, or an account that was put into
\* the table without a user, which login provides for.
InitAccounts ==
    /\ account = [i \in Ids |-> IF i = 1 THEN [mail |-> NoMail, status |-> "active"] ELSE NoRow]
    /\ \E seeded \in BOOLEAN :
        /\ owner = [u \in Ids |-> IF seeded /\ u = 1 THEN 1 ELSE 0]
        /\ roles = [u \in Ids |-> IF seeded /\ u = 1 THEN Codes ELSE {}]
    /\ nextId = [accounts |-> 2, users |-> 2]
    /\ store = [t \in Serials |-> 0]
    /\ inbox = [t \in Serials |-> NoMail]
    /\ spent = {} /\ confirmed = {}
    /\ ruling = [i \in Ids |-> "none"] /\ bans = 0 /\ crowded = {}

-----------------------------------------------------------------------------
\* Registration

\* The two unique columns: an account with the address exists, or a transaction
\* that has inserted one is still open.
Taken(a) ==
    \/ \E i \in Ids : account[i] # NoRow /\ account[i].mail = a
    \/ \E c \in Calls : call[c].pc \in Registering /\ call[c].mail = a

\* An identity column: a value is never handed out twice, also after a rollback.
Advance(seq) == [nextId EXCEPT ![seq] = @ + 1]

\* AccountRepo.Create in the transaction; the id is the sequence's next value.
AccountCreate(c, a) ==
    /\ ~Taken(a) /\ nextId.accounts \in Ids
    /\ nextId' = Advance("accounts")
    /\ Start(c, [Returned EXCEPT !.pc = "store", !.id = nextId.accounts, !.mail = a])

\* RegisterUseCase up to the token.  The user and the default role are inserted
\* too, and published with the account; the last update, of an account whose id
\* is still zero, matches no row.
RegisterCreate(c, a) ==
    /\ AccountCreate(c, a)
    /\ UNCHANGED <<account, owner, roles, store, inbox, history>>

\* VerificationStore: the account id is kept in Redis under the token.
Stored(t, id) == [store EXCEPT ![t] = id]
Deleted(t) == [store EXCEPT ![t] = 0]

\* Mutant: the error of the store is ignored.
RegisterStore_Ignored(c) ==
    /\ call[c].pc = "store"
    /\ store' \in {store, Stored(call[c].n, call[c].id)}
    /\ Goto(c, "send")
    /\ UNCHANGED <<tables, inbox, history>>

RegisterStore(c) ==
    /\ call[c].pc = "store"
    /\ store' = Stored(call[c].n, call[c].id)
    /\ Goto(c, "send")
    /\ UNCHANGED <<tables, inbox, history>>

\* EmailService.Send: the provider takes the mail, or answers with an error,
\* and then the mail may have gone out all the same.
Send(c) == inbox' = [inbox EXCEPT ![call[c].n] = call[c].mail]

RegisterSend(c) ==
    /\ call[c].pc = "send"
    /\ Send(c)
    /\ Goto(c, "commit")
    /\ UNCHANGED <<tables, store, history>>

RegisterSendFails(c) ==
    /\ call[c].pc = "send"
    /\ Send(c) \/ UNCHANGED inbox
    /\ Return(c)
    /\ UNCHANGED <<tables, store, history>>

\* NewUser: the row and the default role, published with the transaction.
UserCreated(u, id) ==
    /\ owner' = [owner EXCEPT ![u] = id]
    /\ roles' = [roles EXCEPT ![u] = {"user"}]

RegisterCommit(c) ==
    /\ call[c].pc = "commit" /\ nextId.users \in Ids
    /\ account' = [account EXCEPT ![call[c].id] = [mail |-> call[c].mail, status |-> "applying"]]
    /\ UserCreated(nextId.users, call[c].id)
    /\ nextId' = Advance("users")
    /\ Return(c)
    /\ UNCHANGED <<store, inbox, history>>

\* Any step may fail: the transaction is rolled back, the token stays.
Rollback(c) ==
    /\ call[c].pc \in Registering \cup {"login", "update"}
    /\ Return(c)
    /\ UNCHANGED <<tables, store, inbox, history>>

-----------------------------------------------------------------------------
\* Confirmation of the address

\* VerifyEmailUseCase: look the token up, ...
VerifyGet(c, t) ==
    /\ inbox[t] # NoMail /\ store[t] # 0
    /\ Start(c, [Returned EXCEPT !.pc = "delete", !.id = store[t], !.u = t])
    /\ UNCHANGED <<tables, store, inbox, history>>

\* ... delete it, or be told that the deletion failed, ...
VerifyDelete(c) ==
    /\ call[c].pc = "delete"
    /\ store' = Deleted(call[c].u)
    /\ Goto(c, "find")
    /\ UNCHANGED <<tables, inbox, history>>

VerifyDeleteFails(c) ==
    /\ call[c].pc = "delete"
    /\ \/ UNCHANGED <<store, spent>>
       \/ store' = Deleted(call[c].u) /\ spent' = spent \cup {call[c].id}
    /\ Return(c)
    /\ UNCHANGED <<tables, inbox, confirmed, ruling, bans, crowded>>

\* Mutant: the status is not checked.
Applying_Any(row) == row # NoRow

Applying(row) == row # NoRow /\ row.status = "applying"

\* ... read the row, which is not there before the registration has committed, ...
VerifyFind(c) ==
    /\ call[c].pc = "find"
    /\ LET row == findAccount(call[c].id) IN
        /\ spent' = IF row = NoRow THEN spent \cup {call[c].id} ELSE spent
        /\ IF Applying(row)
           THEN call' = [call EXCEPT ![c].pc = "activate", ![c].old = row] /\ UNCHANGED served
           ELSE Return(c)
    /\ UNCHANGED <<tables, store, inbox, confirmed, ruling, bans, crowded>>

\* AccountRepo.Update writes every column of the row as it was read.
AccountUpdate(id, row) == [account EXCEPT ![id] = IF @ = NoRow THEN @ ELSE row]

\* ... and write it back as active.
VerifyUpdate(c) ==
    /\ call[c].pc = "activate"
    /\ account' = AccountUpdate(call[c].id, [call[c].old EXCEPT !.status = "active"])
    /\ confirmed' = confirmed \cup {inbox[call[c].u]}
    /\ Return(c)
    /\ UNCHANGED <<owner, roles, nextId, store, inbox, spent, ruling, bans, crowded>>

VerifyUpdateFails(c) ==
    /\ call[c].pc = "activate"
    /\ spent' = spent \cup {call[c].id}
    /\ Return(c)
    /\ UNCHANGED <<tables, store, inbox, confirmed, ruling, bans, crowded>>

-----------------------------------------------------------------------------
\* Login

\* LoginUseCase: find the account by name or address, check its status and the
\* password, in a transaction.  A refusal ends it without a write.
castStatusError(row) == row.status # "active"

LoginFind(c, i) ==
    /\ findAccount(i) # NoRow
    /\ ~castStatusError(findAccount(i))
    /\ Start(c, [Returned EXCEPT !.pc = "login", !.id = i, !.old = findAccount(i),
                                 !.todo = getUserIDs(i)])
    /\ UNCHANGED <<tables, store, inbox, history>>

\* Mutant: the trigger is missing.
WithinLimit_Any(i) == TRUE

\* limit_user_per_account counts the rows that the statement can see.
WithinLimit(i) == getUserIDs(i) = {}

\* Another login has inserted the account's first user and not committed.
Inserting(i) == \E c \in Calls : call[c].pc = "update" /\ call[c].u # 0 /\ call[c].id = i

\* An account without a user gets one, in the same transaction.
LoginUser(c) ==
    /\ call[c].pc = "login"
    /\ IF call[c].todo # {}
       THEN Goto(c, "update") /\ UNCHANGED <<nextId, crowded>>
       ELSE IF WithinLimit(call[c].id)
       THEN /\ nextId.users \in Ids
            /\ nextId' = Advance("users")
            /\ crowded' = IF Inserting(call[c].id) THEN crowded \cup {call[c].id} ELSE crowded
            /\ call' = [call EXCEPT ![c].pc = "update", ![c].u = nextId.users]
            /\ UNCHANGED served
       ELSE Return(c) /\ UNCHANGED <<nextId, crowded>>
    /\ UNCHANGED <<account, owner, roles, store, inbox, spent, confirmed, ruling, bans>>

\* The device is bound and the session created (PreKeys, Session), the account
\* is written back as it was read, and the transaction commits.
LoginCommit(c) ==
    /\ call[c].pc = "update"
    /\ account' = AccountUpdate(call[c].id, call[c].old)
    /\ IF call[c].u = 0 THEN UNCHANGED <<owner, roles>> ELSE UserCreated(call[c].u, call[c].id)
    /\ Return(c)
    /\ UNCHANGED <<nextId, store, inbox, history>>

-----------------------------------------------------------------------------
\* The environment: the time to live of a token, and an administrator who bans
\* an account in the database.
ExpireToken(t) ==
    /\ store[t] # 0
    /\ store' = Deleted(t)
    /\ spent' = spent \cup {store[t]}
    /\ UNCHANGED <<tables, inbox, call, served, confirmed, ruling, bans, crowded>>

HoldsRow(i) == \E c \in Calls : call[c].pc \in {"activate", "login", "update"} /\ call[c].id = i

Ban(i) ==
    /\ bans < MaxRulings /\ bans' = bans + 1
    /\ account[i] # NoRow /\ account[i].status # "banned"
    /\ account' = [account EXCEPT ![i].status = "banned"]
    /\ ruling' = [ruling EXCEPT ![i] = IF HoldsRow(i) THEN "raced" ELSE "banned"]
    /\ UNCHANGED <<owner, roles, nextId, store, inbox, call, served, spent, confirmed, crowded>>

AccountsNext ==
    \/ \E c \in Calls :
        \/ \E a \in Addresses : RegisterCreate(c, a)
        \/ RegisterStore(c) \/ RegisterSend(c) \/ RegisterSendFails(c) \/ RegisterCommit(c)
        \/ Rollback(c)
        \/ \E t \in Serials : VerifyGet(c, t)
        \/ VerifyDelete(c) \/ VerifyDeleteFails(c) \/ VerifyFind(c)
        \/ VerifyUpdate(c) \/ VerifyUpdateFails(c)
        \/ \E i \in Ids : LoginFind(c, i)
        \/ LoginUser(c) \/ LoginCommit(c)
    \/ \E t \in Serials : ExpireToken(t)
    \/ \E i \in Ids : Ban(i)

-----------------------------------------------------------------------------
\* Properties

\* An account that waits for its confirmation can still get it: its token is
\* stored and was mailed to its address, or a confirmation is under way.  The
\* token is lost otherwise only by expiry, by a failing step of a confirmation,
\* or by a confirmation that came before the registration had committed
\* (register.go mails the token inside the transaction).
RegistrationCanBeVerified ==
    \A i \in Ids : account[i] # NoRow /\ account[i].status = "applying" =>
        \/ i \in spent
        \/ \E t \in Serials : store[t] = i /\ inbox[t] = account[i].mail
        \/ \E c \in Calls : call[c].pc \in {"find", "activate"} /\ call[c].id = i

\* An account that registered is active only after a token mailed to its own
\* address was presented, whatever registrations were rolled back and left their
\* tokens behind; and a banned account stays banned, unless a login or a
\* confirmation held the row during the ban and wrote its old status back
\* (AccountRepo.Update writes the whole row).
StatusIsEarned ==
    \A i \in Ids : account[i] # NoRow =>
        /\ i # 1 /\ account[i].status = "active" => account[i].mail \in confirmed
        /\ ruling[i] = "banned" => account[i].status = "banned"

\* An account has at most one user, as its limit says, also after two first
\* logins that both found none; more only if the second one inserted its user
\* while the first had not committed, which the trigger cannot see.
UserLimitKept ==
    \A i \in Ids : i \in crowded \/ Cardinality(getUserIDs(i)) <= 1
=============================================================================
