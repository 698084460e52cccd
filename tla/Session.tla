------------------------------ MODULE Session ------------------------------
(***************************************************************************)
(* Login sessions (internal/infrastructure/auth/session and its Postgres   *)
(* repository).  A session is a row of Postgres and two Redis keys:        *)
(* session:access:<hash of the access token> holds a copy of the session,  *)
(* session:id:<session id> the hash.  A token is valid as long as its      *)
(* access key exists; the row is only consulted by Refresh.  Each Redis    *)
(* command and each SQL statement is a step of its own, so a call works on *)
(* a copy it read while other calls delete or replace the keys.            *)
(*                                                                         *)
(* Tokens are named by their session and a generation number: Refresh      *)
(* issues the next generation of both tokens.                              *)
(***************************************************************************)
EXTENDS Naturals, FiniteSets

CONSTANTS
    Sessions,   \* session ids, all of one account
    Users,      \* the account's users
    Primary,    \* the one that login uses
    Calls,      \* requests served at the same time
    Unrouted,   \* of {"refresh", "revokeAll", "switch"}, operations of the manager
                \* that no route calls: those that are called, one at a time
    MaxGen,     \* bound: token generations of a session
    Failing     \* sessions for which commands and statements may fail

ASSUME SessionAssumption ==
    MaxGen \in Nat \ {0} /\ Primary \in Users /\ Failing \subseteq Sessions

Gens == 1..MaxGen

VARIABLES
    db,      \* account_sessions: [st, gen, user, expired]; st: none, active, revoked
    access,  \* access key of each token: the user in the cached copy, or None
    idKey,   \* id key of each session: generation of the access token, 0: none
    call,    \* requests in progress
    deleted, \* sessions whose row went with its device.  What db says of them from
             \* then on is history: an UPDATE by their id matches no row and is no
             \* error, db has the row as it would be had the device been kept
    raced,   \* history: sessions whose access key was deleted by a revocation
             \* while another call held a copy of the session
    failed   \* history: sessions some command or statement failed for

vars == <<db, access, idKey, call, deleted, raced, failed>>

None == "none"
Returned == [op |-> None, pc |-> "idle", s |-> 0, g |-> 0, user |-> None, todo |-> {}]

NoRow == [st |-> "none", gen |-> 0, user |-> None, expired |-> FALSE]

Init ==
    /\ db = [s \in Sessions |-> NoRow]
    /\ access = [t \in Sessions \X Gens |-> None]
    /\ idKey = [s \in Sessions |-> 0]
    /\ call = [r \in Calls |-> Returned]
    /\ deleted = {} /\ raced = {} /\ failed = {}

Quiet == \A r \in Calls : call[r].pc = "idle"

\* A request starts; not beside an operation that no route calls.
Starts(r) == call[r].pc = "idle" /\ \A q \in Calls : call[q].op \notin Unrouted
StartsAlone(op) == op \in Unrouted /\ Quiet

Goto(r, pc) == call' = [call EXCEPT ![r].pc = pc]
Return(r) == call' = [call EXCEPT ![r] = Returned]

-----------------------------------------------------------------------------
\* setCacheEntries: the access key, then the id key; common to Create,
\* FindByToken, Refresh and SwitchUser, which all end with it.

SetAccess(r) ==
    /\ call[r].pc = "setAccess"
    /\ access' = [access EXCEPT ![<<call[r].s, call[r].g>>] = call[r].user]
    /\ Goto(r, "setId")
    /\ UNCHANGED <<db, idKey, raced, failed, deleted>>

SetId(r) ==
    /\ call[r].pc = "setId"
    /\ idKey' = [idKey EXCEPT ![call[r].s] = call[r].g]
    /\ CASE call[r].op = "find" -> Goto(r, "slide")
         [] call[r].op = "create" -> Goto(r, "commit")
         [] OTHER -> Return(r)
    /\ UNCHANGED <<db, access, raced, failed, deleted>>

-----------------------------------------------------------------------------
\* Create: login inserts the row in its transaction, caches the session, and
\* commits.  Until then no statement outside the transaction sees the row.

Cached(s) == {g \in Gens : access[<<s, g>>] # None}

\* Ids are never reused; a dead session nothing refers to any more makes room
\* for a new one, so that the instance does not run out of sessions.
Unused(s) ==
    /\ db[s].st \in {"none", "revoked"} \/ db[s].expired
    /\ Cached(s) = {} /\ idKey[s] = 0
    /\ \A r \in Calls : call[r].s # s /\ (call[r].op = "revokeAll" => s \notin call[r].todo)

Create(r, s) ==
    /\ Starts(r) /\ Unused(s)
    /\ db' = [db EXCEPT ![s] = NoRow]
    /\ call' = [call EXCEPT ![r] = [op |-> "create", pc |-> "setAccess", s |-> s, g |-> 1,
                                    user |-> Primary, todo |-> {}]]
    /\ deleted' = deleted \ {s} /\ raced' = raced \ {s} /\ failed' = failed \ {s}
    /\ UNCHANGED <<access, idKey>>

\* LoginUseCase commits and returns the tokens.  If it does not come to that,
\* the row is rolled back, the keys stay, and nobody is given the tokens.
LoginCommit(r) ==
    /\ call[r].pc = "commit"
    /\ db' = [db EXCEPT ![call[r].s] = [st |-> "active", gen |-> 1, user |-> call[r].user,
                                        expired |-> FALSE]]
    /\ Return(r)
    /\ UNCHANGED <<access, idKey, raced, failed, deleted>>

\* A client holds access token g of session s, and the key exists.
Usable(s, g) ==
    /\ access[<<s, g>>] # None /\ db[s].st # "none"
    /\ ~\E r \in Calls : call[r].op = "refresh" /\ call[r].s = s /\ call[r].g = g

-----------------------------------------------------------------------------
\* FindByToken, on every authenticated request: read the copy, write it back
\* to slide the expiry, and later push the row's expiry back as well

Find(r, s, g) ==
    /\ Starts(r) /\ Usable(s, g)
    /\ call' = [call EXCEPT ![r] = [op |-> "find", pc |-> "setAccess", s |-> s, g |-> g,
                                    user |-> access[<<s, g>>], todo |-> {}]]
    /\ UNCHANGED <<db, access, idKey, raced, failed, deleted>>

\* The goroutine: UpdateExpiresAt.
Slide(r) ==
    /\ call[r].pc = "slide"
    /\ db' = [db EXCEPT ![call[r].s].expired = FALSE]
    /\ Return(r)
    /\ UNCHANGED <<access, idKey, raced, failed, deleted>>

-----------------------------------------------------------------------------
\* Revoke (logout): read the copy, delete the id key, revoke the row, delete
\* the access key

RevokeGet(r, s, g) ==
    /\ Starts(r) /\ Usable(s, g)
    /\ call' = [call EXCEPT ![r] = [op |-> "revoke", pc |-> "revokeId", s |-> s, g |-> g,
                                    user |-> None, todo |-> {}]]
    /\ UNCHANGED <<db, access, idKey, raced, failed, deleted>>

RevokeId(r) ==
    /\ call[r].pc = "revokeId"
    /\ idKey' = [idKey EXCEPT ![call[r].s] = 0]
    /\ Goto(r, "revokeRow")
    /\ UNCHANGED <<db, access, raced, failed, deleted>>

RevokeRow(r) ==
    /\ call[r].pc = "revokeRow"
    /\ db' = [db EXCEPT ![call[r].s].st = "revoked"]
    /\ Goto(r, "revokeAccess")
    /\ UNCHANGED <<access, idKey, raced, failed, deleted>>

\* Another call will write back a copy of session s that it has read.
CopyHeld(r, s) == \E q \in Calls \ {r} : call[q].s = s /\ call[q].pc \in {"setAccess", "updateUser", "updateRow"}

\* Mutant: only the id key is deleted.
RevokeAccess_Keep(r) ==
    /\ call[r].pc = "revokeAccess"
    /\ Return(r)
    /\ UNCHANGED <<db, access, idKey, raced, failed, deleted>>

RevokeAccess(r) ==
    /\ call[r].pc = "revokeAccess"
    /\ access' = [access EXCEPT ![<<call[r].s, call[r].g>>] = None]
    /\ raced' = IF CopyHeld(r, call[r].s) THEN raced \cup {call[r].s} ELSE raced
    /\ Return(r)
    /\ UNCHANGED <<db, idKey, failed, deleted>>

-----------------------------------------------------------------------------
\* RevokeAllForUser, RevokeAll: the active ids are read once, each session's
\* keys are deleted through its id key, then every row is revoked

RevokeAllFind(r) ==
    /\ StartsAlone("revokeAll")
    /\ call' = [call EXCEPT ![r] = [Returned EXCEPT !.op = "revokeAll", !.pc = "deleteKeys",
                   !.todo = {s \in Sessions \ deleted : db[s].st = "active" /\ ~db[s].expired}]]
    /\ UNCHANGED <<db, access, idKey, raced, failed, deleted>>

\* deleteBySessionID: read the id key ...
DeleteBySessionID(r) ==
    /\ call[r].pc = "deleteKeys"
    /\ \E s \in call[r].todo :
          call' = [call EXCEPT ![r].pc = IF idKey[s] = 0 THEN "deleteId" ELSE "deleteAccess",
                               ![r].s = s, ![r].g = idKey[s], ![r].todo = @ \ {s}]
    /\ UNCHANGED <<db, access, idKey, raced, failed, deleted>>

\* ... delete the access key it names ...
DeleteAccess(r) ==
    /\ call[r].pc = "deleteAccess"
    /\ access' = [access EXCEPT ![<<call[r].s, call[r].g>>] = None]
    /\ Goto(r, "deleteId")
    /\ UNCHANGED <<db, idKey, raced, failed, deleted>>

\* ... and the id key.
DeleteId(r) ==
    /\ call[r].pc = "deleteId"
    /\ idKey' = [idKey EXCEPT ![call[r].s] = 0]
    /\ Goto(r, "deleteKeys")
    /\ UNCHANGED <<db, access, raced, failed, deleted>>

RevokeAllRows(r) ==
    /\ call[r].pc = "deleteKeys" /\ call[r].todo = {}
    /\ db' = [s \in Sessions |->
          IF db[s].st = "active" /\ s \notin deleted THEN [db[s] EXCEPT !.st = "revoked"] ELSE db[s]]
    /\ Return(r)
    /\ UNCHANGED <<access, idKey, raced, failed, deleted>>

-----------------------------------------------------------------------------
\* Refresh: check the row, delete the old keys, store and cache new tokens

\* FindByRefreshTokenHash: the presented token is the row's current one; the
\* row is neither revoked nor expired.  Then the id key is read.
RefreshFind(r, s) ==
    /\ StartsAlone("refresh") /\ db[s].gen < MaxGen
    /\ s \notin deleted /\ db[s].st = "active" /\ ~db[s].expired
    /\ call' = [call EXCEPT ![r] = [op |-> "refresh", s |-> s, user |-> db[s].user, todo |-> {idKey[s]} \ {0},
                   g |-> db[s].gen + 1, pc |-> IF idKey[s] = 0 THEN "updateRow" ELSE "oldAccess"]]
    /\ UNCHANGED <<db, access, idKey, raced, failed, deleted>>

\* Mutant: the old access token stays valid.
RefreshOldAccess_Keep(r) ==
    /\ call[r].pc = "oldAccess"
    /\ Goto(r, "oldId")
    /\ UNCHANGED <<db, access, idKey, raced, failed, deleted>>

\* Delete the old access key (todo holds its generation) ...
RefreshOldAccess(r) ==
    /\ call[r].pc = "oldAccess"
    /\ access' = [t \in Sessions \X Gens |->
          IF t[1] = call[r].s /\ t[2] \in call[r].todo THEN None ELSE access[t]]
    /\ Goto(r, "oldId")
    /\ UNCHANGED <<db, idKey, raced, failed, deleted>>

\* ... and the old id key.
RefreshOldId(r) ==
    /\ call[r].pc = "oldId"
    /\ idKey' = [idKey EXCEPT ![call[r].s] = 0]
    /\ Goto(r, "updateRow")
    /\ UNCHANGED <<db, access, raced, failed, deleted>>

\* UpdateRefreshToken by id: it does not check the token it replaces.
UpdateRefreshToken(r) ==
    /\ call[r].pc = "updateRow"
    /\ db' = [db EXCEPT ![call[r].s].gen = call[r].g, ![call[r].s].expired = FALSE]
    /\ Goto(r, "setAccess")
    /\ UNCHANGED <<access, idKey, raced, failed, deleted>>

-----------------------------------------------------------------------------
\* SwitchUser: read the copy, update the row, write the changed copy

SwitchGet(r, s, g, u) ==
    /\ StartsAlone("switch") /\ Usable(s, g)
    /\ call' = [call EXCEPT ![r] = [op |-> "switch", pc |-> "updateUser", s |-> s, g |-> g,
                                    user |-> u, todo |-> {}]]
    /\ UNCHANGED <<db, access, idKey, raced, failed, deleted>>

UpdateUserID(r) ==
    /\ call[r].pc = "updateUser"
    /\ db' = [db EXCEPT ![call[r].s].user = call[r].user]
    /\ Goto(r, "setAccess")
    /\ UNCHANGED <<access, idKey, raced, failed, deleted>>

-----------------------------------------------------------------------------
\* DeleteDevice: the rows of the device's sessions go with it (ON DELETE CASCADE),
\* nothing else does: the keys stay, and so does a call at work on a session.  A
\* login from the device that has not committed yet makes the DELETE wait.
DeleteDevice(r, gone) ==
    /\ Starts(r) /\ gone # {}
    /\ \A s \in gone : db[s].st # "none"
    /\ deleted' = deleted \cup gone
    /\ UNCHANGED <<db, access, idKey, call, raced, failed>>

-----------------------------------------------------------------------------
\* A Redis command or SQL statement fails (the request's context is cancelled,
\* a store is away).  Where the code discards the error the call goes on, as if
\* nothing had happened; elsewhere it returns the error.
Ignored == [revokeId |-> "revokeRow", revokeRow |-> "revokeAccess",
            oldAccess |-> "oldId", oldId |-> "updateRow",
            deleteAccess |-> "deleteId", deleteId |-> "deleteKeys"]
Reported == {"setAccess", "setId", "commit", "slide", "revokeAccess", "updateRow", "updateUser"}

StepFails(r) ==
    /\ call[r].s \in Failing
    /\ \/ call[r].pc \in DOMAIN Ignored /\ Goto(r, Ignored[call[r].pc])
       \/ call[r].pc \in Reported /\ Return(r)
    /\ failed' = failed \cup {call[r].s}
    /\ UNCHANGED <<db, access, idKey, raced, deleted>>

-----------------------------------------------------------------------------
\* Time.  Both keys get the same TTL, the access key first: it expires first.
\* The row's expiry is moved along with the keys, so it does not lapse before
\* them.  Neither holds once a write of the session has failed.  Of a revoked row
\* no query looks at the expiry.

ExpireAccess(s, g) ==
    /\ access[<<s, g>>] # None
    /\ access' = [access EXCEPT ![<<s, g>>] = None]
    /\ UNCHANGED <<db, idKey, call, raced, failed, deleted>>

ExpireId(s) ==
    /\ idKey[s] # 0 /\ (access[<<s, idKey[s]>>] = None \/ s \in failed)
    /\ idKey' = [idKey EXCEPT ![s] = 0]
    /\ UNCHANGED <<db, access, call, raced, failed, deleted>>

ExpireRow(s) ==
    /\ db[s].st = "active" /\ ~db[s].expired
    /\ Cached(s) = {} \/ s \in failed
    /\ \A r \in Calls : call[r].s # s
    /\ db' = [db EXCEPT ![s].expired = TRUE]
    /\ UNCHANGED <<access, idKey, call, raced, failed, deleted>>

Start(r) ==
    \/ \E s \in Sessions, g \in Gens :
          Find(r, s, g) \/ RevokeGet(r, s, g) \/ \E u \in Users : SwitchGet(r, s, g, u)
    \/ \E s \in Sessions : Create(r, s) \/ RefreshFind(r, s)
    \/ RevokeAllFind(r)
    \/ \E gone \in SUBSET Sessions : DeleteDevice(r, gone)

Continue(r) ==
    \/ SetAccess(r) \/ SetId(r) \/ LoginCommit(r) \/ Slide(r)
    \/ RevokeId(r) \/ RevokeRow(r) \/ RevokeAccess(r)
    \/ DeleteBySessionID(r) \/ DeleteAccess(r) \/ DeleteId(r) \/ RevokeAllRows(r)
    \/ RefreshOldAccess(r) \/ RefreshOldId(r) \/ UpdateRefreshToken(r)
    \/ UpdateUserID(r) \/ StepFails(r)

Expire == \E s \in Sessions : ExpireId(s) \/ ExpireRow(s) \/ \E g \in Gens : ExpireAccess(s, g)

Next == Expire \/ \E r \in Calls : Start(r) \/ Continue(r)

Spec == Init /\ [][Next]_vars

-----------------------------------------------------------------------------
\* Properties

TypeOK ==
    /\ db \in [Sessions -> [st : {"none", "active", "revoked"}, gen : 0..MaxGen,
                            user : Users \cup {None}, expired : BOOLEAN]]
    /\ access \in [Sessions \X Gens -> Users \cup {None}]
    /\ idKey \in [Sessions -> 0..MaxGen]
    /\ DOMAIN call = Calls
    /\ deleted \subseteq Sessions /\ raced \subseteq Sessions /\ failed \subseteq Sessions

\* When no call is in progress the cache only holds what the rows allow: an
\* active session's current token, with the row's user, reachable through the
\* id key; a revoked session has no valid token.  Where the row went with its
\* device the token stays what it was: no lookup asks for the row, and only the
\* session's own logout or its TTL ends it.  Exempt are sessions a command
\* failed for, and those written back by a request that had read them before.
CacheMirrorsRows ==
    Quiet => \A s \in Sessions \ (raced \cup failed) : \A g \in Cached(s) :
        /\ db[s].st = "active" /\ g = db[s].gen
        /\ access[<<s, g>>] = db[s].user
        /\ idKey[s] = g

\* Also while requests are in progress: once no logout is at work on it, a revoked
\* session keeps a valid token only if the delete of its access key failed, or a
\* request had read the session before and wrote it back afterwards; also a session
\* whose row is gone with its device is ended by its logout.
RevokedUnlessRaced ==
    \A s \in Sessions \ (raced \cup failed) :
        (db[s].st = "revoked" /\ ~\E r \in Calls : call[r].s = s /\ call[r].op = "revoke")
            => Cached(s) = {}
=============================================================================
