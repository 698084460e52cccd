# Verification of tentserv-chat-server

TLA+ models of the chat server in this repository, checked with TLC on small instances, with
theorems that TLAPS proves for every size. `PROJECT.json` lists the runs, the source lines each
definition models, the hazards the properties are about, the findings and the theorems.

## The system

| Component | State | Operations | Interacts with |
|---|---|---|---|
| WebSocket hub (`internal/interface/ws`) | `clients`, `userClients` (slices per user), one buffered channel per connection | register, unregister, broadcast (one event loop), `SendToUser` (any goroutine) | every part that notifies users |
| Event delivery (`internal/infrastructure/push`, `delivery_queue`) | rows pending / delivered, `pendingAcks` | dispatch, push and wait for an acknowledgement, retry every minute | hub, prekeys |
| Friendships (`internal/application/friendship`) | two rows of `user_friendships` per pair, direct rooms | apply, accept, cancel, remove, block, unblock | rooms |
| Sessions (`internal/infrastructure/auth/session`) | a row and two Redis keys per session | create, find (slides the expiry), refresh, revoke, revoke all, switch user | login, logout, the authentication middleware, devices |
| Sender keys (`internal/application/e2ee`) | keys, requests, distributions | upload, request, fetch, status; notifications in goroutines and on connect | hub, rooms |
| Rooms (`internal/application/chat`) | rooms, members, invitations | create, join, approve, respond; a trigger limits members | friendships |
| Messages and read marks (`internal/application/chat`) | `participants`, `chat_records`, `last_read_at` | send (with fan-out), pages of the history, detail of a room, mark as read, count of unread messages | hub, rooms |
| Prekeys (`internal/application/e2ee`) | identity, signed and one-time prekeys | upload, rotate, fetch a bundle (consumes one), count | event delivery, devices |
| Devices (`internal/application/device`) | `devices`, `accounts_devices` | register, rename, bind, delete (cascades to keys and sessions) | prekeys, sessions, login |
| Accounts (`internal/application/auth`) | `accounts`, verification tokens in Redis, the mails sent | register, verify, login, logout | sessions, users, e-mail |
| Users and roles (`internal/application/user`) | `users`, `users_roles`, avatar files | update profile and roles, upload an avatar | storage |
| Rate limiter | a sorted set and a counter per address in Redis | check and count | middleware |
| HTTP layer (`internal/interface/http`) | none of its own | rate limits, authentication, parsing, errors to statuses | every use case |
| Ollama proxy (`internal/application/ollama`) | the last three messages of a conversation, in Redis | load, forward and stream, save | an external service |
| Configuration, logging | none of their own | read, write | |

What is hard about it: goroutines share slices and channels without holding the lock; notifications
run after the response and may fail; Redis and Postgres are updated one command at a time; most use
cases are sequences of statements outside a transaction, and the transactional ones read without
locks; the process may stop between any two steps.

What makes the components correct: the hub's index agrees with its registry and a message goes to
the right user's connections; an event is closed only after a client acknowledged it, and is received
in the end; the two rows of a pair agree and nobody is a friend, or a member of a room, without the consent
of both sides; a revoked session is gone; a request for a key reaches its provider; a room keeps
within its limit; a one-time prekey is used once and a bundle verifies; an account becomes active only
through its own address; a user's roles and avatar are those last set; a client that pages back misses
no message; a protected route serves nobody without a session.

## The modules

Each component has a module, an `MC` module with the constants of its instances, and one `.cfg` per
run. Operators named `X_Something` are deliberately wrong variants of `X`, used to show that the
properties can fail; no specification uses them.

**Hub.** Go slices are modelled as they are: a header (array, length) over a backing array. `append`
reuses the array while it has room (`AppendClient`), `removeUserClient` shifts it one cell at a time
(`HubLock`, `HubShift`, `HubRemoved`), and a `SendToUser` works on the header it copied
(`SendSnapshot`, then `SendLoad` and `SendDeliver` per connection). The unsynchronised read of a cell
that is being shifted takes the value before or after. A send on a closed channel is `SendPanic`: it
ends a `fanOut`, which recovers, and stops the process for other callers. A buffer is the bag of
messages in it, a message the user it is addressed to.

**Delivery, DeliveryPromise.** A push is a goroutine that registers a channel under the row's id
(`PushRegister`), sends (`PushSend`), waits (`PushAcked`, `PushTimeout`), deletes the entry under
that id, whoever owns it by then (`PushForget`), and marks the row (`MarkDelivered` or
`MarkDeliveredFails`). `ResolveAck` is two steps, since it releases the lock before it sends. The
handler takes an acknowledgement at its word: it ignores the connection it came on
(ack_handler.go:24). A client may therefore name any row, also one it was not pushed (`StrayAck`), and
that closes the row. `DeliveryPromise` is the abstract specification: an event is stored, acknowledged
at least once, and closed only after that. `KeepsPromise` states that Delivery implements it.

**Friendship.** Every statement of the six use cases is a step. Accept is a transaction at READ
COMMITTED: reads see committed rows, an update holds its row and an insert its key until commit, a
statement that would wait is disabled; an insert also waits for a row with its key that another Accept
has updated (`KeyLocked`). Two Accepts of opposite requests can so wait for each other (`Crossed`);
Postgres ends that by aborting one (`AcceptDeadlock`). Errors that the code discards are discarded
here. An Accept that finds a participant missing makes no room and succeeds (`AcceptRoom`). The direct
rooms that users create themselves are one step each here (`CreateChatRoom`, `JoinRoom`), since an
Accept does not find a room whose second member is still invited; Rooms has these use cases in full.

**Session.** A token is a session and a generation. `SetAccess` and `SetId` are the two writes of
`setCacheEntries`; the row of a new session is visible once login commits (`LoginCommit`). `StepFails`
makes any command fail, followed by what the code does with the error. Keys and rows expire at any
time. `DeleteDevice` takes the rows of the device's sessions away (ON DELETE CASCADE) and leaves their
keys; from then on `db` says what the row would hold, since an UPDATE that matches no row is no error
and no lookup of a token reads it. Only create, find and revoke are reachable from a route: no use case
calls refresh, revoke all or switch user, and these start only when nothing else is in progress.

**SenderKeys.** A task is one statement or send that a goroutine still has to make for a pair of
members. A loop over requests becomes one task each, in any order, which includes the code's order.
A user has several connections, and a send reaches any subset of them (`Notify`): Client.Send drops at
a full buffer, and the fan-out skips a connection while another is removed. `TaskFails` and `Crash` lose
tasks. `Connect` starts the hook that looks for pending requests.

**Rooms.** Requests are transactions. What they write takes effect at `Commit`; until then the
trigger's lock on the room (`RoomLocked`), the invitation (`InvLocked`) and the friendship row
(`RowLocked`) make others wait. `FriendshipChanges` stands for module Friendship and leaves a pair in
the states its use cases leave it in. Invitations do not expire: no caller sets `expires_at`. The
branch of JoinChatRoom for agents and system participants cannot be taken by a logged-in user.

**PreKeys.** Devices and keys, with one step per statement: none of these use cases runs in a
transaction that matters. A rotation of the signed prekey is `VerifySignedPreKey`, `DeactivateAll` and
`Add`; a bundle is `BundleIdentity`, `BundleSigned`, `BundleConsume`, `BundleCount` and
`BundleDispatch`, which enqueues the event whose delivery is modelled in Delivery. A key is the
identity key that signed it and its id, so that "verifies" is equality. The history `had` numbers the
identity keys of an owner; a signed prekey remembers with which it was checked (`checked`), a bundle
which it has read (`read`).

**Accounts, Profiles.** Profiles extends Accounts: both work on users and roles. A registration is a
transaction whose rows are published by `RegisterCommit`, but its token (`RegisterStore`) and its mail
(`RegisterSend`) are out before that; ids come from a sequence that a rollback does not take back.
Confirmation is get, delete, read, write (`VerifyGet` to `VerifyUpdate`), and login writes the whole
row back (`LoginCommit`). An avatar is a file and a row: `Stat`, `Save`, `UploadRow`, and `DeleteFile`
in the background; a role update revokes and assigns one code at a time (`ProfileRevoke`,
`ProfileAssign`). `Ban` stands for an administrator, since nothing in the code bans.

**Messages.** An insert fixes its time (`SendMessage`), draws its id (`InsertNumber`) and becomes
visible (`Create`), in this order but interleaved with others, so that ids, times and visibility need
not agree. The reader's client is part of the model: it takes the first page or the detail of the
room, and goes on with the id of the oldest message it has. The clock may stand still, so that two
messages have the same time; the clocks of server and database are taken to agree.

**Routes, Http.** Routes has one definition per handler: does it require a session, and which statuses
does it answer with when the input does not parse, when its use case succeeds, and when it fails. Http
runs a request for any of these routes through the middleware: the sliding window over all requests,
the counter of its address, the session lookup with its write-back, the check for an AuthContext, the
handler. The session cache is the set of tokens in it; login and logout change it, module Session has
the keys and rows behind it.

## The runs

| Run | Instance | What it shows |
|---|---|---|
| hub | two connections of one user, one of another, a fan-out and a push, buffers of 1 | `IndexMatchesRegistry`, `NoCrossDelivery`, `UndisturbedCallIsExact` |
| hub_live | two connections, a push | `LeavingIsRemoved`, `CallsReturn` |
| delivery | one event, a connection of its addressee and one of another user, two overlapping pushes, crashes, acknowledgements of either out of turn | `NoLeakedEntry`, `DeliveredWasReceived`, `KeepsPromise`, `EventuallyDelivered` |
| friendship | two users, two requests at a time, failing steps, a pair that may share a room already, one user who may have no participant, one who creates rooms | `FriendshipNeedsBoth`, `PairIsConsistent`, `OnlyCrossedAcceptsDeadlock`, `FriendsShareOneRoom` |
| session | one session, two users of the account, three requests at a time, deletion of its device, expiry, failures | `RevokedUnlessRaced`, `CacheMirrorsRows` |
| sender_keys | one requester, a provider with two connections, dropped messages, failing goroutines, crashes | `NoMissedRequest`, `FulfilledHasKey`, `NoForgottenRequest`, `NeverFalselyFetched` |
| rooms | three users, two requests at a time, a limit of 2, odd member lists | `CapacityKept`, `BothConsent`, `AcceptedIsMember`, `ResolvedOnce`, `RefusalsCount`, `NoCircularWait` |
| prekeys | two users, two devices, two identity keys, two key ids each, two of four requests at a time, threshold 1 | `GivenAwayOnce`, `BundleVerifies`, `RotationKeepsOneActive`, `LowPoolIsReported` |
| accounts | two addresses, a seeded account with or without a user, two roles, two images, two of three requests at a time, one ban | `RegistrationCanBeVerified`, `StatusIsEarned`, `UserLimitKept`, `AvatarIsKept`, `RolesOfOneUpdate` |
| messages | three users, one of them a guest who reads, three messages, two inserts at a time, pages of 2, one read mark | `HistoryIsComplete`, `UnreadIsExact` |
| http | every route, one address, one token, limits of 1, two of four requests at a time | `WithinLimits`, `ServedAsAnswered` |

The types (`TypeOK` and the like) are proved, for all modules. Each property has a mutant
in `PROJECT.json`: a plausible error in the code that TLC reports as a violation of it.

One more run, `hub_safe` (`SafeFromAnyGoroutine`), shows where the code does not do what a comment
says: a send that copied the slice before a removal uses a closed channel. The finding in
`PROJECT.json` quotes the line.

Many properties name the overlap or failure that breaks them, and hold otherwise:
`UndisturbedCallIsExact` speaks of sends that no removal overlaps, `RevokedUnlessRaced` and
`ServedAsAnswered` say what a revoked token needs to stay alive, `NoForgottenRequest` covers the
requests that were open at the upload, `NoMissedRequest` excuses the one connection that a send missed,
`BundleVerifies` the bundle whose identity key is not the one its signed prekey was checked with. Others
include what the code does not rule out: `DeliveredWasReceived` is about rows the addressee received or
a client named, `FriendsShareOneRoom` leaves out pairs of which one had no participant, and
`OnlyCrossedAcceptsDeadlock` allows the one deadlock there is. The history variables of the newer modules record exactly such
an event, for the one row it touches: `overlap` and `rotation` (PreKeys), `spent`, `ruling` and
`crowded` (Accounts), `clash` and `mixed` (Profiles), `raced` (Messages), `kept` (Http).

Some properties hold only for requests that follow one another. The history variable `orderly` of
Friendship and Rooms is true as long as no two requests have overlapped (and, in Friendship, no step
has failed). `PairIsConsistent`, `FriendsShareOneRoom`, `ResolvedOnce` and `RefusalsCount` assume it;
the other properties of these modules do not.

### Observations

Met while modelling, without a run of their own:

- Hub: a removal that shifts the array during a send makes the send skip a connection that stays
  (hub.go:151).
- Delivery: any authenticated client can acknowledge any row by its id (ack_handler.go:24); the row is
  then closed, and its retries end, although its addressee may not have received it.
- Friendships: two users who have asked each other at the same time, and then accept at the same time, deadlock: each Accept has
  updated its row and inserts the key of the other's (accept_friendship_usecase.go:75). Postgres aborts
  one with 40P01; the other then finds the row and fails as below. An Accept makes a second
  direct room for a pair whose first one is still an invitation (:114), and none, but answers with
  success, when a participant is missing (:101).
- Friendships: two accepts of one request both read it as pending (accept_friendship_usecase.go:59),
  and the later one fails on the duplicate key that the comment at :81 means to treat as success,
  since Postgres has aborted its transaction. A block that overlaps an accept leaves the target with
  an accepted row (block_user_usecase.go:57), although the comment there says it sees no friendship. A
  block by the other side deletes the first block.
- Rooms: two answers to one invitation that overlap both succeed (respond_to_invitation.go:80). A
  block through an invitation updates one of a pair's two rows (:119), and CreateChatRoom may read the
  other. ErrNotAllowed of a guest who sends is not translated and becomes a 500.
- Sessions: an authentication that read a session before its logout writes the key back
  (session_manager.go:118), and the token works again; Revoke ignores a failing read, so that a logout
  answers 200 and changes nothing. The deletion of a device deletes the rows of its sessions
  (device_repo.go:132) and no key: its tokens stay valid, and each use extends them.
- Sender keys: a second upload is refused, because every key has the same chain id
  (upload_sender_key.go:78), so that requests made after the first upload stay open. The provider of a
  request may belong to another room (create_sender_key_request.go:65).
- Prekeys: a new identity key leaves the signed prekey that the old one signed active
  (upload_identity_key.go:79), and bundles do not verify until the next rotation.
- Prekeys: the `RETURNING id` of ConsumeOne (otp_prekey_repo.go:50) names a column of both tables, which
  Postgres rejects; the use case ignores the error and the bundle has no one-time prekey. The model has
  both outcomes. A failure between the two statements of a rotation leaves no active signed prekey.
- Accounts: an account whose token was spent before the commit, by a failed step or by expiry, stays
  in `applying`: nothing issues a second token. The last update of a registration has id 0 and
  matches no row. A login may undo a ban (login.go:151).
- Users: a half-written avatar file is taken for complete by the next upload of the same image.
- Messages: a sender's own messages count as unread; of two overlapping read marks the older may win;
  the detail of a room does not say whether there is more.
- HTTP: `GET` and `PATCH /api/device/{device_id}` are registered without a session
  (device_handler.go:40), where the API documentation has `BearerAuth` (:125, :156).
- HTTP: input that does not parse gives 500 in the account, user and e2ee handlers, where the API
  documentation says 400. A refused request is added to the global window all the same; INCR without
  its EXPIRE leaves a counter that never ends (rate_limit_cache_repo.go:31); requests with the same
  timestamp count once. AuthMiddleware sets the Authorization header after the body was written.
- Ollama: the history is loaded before the answer is streamed and saved after it
  (stream_chat.go:62, :96), so that of two overlapping requests of a conversation one is forgotten; an
  answer that breaks off is saved as if it were complete.

### Bounds

Two users, connections or members are enough for a race between two. In `delivery` one connection
is the addressee's and one is not, but acknowledges the row all the same; two messages may be under way on
each, so that the acknowledgement of one push meets the next. That an acknowledgement closes no other
row than the one it names is proved, for any number of rows and connections. Two connections of one provider (`sender_keys`) are what
it takes for a send to reach one and miss the other. Three requests in `session` let
a logout overlap a login and an authentication; in `rooms` the third user makes two candidates
compete for one place. A buffer of one message reaches the full and the empty case. `MaxId`,
`MaxRooms`, `MaxInv`, `MaxGen`, `MaxSame` and `Slots` bound what the code does not; at a bound an
operation returns without effect or is not started. Three inserts (`MaxId`) in `friendship` reach a
request, its accept and a new row after a removal; crossed requests and their Accepts are within that.
That two who part make friends again starts from a room of an earlier Accept (`OldRooms`), and two rooms
are that one, or a user's own, and one more. Requests of a user about himself are pairs like any other to
the proofs, which cover them for every property of this run.
In `prekeys` four requests are a rotation, a fetch and two that interfere; the pool starts with any
subset of two keys, so that it runs empty. In `accounts` three requests are a registration, its
confirmation and a login, or three about one user. In `messages` three messages and pages of two make
two pages; a read mark races two inserts. In `http` the limit of an address is exceeded by as many
requests as run at the same time, which two show; a window of two ticks lets a request be received in
one window and counted in the next.
The operations of the session manager that no route calls (`Unrouted`: refresh, revoke all, switch
user) run alone, since nothing in the program runs them at all. Deadlock is checked except in
`prekeys`, `accounts`, `messages` and `http`, where a bounded number of requests is served and then
nothing more happens; no step of these modules waits for another request.

### Fairness

Only two runs assume fairness. `hub_live`: the event loop serves every connection that waits to
register or leave, the sending goroutines go on, and one that waits for the read lock gets it in the
end (strong fairness, since Go's select and RWMutex starve nobody); nothing is assumed of the
clients, so a socket may never be read. `delivery`: goroutines go on, the scheduler ticks, time
passes and clients read their sockets. That connections last and answer in time is a premise of
`EventuallyDelivered`, not fairness: the property asks for delivery only if from some point on
`stable` holds, which means an addressee that stays connected, no crash and no timeout before an
answer. While it holds a push is over before the next tick reaches its row, as it lasts 5 s at most
and the ticker 60 s.
No fairness is assumed for any other request of a user. `NoCircularWait` (Rooms) and
`OnlyCrossedAcceptsDeadlock` (Friendship) state without fairness that some request in progress can always
go on, in Friendship unless two Accepts have crossed.

## The proofs

Eight modules, `XProofs` for each `X` of Delivery (with Messages), SenderKeys, Rooms, Friendship,
PreKeys, Profiles (with Accounts), Session (with Http) and Hub, prove for every value of the constants
that satisfies the module's assumption: the types, and every safety property that the runs check, except
`NoCircularWait` and `OnlyCrossedAcceptsDeadlock` (about ENABLED) and the refuted `SafeFromAnyGoroutine`. Each
proof defines an inductive invariant, `IInv` (`MessagesInv` and `HttpInv` where a proof module is about
two components), which TLC has confirmed on the instances above, has a lemma for each action
(`<Action>Keeps` or the like) and concludes from `Spec => []IInv`.

- **Hub.** The loop overwrites, one cell at a time, arrays that calls are iterating over, so the
  invariant is about cells. Whatever an array is or was used for, it holds connections of its user
  only (`OwnCells`); that carries `NoCrossDelivery`. The cells under the current header are the
  registered connections, each once, if one leaves out the cell that a shift is about to overwrite and
  counts the connection whose removal has not begun to move them (`Listed`); when the loop is idle that
  is `IndexMatchesRegistry`. A call that no removal has disturbed has tried the connections of the users
  it is done with (`Done`) and one for each cell it has passed (`Passed`); its cells still hold what it
  found (`Covered`), because its header is no longer than the current one over the same array, and an
  append writes beyond that or into a new array (`Reserved`). What follows is `UndisturbedCallIsExact`, by
  counting a sequence without repetitions.
- **Delivery.** `DeliveredWasReceived` is not inductive: a push that is about to mark its row, a
  channel with a signal in it and an acknowledgement on its way must also be backed by a receipt, or by
  an acknowledgement out of turn (`Evidence`, about `Acked`), and a push belongs to a stored
  row (`Enqueued`). `IInv` is their conjunction with `TypeOK` and with what a receipt rests on, that
  inboxes hold messages of their user (`OnlyToAddressee`). `ImplementsPromise` follows from it: initial states
  map to initial states and each step to a step of DeliveryPromise or a stutter.
- **Sender keys.** `NoMissedRequest` (for each connection of the provider) and `NoForgottenRequest` are inductive together with the types; `KeyBehind` and
  `FetchBehind` add that the tasks that close requests or record fetches stem from uploads and
  fetches.
- **Rooms.** A request knows the invitation it decides and may decide it (`CallsKnown`), an
  invitation carries one side's consent (`InvKnown`), an insert in progress has its place
  (`PlaceLeft`) and is the only one for its room (`OneAdder`). The limit then follows from the
  cardinality of a set with one more element, the consent from the caller being the other side.
  `ResolvedOnce` and `RefusalsCount` need a second invariant, `OInv`, about requests that follow one
  another: what the only request in progress has read still holds (`Fresh`), an answered invitation
  has been answered once (`AnsweredOnce`), a member's invitation stays accepted (`MembersInvited`).
- **Friendship.** That a pending row was asked for, and that an Accept at work belongs to the
  addressee of such a request (`Consent`), carries `FriendshipNeedsBoth` through every overlap. The other
  two properties hold between requests and say nothing about the statements in the middle of one. Their
  invariant says what the only request in progress has read and has still to do (`View`), that the rows
  of all pairs but its own agree (`Settled`), and that a room is missing only while the Accept that makes
  it is at work or where a participant was missing; of the rooms that Accepts made no two are of one pair
  (`RoomsOrderly`).
- **Prekeys.** A key in the pool was uploaded once more than it was given away (`Credit`); the keys in
  rows and requests are those that were the owner's when they were checked or read (`Published`), and
  what was somebody's n-th key stays that; without overlapping rotations the
  one between its two statements is the only one, and meanwhile nothing is active (`OneRotation`).
- **Accounts and profiles.** A token names one registration and is mailed to its address only (`Tokens`,
  `Verifications`); a row to be written back has the address the table has (`Held`); what a registration
  will need for its confirmation is there before it commits (`Confirmable`); the user a login is
  about to insert is the first of its account (`FirstUsers`); a user's only update knows the roles that
  are left to revoke or assign, and the files it works on (`RolesInHand`, `AvatarInHand`).
- **Sessions.** Every key that exists holds the current token, unless the user switch or the login that
  will make it so is at work (`CopiesRight`); the id key names it, unless a request is about to write the
  one or delete the other (`IdKeyFollows`); a revoked session is cached only while a logout is at work on
  it (`Withdrawn`); a request has the generation and the user of the row (`HoldsRow`). The deletion of a
  device disturbs none of this, but a revocation of all sessions does not find those whose row is gone
  (`Deletes`). All this is said
  of the sessions that the properties are about, those neither `raced` nor `failed`.
- **Http.** `WithinLimits` counts requests, the code counts keys that expire. The requests let through in
  the window that ends now are members of the sorted set, and the key lives until the last of them has
  left the window (`GlobalKey`). The counter of an address is at least the number of its requests in the
  window, and at most the limit and one for each request that has been checked and is about to increment
  it (`AddressKey`): that is where the slack of `WithinLimits` comes from, and the bound is met even if
  EXPIRE fails after INCR. For `ServedAsAnswered` a token logged out for good is not in the cache and no
  lookup holds it (`LoggedOutStays`), a request keeps what its steps so far have shown (`OnItsWay`), and
  every route, one by one, answers with a success only where its use case succeeded (`RoutesTyped`).
- **Messages.** Ids and times of inserts in progress are bounded and distinct before their rows are
  visible (`Numbered`, `Timed`). `UnreadIsExact` must hold of a mark when its request takes the time, not
  only when it is stored, and must speak of inserts that have not committed: each one older than the mark
  knows that the mark overlapped it (`Exact`). `HistoryIsComplete` says something at the last page only;
  the invariant is that the client has the rows that were due from its cursor on, and none from before it
  (`Paged`). The first page, by time, is closed under later ids when no two rows are out of order
  (`FirstPageKeeps`); an earlier page is so by its definition, and one that is not full is all there is,
  by counting the rows above the newest one it leaves out (`FullPage`).
- **Locks.** In Rooms and Friendship `NeverAllWaiting` proves for any number of requests what is at the
  bottom of `NoCircularWait` and `OnlyCrossedAcceptsDeadlock`: of the requests in progress one does not
  wait for a lock, because those that hold one wait, if at all, only for those about to commit; in
  Friendship also, if two Accepts have crossed, for each other. `Waits` collects the conditions of the guards
  that wait; that a request which does not wait has a step is what ENABLED, and TLC, add to it.

The refinement is `Promise == INSTANCE DeliveryPromise WITH status <- row, acknowledged <- Acked`: the
status of an event is its row's, and it counts as acknowledged when one of its addressee's clients got it
(and answers) or some client named it.

The assumptions on the constants are the types of the parameters and that placeholders (`NoKey`,
`NoRow`, `NoClient`) are not values. Three say more. `Members` of Hub has no repetitions, as chat_members
is unique in (room_id, participant_id) and a user has one participant: a fan-out over a list with a
user twice would try his connections twice. `MaxRooms` of Friendship is not 0, so that a pair may share a
room from the start (`OldRooms`). `Requests` of Http is finite, as requests in progress are, and so that
the slack of `WithinLimits` is a number.

Only model-checked: liveness (the prover has no rules for fairness and ENABLED) and with it
`EventuallyDelivered`, `LeavingIsRemoved`, `CallsReturn`; `NoCircularWait` and
`OnlyCrossedAcceptsDeadlock`, which state that a step is ENABLED (their part about locks is proved, see
above).

## Not modelled, and the plan

Not modelled: the wording of requests and responses; the Ollama proxy beyond its route (a history of three
messages, written by one command); the bytes of
media files and the route that stores them (no row changes); configuration, logging and the access
log; the connection pool and the order of the graceful shutdown; RequireRoleMiddleware, which no route
uses; and reads that change nothing (lists of friends, devices and rooms, searches, profiles), except
those whose result a property is about. Deleting and editing messages, and soft deletion of members,
exist in the repositories but no use case calls them.

Next: the history of the Ollama proxy as a module, if it grows beyond one read and one write.
