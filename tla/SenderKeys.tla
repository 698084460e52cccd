----------------------------- MODULE SenderKeys -----------------------------
(***************************************************************************)
(* Sender keys of group encryption (internal/application/e2ee): a member   *)
(* of a room uploads a key, the others fetch it; a member that misses a    *)
(* key leaves a request, and the provider is told of it (e2ee.             *)
(* sender_key_needed) at once if connected and else when it connects; an   *)
(* upload tells the requesters (e2ee.direct_key_ready) and closes their    *)
(* requests.                                                               *)
(*                                                                         *)
(* All notifying runs in goroutines after the response.  A task is one     *)
(* statement or send such a goroutine still has to make, for a pair of     *)
(* members; running counts identical ones.  A loop over several requests   *)
(* becomes one task for each of them, in any order.  A user may have       *)
(* several connections, and a send may miss any of them: Client.Send drops *)
(* the message if the buffer of the connection is full, and the fan-out of *)
(* the hub skips a connection while another one of the user is removed     *)
(* (module Hub has both).                                                  *)
(*                                                                         *)
(* UploadSenderKey leaves ChainID at its zero value and the table has      *)
(* UNIQUE (chat_member_id, chain_id): a member has at most one key.  No    *)
(* use case deletes a member.                                              *)
(***************************************************************************)
EXTENDS Naturals

CONSTANTS
    Members,   \* chat_members.id
    Users,
    UserOf,    \* the user behind a member
    Conns,     \* connections
    Owner,     \* Client.UserID
    Rooms,
    RoomOf,    \* chat_members.room_id
    Asking,    \* bound: the pairs <<requester, provider>> that make requests
    MaxSame,   \* bound: identical tasks at the same time
    Faulty     \* whether tasks may fail and the process may crash

ASSUME SenderKeysAssumption ==
    /\ UserOf \in [Members -> Users]
    /\ Owner \in [Conns -> Users]
    /\ RoomOf \in [Members -> Rooms]
    /\ Asking \subseteq Members \X Members
    /\ MaxSame \in Nat \ {0}
    /\ Faulty \in BOOLEAN

Pairs == Members \X Members    \* <<requester or receiver, provider or sender>>

\* What a goroutine does next, for a pair <<r, p>>:
\*   hook    look for requests to p, whose user has connected
\*   needed  send e2ee.sender_key_needed about r to the user of p
\*   upload  look for requests to p, which has uploaded a key
\*   ready   send e2ee.direct_key_ready about p to the user of r
\*   mark    MarkFulfilled(r, p)
\*   record  note that r has fetched the key of p
Tasks == {"hook", "needed", "upload", "ready", "mark", "record"} \X Members \X Members

VARIABLES
    keys,     \* the members with a row in member_sender_keys
    req,      \* sender_key_requests: none, pending, fulfilled
    dist,     \* sender_key_distributions, as pairs <<receiver, sender>>
    up,       \* the connections registered with the hub
    running,  \* how many goroutines are about to do each task
    told,     \* history: <<r, p, c>>: c was sent r's present request to p
    missed,   \* history: <<r, p, c>>: a send of it missed c, or was never made
    fetched,  \* history: <<r, s>>: r was given the key of s
    due       \* history: requests pending when their provider's key was added,
              \* unless made again, or the goroutine lost that was to answer them

vars == <<keys, req, dist, up, running, told, missed, fetched, due>>

Init ==
    /\ keys = {}
    /\ req = [q \in Pairs |-> "none"]
    /\ dist = {}
    /\ up = {}
    /\ running = [t \in Tasks |-> 0]
    /\ told = {} /\ fetched = {} /\ missed = {} /\ due = {}

\* Goroutines: some start, and some get done with a task.
Room(S) == \A t \in S : running[t] < MaxSame
StartTasks(S) ==
    /\ Room(S)
    /\ running' = [t \in Tasks |-> IF t \in S THEN running[t] + 1 ELSE running[t]]
ReplaceTask(done, S) ==
    /\ running[done] > 0 /\ Room(S \ {done})
    /\ running' = [t \in Tasks |-> running[t] + (IF t \in S THEN 1 ELSE 0)
                                              - (IF t = done THEN 1 ELSE 0)]

-----------------------------------------------------------------------------
\* Requests

\* FindPendingByProvider
Pending(p) == {r \in Members : req[<<r, p>>] = "pending"}

\* The registered connections of the user of p.
ConnsOf(p) == {c \in up : Owner[c] = UserOf[p]}

\* History: what was sent about an earlier request does not count for this one.
Renewed(r, p) ==
    /\ told' = {q \in told : q[1] # r \/ q[2] # p}
    /\ missed' = {q \in missed : q[1] # r \/ q[2] # p}
    /\ due' = due \ {<<r, p>>}

\* Mutant: a request is stored, and the provider told only when it connects.
Request_Silent(r, p) ==
    /\ <<r, p>> \in Asking
    /\ req' = [req EXCEPT ![<<r, p>>] = "pending"]
    /\ Renewed(r, p)
    /\ UNCHANGED <<keys, dist, up, running, fetched>>

\* CreateSenderKeyRequest: Upsert makes the request pending, also one that was
\* fulfilled, then notifyProvider is started.  The provider is looked up by its
\* member id alone.
Request(r, p) ==
    /\ <<r, p>> \in Asking
    /\ req' = [req EXCEPT ![<<r, p>>] = "pending"]
    /\ Renewed(r, p)
    /\ StartTasks({<<"needed", r, p>>})
    /\ UNCHANGED <<keys, dist, up, fetched>>

\* SendToUser: some of the connections of p's user get the message.
Notify(r, p) ==
    \E reached \in SUBSET ConnsOf(p) :
        /\ told' = told \cup {<<r, p, c>> : c \in reached}
        /\ missed' = missed \cup {<<r, p, c>> : c \in ConnsOf(p) \ reached}

\* Mutant: a request counts as fulfilled once the provider is told.
SendNeeded_Mark(r, p) ==
    /\ ReplaceTask(<<"needed", r, p>>, {<<"mark", r, p>>})
    /\ Notify(r, p)
    /\ UNCHANGED <<keys, req, dist, up, fetched, due>>

\* notifyProvider, notifyForMember.
SendNeeded(r, p) ==
    /\ ReplaceTask(<<"needed", r, p>>, {})
    /\ Notify(r, p)
    /\ UNCHANGED <<keys, req, dist, up, fetched, due>>

\* The hub registers a connection, then starts the onConnect hook.
Connect(c) ==
    /\ c \notin up
    /\ up' = up \cup {c}
    /\ StartTasks({<<"hook", m, m>> : m \in {n \in Members : UserOf[n] = Owner[c]}})
    /\ UNCHANGED <<keys, req, dist, told, fetched, missed, due>>

\* NotifyPendingSenderKeyRequests for one membership of the user.
HookFind(p) ==
    /\ ReplaceTask(<<"hook", p, p>>, {<<"needed", r, p>> : r \in Pending(p)})
    /\ UNCHANGED <<keys, req, dist, up, told, fetched, missed, due>>

Disconnect(c) ==
    /\ c \in up
    /\ up' = up \ {c}
    /\ told' = {q \in told : q[3] # c}
    /\ missed' = {q \in missed : q[3] # c}
    /\ UNCHANGED <<keys, req, dist, running, fetched, due>>

-----------------------------------------------------------------------------
\* Keys

\* UploadSenderKey: Add fails if the member has a key; otherwise
\* notifyRequesters is started.
Upload(p) ==
    /\ p \notin keys
    /\ keys' = keys \cup {p}
    /\ StartTasks({<<"upload", p, p>>})
    /\ due' = due \cup {<<r, p>> : r \in Pending(p)}
    /\ UNCHANGED <<req, dist, up, told, fetched, missed>>

\* Mutant: the requests found are answered, but not closed.
SendReady_NoMark(r, p) ==
    /\ ReplaceTask(<<"ready", r, p>>, {})
    /\ UNCHANGED <<keys, req, dist, up, told, fetched, missed, due>>

UploadFind(p) ==
    /\ ReplaceTask(<<"upload", p, p>>, {<<"ready", r, p>> : r \in Pending(p)})
    /\ UNCHANGED <<keys, req, dist, up, told, fetched, missed, due>>

\* SendToUser, then MarkFulfilled.
SendReady(r, p) ==
    /\ ReplaceTask(<<"ready", r, p>>, {<<"mark", r, p>>})
    /\ UNCHANGED <<keys, req, dist, up, told, fetched, missed, due>>

\* UPDATE ... WHERE fulfilled_at IS NULL
MarkFulfilled(r, p) ==
    /\ ReplaceTask(<<"mark", r, p>>, {})
    /\ req' = [req EXCEPT ![<<r, p>>] = IF @ = "pending" THEN "fulfilled" ELSE @]
    /\ UNCHANGED <<keys, dist, up, told, fetched, missed, due>>

Roommates(m) == {n \in Members : RoomOf[n] = RoomOf[m]}

\* Mutant: a fetch is recorded for every other member of the room.
GetSenderKeys_RecordAll(r) ==
    /\ fetched' = fetched \cup {<<r, s>> : s \in keys \cap Roommates(r)}
    /\ StartTasks({<<"record", r, s>> : s \in Roommates(r) \ {r}})
    /\ UNCHANGED <<keys, req, dist, up, told, missed, due>>

\* GetSenderKeys: the keys of the room are returned, recordDistributions is
\* started for those of others.
GetSenderKeys(r) ==
    /\ fetched' = fetched \cup {<<r, s>> : s \in keys \cap Roommates(r)}
    /\ StartTasks({<<"record", r, s>> : s \in (keys \cap Roommates(r)) \ {r}})
    /\ UNCHANGED <<keys, req, dist, up, told, missed, due>>

\* UpsertBatch, one pair at a time.
Record(r, s) ==
    /\ ReplaceTask(<<"record", r, s>>, {})
    /\ dist' = dist \cup {<<r, s>>}
    /\ UNCHANGED <<keys, req, up, told, fetched, missed, due>>

\* FindPendingReceivers and the two lists of GetSenderKeyDistributionStatus.
FindPendingReceivers(s) == {r \in Roommates(s) \ {s} : <<r, s>> \notin dist}
PendingReceivers(s) == IF s \in keys THEN FindPendingReceivers(s) ELSE {}
PendingFromMembers(r) == {s \in (Roommates(r) \ {r}) \cap keys : r \in FindPendingReceivers(s)}

-----------------------------------------------------------------------------
\* Failures

\* A query of a goroutine fails.  The search for requests is given up; a single
\* request is passed over, and the others go on.
TaskFails(t) ==
    /\ Faulty /\ ReplaceTask(t, {})
    /\ missed' = missed \cup
           (CASE t[1] = "hook" -> Members \X {t[3]} \X ConnsOf(t[3])
              [] t[1] = "needed" -> {t[2]} \X {t[3]} \X ConnsOf(t[3])
              [] OTHER -> {})
    /\ due' = {q \in due : /\ t[1] = "upload" => q[2] # t[3]
                           /\ t[1] \in {"ready", "mark"} => q # <<t[2], t[3]>>}
    /\ UNCHANGED <<keys, req, dist, up, told, fetched>>

\* The process dies: goroutines and connections are gone, the tables stay.
Crash ==
    /\ Faulty
    /\ running' = [t \in Tasks |-> 0]
    /\ up' = {} /\ told' = {} /\ missed' = {} /\ due' = {}
    /\ UNCHANGED <<keys, req, dist, fetched>>

PairTask(r, p) == SendNeeded(r, p) \/ SendReady(r, p) \/ MarkFulfilled(r, p) \/ Record(r, p)
MemberTask(p) == HookFind(p) \/ UploadFind(p)

Next ==
    \/ \E r, p \in Members : Request(r, p) \/ PairTask(r, p)
    \/ \E p \in Members : Upload(p) \/ GetSenderKeys(p) \/ MemberTask(p)
    \/ \E c \in Conns : Connect(c) \/ Disconnect(c)
    \/ \E t \in Tasks : TaskFails(t)
    \/ Crash

Spec == Init /\ [][Next]_vars

-----------------------------------------------------------------------------
\* Properties

TypeOK ==
    /\ keys \subseteq Members
    /\ req \in [Pairs -> {"none", "pending", "fulfilled"}]
    /\ dist \subseteq Pairs
    /\ up \subseteq Conns
    /\ running \in [Tasks -> 0..MaxSame]
    /\ told \subseteq Members \X Members \X Conns
    /\ missed \subseteq Members \X Members \X Conns
    /\ fetched \subseteq Pairs
    /\ due \subseteq Pairs

\* No request falls between "online" and "offline": every connection of the
\* provider of a pending request has been sent it since it was made, or a goroutine
\* that will send it is running, unless a send missed this connection or a query
\* failed.  It holds because a request is stored before the send, and a connection
\* is registered before the hook looks (CreateSenderKeyRequest, Hub.Run, onConnect).
NoMissedRequest ==
    \A r, p \in Members : req[<<r, p>>] = "pending" => \A c \in ConnsOf(p) :
        \/ <<r, p, c>> \in told \cup missed
        \/ running[<<"needed", r, p>>] > 0
        \/ running[<<"hook", p, p>>] > 0

\* A request is closed only if its provider has uploaded a key, whichever
\* goroutine closes it and however late.
FulfilledHasKey == \A q \in Pairs : req[q] = "fulfilled" => q[2] \in keys

\* The status never tells a sender that a member has its key when the member
\* was never given it, nor a member that it has a key it was not given.
NeverFalselyFetched ==
    \A s \in keys : \A r \in Roommates(s) \ {s} : <<r, s>> \notin fetched =>
        r \in PendingReceivers(s) /\ s \in PendingFromMembers(r)

\* A request that waits when its provider's key is added is not forgotten: it
\* is closed, or a goroutine of the upload is still on its way to it, unless that
\* goroutine failed at this request, or at the search for all of them.
NoForgottenRequest ==
    \A r, p \in Members :
        (<<r, p>> \in due /\ req[<<r, p>>] = "pending") =>
            \/ running[<<"upload", p, p>>] > 0
            \/ running[<<"ready", r, p>>] > 0
            \/ running[<<"mark", r, p>>] > 0
=============================================================================
