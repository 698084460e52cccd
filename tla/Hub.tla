-------------------------------- MODULE Hub --------------------------------
(***************************************************************************)
(* The WebSocket hub (internal/interface/ws): the event loop of Hub.Run,   *)
(* the connections' pumps, and the goroutines that call Hub.SendToUser     *)
(* while the loop registers and unregisters connections.                   *)
(*                                                                         *)
(* Go slices are modelled as they are: userClients[u] is a header (array,  *)
(* len) over a backing array, append reuses the array while it has room,   *)
(* and removeUserClient shifts the array in place, one cell at a time,     *)
(* while a SendToUser that copied the header earlier is still iterating    *)
(* over it.  A send on a closed channel panics: the callers that recover   *)
(* (fanOut) lose the rest of their fan-out, any other takes the process    *)
(* down.                                                                   *)
(*                                                                         *)
(* Messages are abstracted to the user they are addressed to.              *)
(***************************************************************************)
EXTENDS Naturals, Sequences, FiniteSets

CONSTANTS
    Users,       \* user ids that connect (the /ws/ route requires a login)
    Clients,     \* *Client objects, one per WebSocket connection
    UserOf,      \* Client.UserID
    FanOuts,     \* goroutines running SendMessage's fanOut: they recover
    Pushers,     \* goroutines of the other callers of SendToUser: they do not
    Members,     \* the users fanOut sends to, in the order FindByRoom returns:
                 \* no two alike (UNIQUE (room_id, participant_id) in chat_members)
    SendCap,     \* capacity of Client.send (256 in NewClient)
    NoClient     \* an array cell append has not written yet

ASSUME HubAssumption ==
    /\ UserOf \in [Clients -> Users]
    /\ NoClient \notin Clients
    /\ FanOuts \cap Pushers = {}
    /\ Members \in Seq(Users) /\ Members # <<>>
    /\ \A j, k \in 1..Len(Members) : Members[j] = Members[k] => j = k
    /\ SendCap \in Nat \ {0}

Senders == FanOuts \cup Pushers

\* The addressee of a message put into the Broadcast channel.
Everyone == "everyone"

VARIABLES
    conn,     \* life of a connection: none, registering, up, leaving, gone
    clients,  \* Hub.clients, touched by the loop only
    open,     \* the clients whose send channel is not closed
    buf,      \* Client.send: the addressees of the queued messages
    heap,     \* backing arrays allocated for each user, oldest first
    slice,    \* Hub.userClients: header [arr, len]; arr = 0: no entry
    hub,      \* where Run is: [pc, cl, i]; it holds mu when pc = "shift"
    call,     \* each sender's SendToUser: [pc, todo, arr, len, i, tgt]
    track,    \* history of that call: [want, tried, disturbed]
    down      \* the process died of a panic nobody recovers

vars == <<conn, clients, open, buf, heap, slice, hub, call, track, down>>

hubVars == <<clients, heap, slice, hub>>

-----------------------------------------------------------------------------
\* Slices

NoSlice == [arr |-> 0, len |-> 0]

\* The cells a header covers, as a reader that iterates over it now sees them.
View(u, h) == [k \in 1..h.len |-> heap[u][h.arr][k]]

Indexed(u) == {View(u, slice[u])[k] : k \in 1..slice[u].len}

\* append(userClients[u], c): in place if the array has room, otherwise a copy
\* in a new array of twice the capacity (1 for a nil slice).
AppendClient(u, c) ==
    LET h == slice[u]
        full == IF h.arr = 0 THEN TRUE ELSE h.len = Len(heap[u][h.arr])
        cap == IF h.arr = 0 THEN 1 ELSE 2 * Len(heap[u][h.arr])
    IN IF full
       THEN /\ heap' = [heap EXCEPT ![u] = Append(@,
                   [k \in 1..cap |-> IF k <= h.len THEN heap[u][h.arr][k]
                                     ELSE IF k = h.len + 1 THEN c ELSE NoClient])]
            /\ slice' = [slice EXCEPT ![u] = [arr |-> Len(heap[u]) + 1, len |-> h.len + 1]]
       ELSE /\ heap' = [heap EXCEPT ![u][h.arr][h.len + 1] = c]
            /\ slice' = [slice EXCEPT ![u].len = h.len + 1]

-----------------------------------------------------------------------------
\* Initial state: NewHub, no connection, no call in progress

HubIdle == [pc |-> "idle", cl |-> NoClient, i |-> 0]
CallIdle == [pc |-> "idle", todo |-> <<>>, arr |-> 0, len |-> 0, i |-> 0, tgt |-> NoClient]
NoTrack == [want |-> {}, tried |-> <<>>, disturbed |-> FALSE]

Init ==
    /\ conn = [c \in Clients |-> "none"]
    /\ clients = {}
    /\ open = {}
    /\ buf = [c \in Clients |-> <<>>]
    /\ heap = [u \in Users |-> <<>>]
    /\ slice = [u \in Users |-> NoSlice]
    /\ hub = HubIdle
    /\ call = [s \in Senders |-> CallIdle]
    /\ track = [s \in Senders |-> NoTrack]
    /\ down = FALSE

-----------------------------------------------------------------------------
\* Connections

\* The /ws/ handler: NewClient, then blocked on hub.Register <- client.
Upgrade(c) ==
    /\ ~down /\ conn[c] = "none"
    /\ conn' = [conn EXCEPT ![c] = "registering"]
    /\ open' = open \cup {c}
    /\ UNCHANGED <<hubVars, buf, call, track, down>>

\* ReadPump leaves its loop (close frame, read error, missed pong) and blocks
\* on hub.Unregister <- c.
ReadPumpExit(c) ==
    /\ ~down /\ conn[c] = "up"
    /\ conn' = [conn EXCEPT ![c] = "leaving"]
    /\ UNCHANGED <<hubVars, open, buf, call, track, down>>

\* WritePump takes the next message off the channel and writes it; it goes on
\* draining a closed channel.  A pump that has returned (write error) is one that
\* never takes this step again: no fairness is assumed of it.
WritePump(c) ==
    /\ ~down /\ conn[c] \in {"up", "leaving", "gone"} /\ buf[c] # <<>>
    /\ buf' = [buf EXCEPT ![c] = Tail(@)]
    /\ UNCHANGED <<hubVars, conn, open, call, track, down>>

-----------------------------------------------------------------------------
\* Hub.Run

\* Mutant: the index is filed under some other user's id.
HubRegister_WrongUser(c) ==
    /\ ~down /\ hub.pc = "idle" /\ conn[c] = "registering"
    /\ conn' = [conn EXCEPT ![c] = "up"]
    /\ clients' = clients \cup {c}
    /\ \E u \in Users : AppendClient(u, c)
    /\ UNCHANGED <<open, buf, hub, call, track, down>>

\* case client := <-h.Register.  The append is one cell write under mu.
HubRegister(c) ==
    /\ ~down /\ hub.pc = "idle" /\ conn[c] = "registering"
    /\ conn' = [conn EXCEPT ![c] = "up"]
    /\ clients' = clients \cup {c}
    /\ AppendClient(UserOf[c], c)
    /\ UNCHANGED <<open, buf, hub, call, track, down>>

\* Mutant: the client stays in the user index.
HubUnregister_KeepIndexed(c) ==
    /\ ~down /\ hub.pc = "idle" /\ conn[c] = "leaving"
    /\ conn' = [conn EXCEPT ![c] = "gone"]
    /\ clients' = clients \ {c}
    /\ open' = open \ {c}
    /\ UNCHANGED <<buf, heap, slice, hub, call, track, down>>

\* case client := <-h.Unregister: delete(h.clients, client), close(client.send).
\* Removing the client from the index comes later in the same case, under mu.
HubUnregister(c) ==
    /\ ~down /\ hub.pc = "idle" /\ conn[c] = "leaving"
    /\ conn' = [conn EXCEPT ![c] = "gone"]
    /\ clients' = clients \ {c}
    /\ open' = IF c \in clients THEN open \ {c} ELSE open
    /\ hub' = IF c \in clients THEN [pc |-> "lock", cl |-> c, i |-> 0] ELSE hub
    /\ UNCHANGED <<buf, heap, slice, call, track, down>>

\* The calls whose header lies over the array of u's current slice.
Disturbs(s, u) ==
    /\ call[s].pc \in {"load", "send"}
    /\ Head(call[s].todo) = u
    /\ call[s].arr = slice[u].arr

\* h.mu.Lock() and the search of removeUserClient.  A call that still iterates
\* over this array is disturbed from here on.
HubLock ==
    LET u == UserOf[hub.cl]
        at == {k \in 1..slice[u].len : heap[u][slice[u].arr][k] = hub.cl}
    IN /\ ~down /\ hub.pc = "lock"
       /\ hub' = IF at = {} THEN HubIdle
                 ELSE [hub EXCEPT !.pc = "shift",
                                  !.i = CHOOSE k \in at : \A l \in at : k <= l]
       /\ track' = [s \in Senders |->
              [track[s] EXCEPT !.disturbed = @ \/ (at # {} /\ Disturbs(s, u))]]
       /\ UNCHANGED <<clients, heap, slice, conn, open, buf, call, down>>

\* append(clients[:i], clients[i+1:]...) moves the tail down cell by cell, in
\* the array that concurrent readers share ...
HubShift ==
    LET u == UserOf[hub.cl]
        a == slice[u].arr
    IN /\ ~down /\ hub.pc = "shift" /\ hub.i < slice[u].len
       /\ heap' = [heap EXCEPT ![u][a][hub.i] = heap[u][a][hub.i + 1]]
       /\ hub' = [hub EXCEPT !.i = @ + 1]
       /\ UNCHANGED <<clients, slice, conn, open, buf, call, track, down>>

\* Mutant: the entry is deleted whenever a client leaves.
HubRemoved_DropEntry ==
    /\ ~down /\ hub.pc = "shift" /\ hub.i = slice[UserOf[hub.cl]].len
    /\ slice' = [slice EXCEPT ![UserOf[hub.cl]] = NoSlice]
    /\ hub' = HubIdle
    /\ UNCHANGED <<clients, heap, conn, open, buf, call, track, down>>

\* ... then the shorter header is stored, an empty entry deleted, mu unlocked.
HubRemoved ==
    LET u == UserOf[hub.cl]
    IN /\ ~down /\ hub.pc = "shift" /\ hub.i = slice[u].len
       /\ slice' = [slice EXCEPT ![u] = IF @.len = 1 THEN NoSlice
                                        ELSE [arr |-> @.arr, len |-> @.len - 1]]
       /\ hub' = HubIdle
       /\ UNCHANGED <<clients, heap, conn, open, buf, call, track, down>>

\* Client.Send on an open channel: enqueued, or dropped if the buffer is full.
Enqueued(b, m) == IF Len(b) < SendCap THEN Append(b, m) ELSE b

\* case message := <-h.Broadcast: Send to every registered client.
HubBroadcast ==
    /\ ~down /\ hub.pc = "idle" /\ clients # {}
    /\ down' = (clients \ open # {})
    /\ buf' = [c \in Clients |->
          IF c \in clients \cap open THEN Enqueued(buf[c], Everyone) ELSE buf[c]]
    /\ UNCHANGED <<hubVars, conn, open, call, track>>

-----------------------------------------------------------------------------
\* Callers of SendToUser

\* fanOut starts with the room's members, any other caller with one user.
SendStart(s) ==
    /\ ~down /\ call[s].pc = "idle"
    /\ \E us \in (IF s \in FanOuts THEN {Members} ELSE {<<u>> : u \in Users}) :
           call' = [call EXCEPT ![s] = [CallIdle EXCEPT !.pc = "snap", !.todo = us]]
    /\ UNCHANGED <<hubVars, conn, open, buf, track, down>>

\* clients := h.userClients[userID] under mu.RLock: only the header is copied.
SendSnapshot(s) ==
    LET u == Head(call[s].todo)
    IN /\ ~down /\ call[s].pc = "snap" /\ hub.pc # "shift"
       /\ call' = [call EXCEPT ![s] = [@ EXCEPT !.pc = "load", !.i = 1,
                      !.arr = slice[u].arr, !.len = slice[u].len]]
       /\ track' = [track EXCEPT ![s].want = @ \cup Indexed(u)]
       /\ UNCHANGED <<hubVars, conn, open, buf, down>>

\* The range loop reads the next cell of the array the header points to.
SendLoad(s) ==
    /\ ~down /\ call[s].pc = "load" /\ call[s].i <= call[s].len
    /\ call' = [call EXCEPT ![s].pc = "send",
           ![s].tgt = heap[Head(call[s].todo)][call[s].arr][call[s].i]]
    /\ UNCHANGED <<hubVars, conn, open, buf, track, down>>

\* Mutant: a full buffer ends the loop instead of dropping one message.
SendDeliver_StopWhenFull(s) ==
    LET c == call[s].tgt
        more == Len(buf[c]) < SendCap
    IN /\ ~down /\ call[s].pc = "send" /\ c \in open
       /\ buf' = [buf EXCEPT ![c] = Enqueued(@, Head(call[s].todo))]
       /\ call' = [call EXCEPT ![s].pc = "load", ![s].i = IF more THEN @ + 1 ELSE call[s].len + 1]
       /\ track' = [track EXCEPT ![s].tried = Append(@, c)]
       /\ UNCHANGED <<hubVars, conn, open, down>>

\* Mutant: the send waits for room (no default case in the select).
SendDeliver_Blocking(s) ==
    LET c == call[s].tgt
    IN /\ ~down /\ call[s].pc = "send" /\ c \in open /\ Len(buf[c]) < SendCap
       /\ buf' = [buf EXCEPT ![c] = Append(@, Head(call[s].todo))]
       /\ call' = [call EXCEPT ![s].pc = "load", ![s].i = @ + 1]
       /\ track' = [track EXCEPT ![s].tried = Append(@, c)]
       /\ UNCHANGED <<hubVars, conn, open, down>>

\* c.Send(msg) on an open channel.
SendDeliver(s) ==
    LET c == call[s].tgt
    IN /\ ~down /\ call[s].pc = "send" /\ c \in open
       /\ buf' = [buf EXCEPT ![c] = Enqueued(@, Head(call[s].todo))]
       /\ call' = [call EXCEPT ![s].pc = "load", ![s].i = @ + 1]
       /\ track' = [track EXCEPT ![s].tried = Append(@, c)]
       /\ UNCHANGED <<hubVars, conn, open, down>>

\* c.Send(msg) on a closed channel panics.  fanOut recovers and returns, which
\* gives up its remaining recipients; any other goroutine ends the process.
SendPanic(s) ==
    /\ ~down /\ call[s].pc = "send" /\ call[s].tgt \notin open
    /\ call' = [call EXCEPT ![s] = CallIdle]
    /\ down' = (s \notin FanOuts)
    /\ track' = [track EXCEPT ![s] = NoTrack]
    /\ UNCHANGED <<hubVars, conn, open, buf>>

\* SendToUser returns; fanOut goes on with the next member.
SendReturn(s) ==
    LET rest == Tail(call[s].todo)
    IN /\ ~down /\ call[s].pc = "load" /\ call[s].i > call[s].len
       /\ call' = [call EXCEPT ![s] = IF rest = <<>> THEN CallIdle
                                      ELSE [CallIdle EXCEPT !.pc = "snap", !.todo = rest]]
       /\ track' = [track EXCEPT ![s] = IF rest = <<>> THEN NoTrack ELSE @]
       /\ UNCHANGED <<hubVars, conn, open, buf, down>>

-----------------------------------------------------------------------------
\* The process is started again; its connections are gone.
Restart ==
    /\ down
    /\ conn' = [c \in Clients |-> "none"]
    /\ clients' = {}
    /\ open' = {}
    /\ buf' = [c \in Clients |-> <<>>]
    /\ heap' = [u \in Users |-> <<>>]
    /\ slice' = [u \in Users |-> NoSlice]
    /\ hub' = HubIdle
    /\ call' = [s \in Senders |-> CallIdle]
    /\ track' = [s \in Senders |-> NoTrack]
    /\ down' = FALSE

ClientStep(c) ==
    Upgrade(c) \/ ReadPumpExit(c) \/ WritePump(c)

HubStep ==
    \/ \E c \in Clients : HubRegister(c) \/ HubUnregister(c)
    \/ HubLock \/ HubShift \/ HubRemoved \/ HubBroadcast

SenderStep(s) ==
    \/ SendStart(s) \/ SendSnapshot(s) \/ SendLoad(s)
    \/ SendDeliver(s) \/ SendPanic(s) \/ SendReturn(s)

Next ==
    \/ \E c \in Clients : ClientStep(c)
    \/ HubStep
    \/ \E s \in Senders : SenderStep(s)
    \/ Restart

Spec == Init /\ [][Next]_vars

\* A case of Run's select that stays ready is chosen eventually (select picks
\* at random and a channel serves its blocked senders in order); the loop and
\* the calls run on; RWMutex starves neither side.  Nothing is assumed of
\* connections, of the sockets, or of who starts a call.
Fairness ==
    /\ \A c \in Clients : SF_vars(HubRegister(c)) /\ SF_vars(HubUnregister(c))
    /\ WF_vars(HubLock \/ HubShift \/ HubRemoved)
    /\ \A s \in Senders :
          /\ SF_vars(SendSnapshot(s))
          /\ WF_vars(SendLoad(s) \/ SendDeliver(s) \/ SendPanic(s) \/ SendReturn(s))

FairSpec == Spec /\ Fairness

-----------------------------------------------------------------------------
\* Properties

TypeOK ==
    /\ conn \in [Clients -> {"none", "registering", "up", "leaving", "gone"}]
    /\ clients \subseteq Clients
    /\ open \subseteq Clients
    /\ buf \in [Clients -> Seq(Users \cup {Everyone})]
    /\ \A c \in Clients : Len(buf[c]) <= SendCap
    /\ heap \in [Users -> Seq(Seq(Clients \cup {NoClient}))]
    /\ slice \in [Users -> [arr : Nat, len : Nat]]
    /\ hub \in [pc : {"idle", "lock", "shift"}, cl : Clients \cup {NoClient}, i : Nat]
    /\ call \in [Senders -> [pc : {"idle", "snap", "load", "send"}, todo : Seq(Users),
                             arr : Nat, len : Nat, i : Nat,
                             tgt : Clients \cup {NoClient}]]
    /\ track \in [Senders -> [want : SUBSET Clients, tried : Seq(Clients),
                              disturbed : BOOLEAN]]
    /\ down \in BOOLEAN

\* Between two events of the loop the three views of a connection agree: the
\* index of a user (userClients) lists each registered client of that user once
\* and nobody else, and exactly the registered clients have an open channel, so
\* that neither the loop's broadcast nor a call starting and ending now can
\* panic (Run deletes a client before it closes its channel; removeUserClient).
IndexMatchesRegistry ==
    hub.pc = "idle" =>
        /\ \A u \in Users :
              /\ Indexed(u) = {c \in clients : UserOf[c] = u}
              /\ slice[u].len = Cardinality(Indexed(u))
        /\ clients = {c \in open : conn[c] # "registering"}

\* Whatever the loop does to a shared array under a running SendToUser, a
\* message reaches only connections of the user it is addressed to.
NoCrossDelivery ==
    \A c \in Clients : \A k \in 1..Len(buf[c]) :
        buf[c][k] \in {UserOf[c], Everyone}

\* A SendToUser (or a whole fanOut) during which no connection was removed from
\* an array it was iterating over tries each connection that was in the index
\* when it looked exactly once: appends by Register never disturb it.  (One that
\* a removal overlaps may skip a connection that stays active.)
UndisturbedCallIsExact ==
    \A s \in Senders :
        (call[s].pc = "load" /\ call[s].i > call[s].len /\ ~track[s].disturbed) =>
            /\ track[s].want = {track[s].tried[k] : k \in 1..Len(track[s].tried)}
            /\ Len(track[s].tried) = Cardinality(track[s].want)

\* "Safe to call from any goroutine": no call panics.
SafeFromAnyGoroutine == ~down

\* A connection whose ReadPump ended is removed from the index and its channel
\* closed, whatever the callers do, unless the process dies first.
LeavingIsRemoved ==
    \A c \in Clients : conn[c] = "leaving" ~>
        \/ down
        \/ conn[c] = "gone" /\ c \notin open /\ c \notin Indexed(UserOf[c])

\* SendToUser never blocks: every call returns, even one that finds mu held or
\* a buffer full, unless the process dies first.
CallsReturn ==
    \A s \in Senders : call[s].pc # "idle" ~> (call[s].pc = "idle" \/ down)
=============================================================================
