------------------------------ MODULE Delivery ------------------------------
(***************************************************************************)
(* At-least-once delivery of server events (internal/infrastructure/push,  *)
(* the delivery_queue table, and the hub's PushAndWaitAck / ResolveAck):   *)
(* Dispatch stores a pending row and pushes it at once; the retry          *)
(* scheduler pushes old pending rows again; a push registers a channel     *)
(* under the delivery id, sends, and waits for the client's system.ack or  *)
(* for its timeout; an acknowledged push marks the row delivered.          *)
(*                                                                         *)
(* A push is a goroutine, named by the row and a slot.  Slots bounds how   *)
(* many pushes of one row may overlap: the timers (5 s push, 30 s age, 60  *)
(* s tick) keep them apart in normal running, a suspended process does     *)
(* not.  Connections and sends are those of module Hub, reduced to what a  *)
(* push can observe: which connections its message reaches.                *)
(***************************************************************************)
EXTENDS Naturals, Sequences

CONSTANTS
    Items,      \* delivery_queue.id
    Users,
    Addressee,  \* delivery_queue.user_id
    Conns,      \* connections
    UserOf,     \* the user of a connection
    Slots,      \* bound: pushes of one row in progress at the same time
    NoSlot,
    SendCap,    \* messages queued on one connection
    Idle        \* the ack handler of a connection is not in ResolveAck

ASSUME DeliveryAssumption ==
    /\ Addressee \in [Items -> Users]
    /\ UserOf \in [Conns -> Users]
    /\ NoSlot \notin Slots
    /\ Idle \notin Items \X Slots
    /\ SendCap \in Nat \ {0}

VARIABLES
    row,        \* delivery_queue.status; "none": not inserted yet
    old,        \* rows created more than pendingAge ago
    up,         \* the connections registered with the hub
    inbox,      \* messages on their way to the client, per connection
    acks,       \* system.ack messages on their way back
    resolving,  \* the push whose channel ResolveAck looked up, per connection
    pendingAcks,\* Hub.pendingAcks: delivery id to the push's channel
    pc,         \* where each push is
    full,       \* the pushes whose ackCh holds a token
    got,        \* history: items a client of their addressee has received
    stray,      \* history: items acknowledged out of turn (StrayAck)
    stable      \* from now on nothing fails and clients answer in time

jobVars == <<pc, full, pendingAcks>>
netVars == <<up, inbox, acks, resolving>>
vars == <<row, old, netVars, jobVars, got, stray, stable>>

Jobs == Items \X Slots

PCs == {"idle", "start", "send", "wait", "acked", "timedout", "mark"}

Init ==
    /\ row = [i \in Items |-> "none"]
    /\ old = {}
    /\ up = {}
    /\ inbox = [c \in Conns |-> <<>>]
    /\ acks = [c \in Conns |-> <<>>]
    /\ resolving = [c \in Conns |-> Idle]
    /\ pendingAcks = [i \in Items |-> NoSlot]
    /\ pc = [j \in Jobs |-> "idle"]
    /\ full = {}
    /\ got = {}
    /\ stray = {}
    /\ stable = FALSE

\* A slot whose last push has ended and whose channel no handler still holds.
Free(j) == pc[j] = "idle" /\ \A c \in Conns : resolving[c] # j

-----------------------------------------------------------------------------
\* Enqueue and retry

\* Dispatch: Enqueue inserts a pending row, then go pushAndTrack.  (If the
\* insert fails Dispatch returns the error and nothing has changed.)
Dispatch(i) ==
    /\ row[i] = "none"
    /\ row' = [row EXCEPT ![i] = "pending"]
    /\ \E k \in Slots :
          /\ Free(<<i, k>>)
          /\ pc' = [pc EXCEPT ![<<i, k>>] = "start"]
    /\ UNCHANGED <<old, netVars, full, pendingAcks, got, stray, stable>>

\* Time passes: created_at < now - pendingAge becomes true of the row.
Age(i) ==
    /\ row[i] = "pending" /\ i \notin old
    /\ old' = old \cup {i}
    /\ UNCHANGED <<row, netVars, jobVars, got, stray, stable>>

\* Mutant: the cutoff compares the wrong way round.
FindPendingOlderThan_Younger == {i \in Items : row[i] = "pending" /\ i \notin old}
\* SELECT ... WHERE status = 'pending' AND created_at < cutoff
FindPendingOlderThan == {i \in Items : row[i] = "pending" /\ i \in old}

\* A tick of RetryScheduler: one goroutine for each row found.  By the time the
\* goroutine runs, the row may have been delivered by another push.  While stable,
\* the pushes of the last tick are over: they take 5 s, the ticker 60 s.
Retry ==
    LET found == FindPendingOlderThan
    IN /\ found # {}
       /\ stable => \A j \in Jobs : j[1] \in found => pc[j] = "idle"
       /\ \E slot \in [found -> Slots] :
             /\ \A i \in found : Free(<<i, slot[i]>>)
             /\ pc' = [j \in Jobs |-> IF j[1] \in found /\ slot[j[1]] = j[2]
                                      THEN "start" ELSE pc[j]]
       /\ UNCHANGED <<row, old, netVars, full, pendingAcks, got, stray, stable>>

-----------------------------------------------------------------------------
\* PushAndWaitAck, then MarkDelivered

\* ackCh := make(chan struct{}, 1); pendingAcks[deliveryID] = ackCh
PushRegister(j) ==
    /\ pc[j] = "start"
    /\ pc' = [pc EXCEPT ![j] = "send"]
    /\ pendingAcks' = [pendingAcks EXCEPT ![j[1]] = j[2]]
    /\ full' = full \ {j}
    /\ UNCHANGED <<row, old, netVars, got, stray, stable>>

\* The connections a SendToUser for item i can reach.
Reachable(i) == {c \in up : UserOf[c] = Addressee[i] /\ Len(inbox[c]) < SendCap}

\* h.SendToUser(userID, data).  Offline, or with a full buffer, nobody gets it;
\* while connections come and go some may be missed (Hub).
PushSend(j) ==
    /\ pc[j] = "send"
    /\ pc' = [pc EXCEPT ![j] = "wait"]
    /\ \E reached \in SUBSET Reachable(j[1]) :
          /\ stable => reached = Reachable(j[1])
          /\ inbox' = [c \in Conns |->
                IF c \in reached THEN Append(inbox[c], j[1]) ELSE inbox[c]]
    /\ UNCHANGED <<row, old, up, acks, resolving, full, pendingAcks, got, stray, stable>>

\* case <-ackCh
PushAcked(j) ==
    /\ pc[j] = "wait" /\ j \in full
    /\ pc' = [pc EXCEPT ![j] = "acked"]
    /\ full' = full \ {j}
    /\ UNCHANGED <<row, old, netVars, pendingAcks, got, stray, stable>>

\* The message, or its ack, is still under way.
InTransit(i) ==
    \/ \E k \in Slots : <<i, k>> \in full /\ pc[<<i, k>>] = "wait"
    \/ \E c \in Conns :
          \/ \E n \in 1..Len(inbox[c]) : inbox[c][n] = i
          \/ \E n \in 1..Len(acks[c]) : acks[c][n] = i
          \/ \E k \in Slots : resolving[c] = <<i, k>>

\* case <-time.After(timeout): possible even if the ack is already in ackCh,
\* for select chooses at random.  Once stable, acks win.
PushTimeout(j) ==
    /\ pc[j] = "wait"
    /\ stable => ~InTransit(j[1])
    /\ pc' = [pc EXCEPT ![j] = "timedout"]
    /\ UNCHANGED <<row, old, netVars, full, pendingAcks, got, stray, stable>>

\* Mutant: a push that timed out leaves its entry.
PushForget_KeepEntry(j) ==
    /\ pc[j] \in {"acked", "timedout"}
    /\ pendingAcks' = [pendingAcks EXCEPT ![j[1]] = IF pc[j] = "acked" THEN NoSlot ELSE @]
    /\ pc' = [pc EXCEPT ![j] = IF @ = "acked" THEN "mark" ELSE "idle"]
    /\ UNCHANGED <<row, old, netVars, full, got, stray, stable>>

\* Mutant: the row is marked delivered after a timeout too.
PushForget_AlwaysMark(j) ==
    /\ pc[j] \in {"acked", "timedout"}
    /\ pendingAcks' = [pendingAcks EXCEPT ![j[1]] = NoSlot]
    /\ pc' = [pc EXCEPT ![j] = "mark"]
    /\ UNCHANGED <<row, old, netVars, full, got, stray, stable>>

\* delete(h.pendingAcks, deliveryID): it deletes whatever entry is there, also
\* the one of a later push of the same row.
PushForget(j) ==
    /\ pc[j] \in {"acked", "timedout"}
    /\ pendingAcks' = [pendingAcks EXCEPT ![j[1]] = NoSlot]
    /\ pc' = [pc EXCEPT ![j] = IF @ = "acked" THEN "mark" ELSE "idle"]
    /\ UNCHANGED <<row, old, netVars, full, got, stray, stable>>

\* MarkDelivered updates the row by id, whatever its status ...
MarkDelivered(j) ==
    /\ pc[j] = "mark"
    /\ row' = [row EXCEPT ![j[1]] = "delivered"]
    /\ pc' = [pc EXCEPT ![j] = "idle"]
    /\ UNCHANGED <<old, netVars, full, pendingAcks, got, stray, stable>>

\* Mutant: after an error the row is set back to pending.
MarkDeliveredFails_Reset(j) ==
    /\ pc[j] = "mark" /\ ~stable
    /\ row' = [row EXCEPT ![j[1]] = "pending"]
    /\ pc' = [pc EXCEPT ![j] = "idle"]
    /\ UNCHANGED <<old, netVars, full, pendingAcks, got, stray, stable>>

\* ... and an error of it is only logged: the row stays pending.
MarkDeliveredFails(j) ==
    /\ pc[j] = "mark" /\ ~stable
    /\ pc' = [pc EXCEPT ![j] = "idle"]
    /\ UNCHANGED <<row, old, netVars, full, pendingAcks, got, stray, stable>>

-----------------------------------------------------------------------------
\* Clients and the ack handler

Connect(c) ==
    /\ c \notin up
    /\ up' = up \cup {c}
    /\ UNCHANGED <<row, old, inbox, acks, resolving, jobVars, got, stray, stable>>

\* The connection ends and with it everything under way on it.  ReadPump runs
\* the handlers itself, so it does not end inside ResolveAck.
Disconnect(c) ==
    /\ c \in up /\ ~stable /\ resolving[c] = Idle
    /\ up' = up \ {c}
    /\ inbox' = [inbox EXCEPT ![c] = <<>>]
    /\ acks' = [acks EXCEPT ![c] = <<>>]
    /\ UNCHANGED <<row, old, resolving, jobVars, got, stray, stable>>

\* The client receives a push and sends system.ack (or, while not stable,
\* fails to).
ClientReceive(c) ==
    /\ c \in up /\ inbox[c] # <<>> /\ Len(acks[c]) < SendCap
    /\ inbox' = [inbox EXCEPT ![c] = Tail(@)]
    /\ got' = got \cup {i \in {Head(inbox[c])} : Addressee[i] = UserOf[c]}
    /\ \/ acks' = [acks EXCEPT ![c] = Append(@, Head(inbox[c]))]
       \/ ~stable /\ acks' = acks
    /\ UNCHANGED <<row, old, up, resolving, jobVars, stray, stable>>

\* A client acknowledges an item that was not pushed to it, or that it has not
\* read yet: a mistaken id, another user's row.
StrayAck(c, i) ==
    /\ c \in up /\ ~stable /\ Len(acks[c]) < SendCap
    /\ acks' = [acks EXCEPT ![c] = Append(@, i)]
    /\ stray' = stray \cup {i}
    /\ UNCHANGED <<row, old, up, inbox, resolving, jobVars, got, stable>>

\* AckHandler.Handle: an ack is taken at its word, whichever connection it came
\* from and whatever was pushed there.
DeliveryID(c) == Head(acks[c])

\* ResolveAck: look the channel of the delivery id up under ackMu ...
ResolveLookup(c) ==
    LET i == DeliveryID(c)
    IN /\ c \in up /\ resolving[c] = Idle /\ acks[c] # <<>>
       /\ acks' = [acks EXCEPT ![c] = Tail(@)]
       /\ resolving' = [resolving EXCEPT ![c] =
              IF pendingAcks[i] = NoSlot THEN Idle ELSE <<i, pendingAcks[i]>>]
       /\ UNCHANGED <<row, old, up, inbox, jobVars, got, stray, stable>>

\* ... then, without the lock, a non-blocking send.  The push may have timed
\* out meanwhile: its channel is garbage and the token is lost with it.
ResolveSend(c) ==
    /\ resolving[c] # Idle
    /\ full' = full \cup {resolving[c]}
    /\ resolving' = [resolving EXCEPT ![c] = Idle]
    /\ UNCHANGED <<row, old, up, inbox, acks, pc, pendingAcks, got, stray, stable>>

-----------------------------------------------------------------------------
\* The process dies; rows survive, the hub and the goroutines do not.
Crash ==
    /\ ~stable
    /\ up' = {}
    /\ inbox' = [c \in Conns |-> <<>>]
    /\ acks' = [c \in Conns |-> <<>>]
    /\ resolving' = [c \in Conns |-> Idle]
    /\ pendingAcks' = [i \in Items |-> NoSlot]
    /\ pc' = [j \in Jobs |-> "idle"]
    /\ full' = {}
    /\ UNCHANGED <<row, old, got, stray, stable>>

\* A period in which every addressee is connected, nothing fails, and clients
\* answer within pushTimeout begins, or ends.
Stabilise ==
    /\ \A i \in Items : \E c \in up : UserOf[c] = Addressee[i]
    /\ stable' = ~stable
    /\ UNCHANGED <<row, old, netVars, jobVars, got, stray>>

PushStep(j) ==
    \/ PushRegister(j) \/ PushSend(j) \/ PushAcked(j) \/ PushTimeout(j)
    \/ PushForget(j) \/ MarkDelivered(j) \/ MarkDeliveredFails(j)

ConnStep(c) == ClientReceive(c) \/ ResolveLookup(c) \/ ResolveSend(c)

Next ==
    \/ \E i \in Items : Dispatch(i) \/ Age(i)
    \/ Retry
    \/ \E j \in Jobs : PushStep(j)
    \/ \E c \in Conns : Connect(c) \/ Disconnect(c) \/ ConnStep(c)
    \/ \E c \in Conns, i \in Items : StrayAck(c, i)
    \/ Crash
    \/ Stabilise

Spec == Init /\ [][Next]_vars

\* Goroutines run, the ticker ticks, time passes, clients read their socket.
\* That connections last, that nothing crashes, or that a client is quick, is
\* not assumed: the liveness property asks for it only while stable.
Fairness ==
    /\ \A i \in Items : WF_vars(Age(i))
    /\ WF_vars(Retry)
    /\ \A j \in Jobs : WF_vars(PushStep(j))
    /\ \A c \in Conns : WF_vars(ConnStep(c))

FairSpec == Spec /\ Fairness

-----------------------------------------------------------------------------
\* Properties

TypeOK ==
    /\ row \in [Items -> {"none", "pending", "delivered"}]
    /\ old \subseteq Items
    /\ up \subseteq Conns
    /\ inbox \in [Conns -> Seq(Items)]
    /\ acks \in [Conns -> Seq(Items)]
    /\ \A c \in Conns : Len(inbox[c]) <= SendCap /\ Len(acks[c]) <= SendCap
    /\ resolving \in [Conns -> Jobs \cup {Idle}]
    /\ pendingAcks \in [Items -> Slots \cup {NoSlot}]
    /\ pc \in [Jobs -> PCs]
    /\ full \subseteq Jobs
    /\ got \subseteq Items
    /\ stray \subseteq Items
    /\ stable \in BOOLEAN

\* The items that a client of their addressee has received, or that some client
\* acknowledged unasked.
Acked == got \cup stray

\* A row is marked delivered only if a client of its addressee received it, or a
\* client's ack named it out of turn, which the server cannot tell apart: not by
\* an ack for another row, a late ack that meets a newer push, a push that timed
\* out or one that went to someone else (pushAndTrack, PushAndWaitAck, ResolveAck).
DeliveredWasReceived == \A i \in Items : row[i] = "delivered" => i \in Acked

\* An entry of pendingAcks always belongs to a push that is still inside
\* PushAndWaitAck and will delete it: the map does not grow with timeouts.
NoLeakedEntry ==
    \A i \in Items : pendingAcks[i] # NoSlot =>
        pc[<<i, pendingAcks[i]>>] \in {"send", "wait", "acked", "timedout"}

\* The queue keeps its promise: rows survive every crash, become delivered only
\* once they were acknowledged, and never pending again.
Promise == INSTANCE DeliveryPromise WITH Items <- Items, status <- row, acknowledged <- Acked
KeepsPromise == Promise!Spec

\* If from some time on the addressees stay connected and answer in time,
\* every pending row is delivered: also one whose first push found the user
\* offline, whose ack was lost, or whose process crashed (RetryScheduler).
EventuallyDelivered ==
    <>[]stable => \A i \in Items : row[i] = "pending" ~> row[i] = "delivered"
=============================================================================
