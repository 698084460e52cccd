--------------------------- MODULE DeliveryProofs ---------------------------
(***************************************************************************)
(* Proofs about Delivery, for any number of rows, users, connections and   *)
(* overlapping pushes.  The argument: a push reaches only connections of   *)
(* its addressee; that one of them received an item, or that a client      *)
(* acknowledged it out of turn (Acked), is the only source of acks, acks   *)
(* of tokens, tokens of acknowledged pushes, and those of delivered rows.                                                *)
(*                                                                         *)
(* The second part is about Messages, what such a push announces: the rows *)
(* that a client pages through, and those it counts as unread              *)
(* (MessagesInv).                                                          *)
(***************************************************************************)
EXTENDS Delivery, Messages, FiniteSetTheorems, WellFoundedInduction, TLAPS

\* Only the addressee's connections carry an item.
OnlyToAddressee ==
    \A c \in Conns : \A n \in 1..Len(inbox[c]) : Addressee[inbox[c][n]] = UserOf[c]

\* Everything that can end in a delivered row stems from a received item, or
\* from one acknowledged out of turn.
Evidence ==
    /\ \A i \in Items : row[i] = "delivered" => i \in Acked
    /\ \A j \in Jobs : pc[j] \in {"acked", "mark"} => j[1] \in Acked
    /\ \A j \in full : j[1] \in Acked
    /\ \A c \in Conns : resolving[c] # Idle => resolving[c][1] \in Acked
    /\ \A c \in Conns : \A n \in 1..Len(acks[c]) : acks[c][n] \in Acked

\* Only enqueued rows are pushed.
Enqueued == \A j \in Jobs : pc[j] # "idle" => row[j[1]] # "none"

IInv == TypeOK /\ OnlyToAddressee /\ Evidence /\ Enqueued

-----------------------------------------------------------------------------
\* Jobs are pairs of an item and a slot.
LEMMA JobParts ==
    \A j \in Jobs : j[1] \in Items /\ j[2] \in Slots /\ j = <<j[1], j[2]>>
BY DEF Jobs

\* What the queues of a connection hold after a send ...
LEMMA QueueAppend ==
    ASSUME NEW S, NEW q \in Seq(S), NEW x \in S
    PROVE  /\ Append(q, x) \in Seq(S)
           /\ Len(Append(q, x)) = Len(q) + 1
           /\ \A n \in 1..Len(Append(q, x)) :
                 \/ n \in 1..Len(q) /\ Append(q, x)[n] = q[n]
                 \/ Append(q, x)[n] = x
OBVIOUS

\* ... and after a receive.
LEMMA QueueTail ==
    ASSUME NEW S, NEW q \in Seq(S), q # <<>>
    PROVE  /\ Tail(q) \in Seq(S) /\ Head(q) \in S
           /\ Len(Tail(q)) = Len(q) - 1
           /\ 1 \in 1..Len(q) /\ Head(q) = q[1]
           /\ \A n \in 1..Len(Tail(q)) : n + 1 \in 1..Len(q) /\ Tail(q)[n] = q[n + 1]
OBVIOUS

\* The queue of a new or a lost connection.
LEMMA EmptyQueue == <<>> \in Seq(Items) /\ Len(<<>>) = 0 /\ 0 <= SendCap
BY DeliveryAssumption

-----------------------------------------------------------------------------
\* The types of Delivery hold in every state.
LEMMA TypeInit == Init => TypeOK
<1> SUFFICES ASSUME Init PROVE TypeOK
  OBVIOUS
<1>1. inbox \in [Conns -> Seq(Items)] /\ acks \in [Conns -> Seq(Items)]
  BY EmptyQueue DEF Init
<1>2. \A c \in Conns : Len(inbox[c]) <= SendCap /\ Len(acks[c]) <= SendCap
  BY EmptyQueue DEF Init
<1> QED BY <1>1, <1>2 DEF Init, TypeOK, PCs

\* No step leaves the types, and no send overfills a queue.
LEMMA TypeStep == TypeOK /\ [Next]_vars => TypeOK'
<1> SUFFICES ASSUME TypeOK, [Next]_vars PROVE TypeOK'
  OBVIOUS
<1> USE DeliveryAssumption, JobParts DEF TypeOK, PCs
<1>1. ASSUME NEW i \in Items, Dispatch(i) PROVE TypeOK'
  BY <1>1 DEF Dispatch, netVars
<1>2. ASSUME NEW i \in Items, Age(i) PROVE TypeOK'
  BY <1>2 DEF Age, netVars, jobVars
<1>3. CASE Retry
  BY <1>3 DEF Retry, netVars
<1>4. ASSUME NEW j \in Jobs, PushRegister(j) PROVE TypeOK'
  BY <1>4 DEF PushRegister, netVars
<1>5. ASSUME NEW j \in Jobs, PushSend(j) PROVE TypeOK'
  <2>1. PICK reached \in SUBSET Reachable(j[1]) :
            inbox' = [c \in Conns |-> IF c \in reached THEN Append(inbox[c], j[1]) ELSE inbox[c]]
    BY <1>5 DEF PushSend
  <2>2. ASSUME NEW c \in Conns PROVE inbox'[c] \in Seq(Items) /\ Len(inbox'[c]) <= SendCap
    <3>1. CASE c \in reached
      <4>1. Len(inbox[c]) < SendCap /\ inbox[c] \in Seq(Items) /\ j[1] \in Items
        BY <3>1 DEF Reachable
      <4>2. inbox'[c] = Append(inbox[c], j[1])
        BY <2>1, <3>1
      <4> QED BY <4>1, <4>2, QueueAppend
    <3>2. CASE c \notin reached
      BY <2>1, <3>2
    <3> QED BY <3>1, <3>2
  <2>3. inbox' \in [Conns -> Seq(Items)]
    BY <2>1, <2>2
  <2> QED BY <1>5, <2>2, <2>3 DEF PushSend
<1>6. ASSUME NEW j \in Jobs, PushAcked(j) PROVE TypeOK'
  BY <1>6 DEF PushAcked, netVars
<1>7. ASSUME NEW j \in Jobs, PushTimeout(j) PROVE TypeOK'
  BY <1>7 DEF PushTimeout, netVars
<1>8. ASSUME NEW j \in Jobs, PushForget(j) PROVE TypeOK'
  BY <1>8 DEF PushForget, netVars
<1>9. ASSUME NEW j \in Jobs, MarkDelivered(j) \/ MarkDeliveredFails(j) PROVE TypeOK'
  BY <1>9 DEF MarkDelivered, MarkDeliveredFails, netVars
<1>10. ASSUME NEW c \in Conns, Connect(c) \/ Disconnect(c) PROVE TypeOK'
  <2>1. inbox' \in [Conns -> Seq(Items)] /\ acks' \in [Conns -> Seq(Items)]
    <3>1. CASE Connect(c)
      BY <3>1 DEF Connect
    <3>2. CASE Disconnect(c)
      <4>1. inbox' \in [Conns -> Seq(Items)]
        BY <3>2, EmptyQueue DEF Disconnect
      <4>2. acks' \in [Conns -> Seq(Items)]
        BY <3>2, EmptyQueue DEF Disconnect
      <4> QED BY <4>1, <4>2
    <3> QED BY <1>10, <3>1, <3>2
  <2>2. ASSUME NEW d \in Conns PROVE Len(inbox'[d]) <= SendCap /\ Len(acks'[d]) <= SendCap
    <3>1. CASE Connect(c)
      BY <3>1 DEF Connect
    <3>2. CASE Disconnect(c)
      <4>1. inbox'[d] \in {<<>>, inbox[d]} /\ acks'[d] \in {<<>>, acks[d]}
        BY <3>2 DEF Disconnect
      <4> QED BY <4>1, EmptyQueue
    <3> QED BY <1>10, <3>1, <3>2
  <2> QED BY <1>10, <2>1, <2>2 DEF Connect, Disconnect, jobVars
<1>11. ASSUME NEW c \in Conns, ClientReceive(c) PROVE TypeOK'
  <2>1. inbox[c] \in Seq(Items) /\ inbox[c] # <<>> /\ acks[c] \in Seq(Items)
    BY <1>11 DEF ClientReceive
  <2>2. /\ Tail(inbox[c]) \in Seq(Items) /\ Head(inbox[c]) \in Items
        /\ Len(Tail(inbox[c])) = Len(inbox[c]) - 1
    BY <2>1, QueueTail
  <2>3. /\ Append(acks[c], Head(inbox[c])) \in Seq(Items)
        /\ Len(Append(acks[c], Head(inbox[c]))) = Len(acks[c]) + 1
    BY <2>1, <2>2, QueueAppend
  <2>4. inbox' \in [Conns -> Seq(Items)] /\ acks' \in [Conns -> Seq(Items)]
    <3>1. inbox' \in [Conns -> Seq(Items)]
      BY <1>11, <2>2 DEF ClientReceive
    <3>2. acks' \in [Conns -> Seq(Items)]
      BY <1>11, <2>3 DEF ClientReceive
    <3> QED BY <3>1, <3>2
  <2>5. ASSUME NEW d \in Conns PROVE Len(inbox'[d]) <= SendCap /\ Len(acks'[d]) <= SendCap
    <3>1. inbox'[d] \in {Tail(inbox[c]), inbox[d]}
      BY <1>11 DEF ClientReceive
    <3>2. acks'[d] \in {Append(acks[c], Head(inbox[c])), acks[d]}
      BY <1>11 DEF ClientReceive
    <3>3. Len(Tail(inbox[c])) <= SendCap /\ Len(Append(acks[c], Head(inbox[c]))) <= SendCap
      <4>1. Len(inbox[c]) <= SendCap /\ Len(acks[c]) < SendCap
        BY <1>11 DEF ClientReceive
      <4>2. Len(inbox[c]) \in Nat /\ Len(acks[c]) \in Nat
        BY <2>1
      <4> QED BY <2>2, <2>3, <4>1, <4>2
    <3> QED BY <3>1, <3>2, <3>3
  <2> QED BY <1>11, <2>2, <2>4, <2>5 DEF ClientReceive, jobVars
<1>12. ASSUME NEW c \in Conns, ResolveLookup(c) PROVE TypeOK'
  <2>1. acks[c] \in Seq(Items) /\ acks[c] # <<>>
    BY <1>12 DEF ResolveLookup
  <2>2. /\ Tail(acks[c]) \in Seq(Items) /\ Head(acks[c]) \in Items
        /\ Len(Tail(acks[c])) = Len(acks[c]) - 1
    BY <2>1, QueueTail
  <2> QED BY <1>12, <2>1, <2>2 DEF ResolveLookup, DeliveryID, jobVars, Jobs
<1>13. ASSUME NEW c \in Conns, ResolveSend(c) PROVE TypeOK'
  BY <1>13 DEF ResolveSend
<1>14. CASE Crash
  BY <1>14, EmptyQueue DEF Crash
<1>17. ASSUME NEW c \in Conns, NEW i \in Items, StrayAck(c, i) PROVE TypeOK'
  <2>1. acks[c] \in Seq(Items) /\ Len(acks[c]) < SendCap
    BY <1>17 DEF StrayAck
  <2>2. Append(acks[c], i) \in Seq(Items) /\ Len(Append(acks[c], i)) = Len(acks[c]) + 1
    BY <2>1, QueueAppend
  <2>3. acks' \in [Conns -> Seq(Items)]
    BY <1>17, <2>2 DEF StrayAck
  <2>4. ASSUME NEW d \in Conns PROVE Len(acks'[d]) <= SendCap
    <3>1. acks'[d] \in {Append(acks[c], i), acks[d]}
      BY <1>17 DEF StrayAck
    <3>2. Len(acks[c]) \in Nat
      BY <2>1
    <3> QED BY <2>1, <2>2, <3>1, <3>2
  <2> QED BY <1>17, <2>3, <2>4 DEF StrayAck, jobVars
<1>15. CASE Stabilise
  BY <1>15 DEF Stabilise, netVars, jobVars
<1>16. CASE UNCHANGED vars
  BY <1>16 DEF vars, netVars, jobVars
<1> QED
  BY <1>1, <1>2, <1>3, <1>4, <1>5, <1>6, <1>7, <1>8, <1>9, <1>10, <1>11, <1>12,
     <1>13, <1>14, <1>15, <1>16, <1>17 DEF Next, PushStep, ConnStep

\* Delivery is type correct: statuses, queues within their capacity, channels
\* and map entries of existing pushes (the state declared in hub.go and in the
\* delivery_queue table).
THEOREM TypeCorrect == Spec => []TypeOK
BY TypeInit, TypeStep, PTL DEF Spec

-----------------------------------------------------------------------------
\* Only PushSend fills an inbox, and only of connections Reachable returns.
LEMMA AddressedStep == IInv /\ [Next]_vars => OnlyToAddressee'
<1> SUFFICES ASSUME TypeOK, OnlyToAddressee, [Next]_vars,
                    NEW d \in Conns, NEW m \in 1..Len(inbox'[d])
             PROVE  Addressee[inbox'[d][m]] = UserOf[d]
  BY DEF IInv, OnlyToAddressee
<1> USE JobParts DEF TypeOK, OnlyToAddressee
<1>1. CASE inbox'[d] = inbox[d]
  BY <1>1
<1>2. CASE inbox'[d] = <<>>
  BY <1>2, EmptyQueue
<1>3. ASSUME NEW j \in Jobs, PushSend(j) PROVE Addressee[inbox'[d][m]] = UserOf[d]
  <2>1. \/ inbox'[d] = inbox[d]
        \/ inbox'[d] = Append(inbox[d], j[1]) /\ Addressee[j[1]] = UserOf[d]
    BY <1>3 DEF PushSend, Reachable
  <2>2. inbox[d] \in Seq(Items) /\ j[1] \in Items
    OBVIOUS
  <2> QED BY <2>1, <2>2, QueueAppend
<1>4. ASSUME NEW c \in Conns, ClientReceive(c) PROVE Addressee[inbox'[d][m]] = UserOf[d]
  <2>1. inbox[c] \in Seq(Items) /\ inbox[c] # <<>>
    BY <1>4 DEF ClientReceive
  <2>2. inbox'[d] = inbox[d] \/ (d = c /\ inbox'[d] = Tail(inbox[c]))
    BY <1>4 DEF ClientReceive
  <2>3. CASE d = c /\ inbox'[d] = Tail(inbox[c])
    <3>1. m + 1 \in 1..Len(inbox[c]) /\ Tail(inbox[c])[m] = inbox[c][m + 1]
      BY <2>1, <2>3, QueueTail
    <3> QED BY <2>3, <3>1
  <2> QED BY <1>1, <2>2, <2>3
<1>5. ASSUME NEW c \in Conns, Connect(c) \/ Disconnect(c) PROVE inbox'[d] \in {<<>>, inbox[d]}
  BY <1>5 DEF Connect, Disconnect
<1>6. CASE Crash
  BY <1>2, <1>6 DEF Crash
<1>7. ASSUME NEW i \in Items, Dispatch(i) \/ Age(i) PROVE inbox' = inbox
  BY <1>7 DEF Dispatch, Age, netVars
<1>8. ASSUME NEW j \in Jobs, PushStep(j), ~PushSend(j) PROVE inbox' = inbox
  BY <1>8 DEF PushStep, PushRegister, PushAcked, PushTimeout, PushForget, MarkDelivered,
              MarkDeliveredFails, netVars
<1>9. ASSUME NEW c \in Conns, ResolveLookup(c) \/ ResolveSend(c) PROVE inbox' = inbox
  BY <1>9 DEF ResolveLookup, ResolveSend
<1>11. ASSUME NEW c \in Conns, NEW i \in Items, StrayAck(c, i) PROVE inbox' = inbox
  BY <1>11 DEF StrayAck
<1>10. CASE Retry \/ Stabilise \/ UNCHANGED vars
  BY <1>1, <1>10 DEF Retry, Stabilise, vars, netVars
<1> QED
  BY <1>1, <1>2, <1>3, <1>4, <1>5, <1>6, <1>7, <1>8, <1>9, <1>10, <1>11 DEF Next, ConnStep

\* got only grows, so only new obligations of Evidence need a look: an ack
\* appended by ClientReceive, a lookup, a token, an acknowledged push, a mark.
LEMMA EvidenceStep == IInv /\ [Next]_vars => Evidence'
<1> SUFFICES ASSUME TypeOK, OnlyToAddressee, Evidence, [Next]_vars PROVE Evidence'
  BY DEF IInv
<1> USE JobParts DEF TypeOK, Evidence, Acked
<1>1. ASSUME NEW i \in Items, Dispatch(i) PROVE Evidence'
  BY <1>1 DEF Dispatch, netVars
<1>2. ASSUME NEW i \in Items, Age(i) PROVE Evidence'
  BY <1>2 DEF Age, netVars, jobVars
<1>3. CASE Retry
  BY <1>3 DEF Retry, netVars
<1>4. ASSUME NEW j \in Jobs, PushRegister(j) PROVE Evidence'
  BY <1>4 DEF PushRegister, netVars
<1>5. ASSUME NEW j \in Jobs, PushSend(j) PROVE Evidence'
  BY <1>5 DEF PushSend
<1>6. ASSUME NEW j \in Jobs, PushAcked(j) PROVE Evidence'
  BY <1>6 DEF PushAcked, netVars
<1>7. ASSUME NEW j \in Jobs, PushTimeout(j) PROVE Evidence'
  BY <1>7 DEF PushTimeout, netVars
<1>8. ASSUME NEW j \in Jobs, PushForget(j) PROVE Evidence'
  BY <1>8 DEF PushForget, netVars
<1>9. ASSUME NEW j \in Jobs, MarkDelivered(j) \/ MarkDeliveredFails(j) PROVE Evidence'
  BY <1>9 DEF MarkDelivered, MarkDeliveredFails, netVars
<1>10. ASSUME NEW c \in Conns, Connect(c) \/ Disconnect(c) PROVE Evidence'
  <2>1. ASSUME NEW d \in Conns, NEW n \in 1..Len(acks'[d]) PROVE acks'[d][n] \in Acked
    <3>1. acks'[d] \in {<<>>, acks[d]}
      BY <1>10 DEF Connect, Disconnect
    <3> QED BY <2>1, <3>1, EmptyQueue
  <2> QED BY <1>10, <2>1 DEF Connect, Disconnect, jobVars
<1>11. ASSUME NEW c \in Conns, ClientReceive(c) PROVE Evidence'
  <2> DEFINE i == Head(inbox[c])
  <2>1. inbox[c] \in Seq(Items) /\ inbox[c] # <<>> /\ acks[c] \in Seq(Items)
    BY <1>11 DEF ClientReceive
  <2>2. i \in Items
    BY <2>1, QueueTail
  <2>3. got' = got \cup {i} /\ stray' = stray
    <3>1. 1 \in 1..Len(inbox[c]) /\ i = inbox[c][1]
      BY <2>1, QueueTail
    <3>2. Addressee[i] = UserOf[c]
      BY <3>1 DEF OnlyToAddressee
    <3> QED BY <1>11, <3>2 DEF ClientReceive
  <2>4. ASSUME NEW d \in Conns, NEW n \in 1..Len(acks'[d]) PROVE acks'[d][n] \in Acked'
    <3>1. CASE acks'[d] = acks[d]
      BY <2>3, <2>4, <3>1
    <3>2. CASE d = c /\ acks'[d] = Append(acks[c], i)
      BY <2>1, <2>2, <2>3, <2>4, <3>2, QueueAppend
    <3> QED BY <1>11, <3>1, <3>2 DEF ClientReceive
  <2> QED BY <1>11, <2>3, <2>4 DEF ClientReceive, jobVars
<1>12. ASSUME NEW c \in Conns, ResolveLookup(c) PROVE Evidence'
  <2> DEFINE i == Head(acks[c])
  <2>1. acks[c] \in Seq(Items) /\ acks[c] # <<>>
    BY <1>12 DEF ResolveLookup
  <2>2. i \in Acked
    BY <2>1, QueueTail
  <2>3. ASSUME NEW d \in Conns, NEW n \in 1..Len(acks'[d]) PROVE acks'[d][n] \in Acked
    <3>1. CASE d # c
      BY <1>12, <2>3, <3>1 DEF ResolveLookup
    <3>2. CASE d = c
      <4>1. acks'[d] = Tail(acks[c])
        BY <1>12, <3>2 DEF ResolveLookup
      <4> QED BY <2>1, <2>3, <3>2, <4>1, QueueTail
    <3> QED BY <3>1, <3>2
  <2>4. ASSUME NEW d \in Conns, resolving'[d] # Idle PROVE resolving'[d][1] \in Acked
    <3>1. CASE d # c
      BY <1>12, <2>4, <3>1 DEF ResolveLookup
    <3>2. CASE d = c
      BY <1>12, <2>2, <2>4, <3>2 DEF ResolveLookup, DeliveryID
    <3> QED BY <3>1, <3>2
  <2> QED BY <1>12, <2>3, <2>4 DEF ResolveLookup, jobVars
<1>13. ASSUME NEW c \in Conns, ResolveSend(c) PROVE Evidence'
  BY <1>13 DEF ResolveSend
<1>17. ASSUME NEW c \in Conns, NEW i \in Items, StrayAck(c, i) PROVE Evidence'
  <2>1. got' = got /\ stray' = stray \cup {i}
    BY <1>17 DEF StrayAck
  <2>2. ASSUME NEW d \in Conns, NEW n \in 1..Len(acks'[d]) PROVE acks'[d][n] \in Acked'
    <3>1. CASE acks'[d] = acks[d]
      BY <2>1, <2>2, <3>1
    <3>2. CASE acks'[d] = Append(acks[c], i) /\ d = c
      BY <2>1, <2>2, <3>2, QueueAppend
    <3> QED BY <1>17, <3>1, <3>2 DEF StrayAck
  <2> QED BY <1>17, <2>1, <2>2 DEF StrayAck, jobVars
<1>14. CASE Crash
  <2>1. \A c \in Conns : acks'[c] = <<>>
    BY <1>14 DEF Crash
  <2>2. \A c \in Conns : \A n \in 1..Len(acks'[c]) : acks'[c][n] \in Acked
    BY <2>1, EmptyQueue
  <2> QED BY <1>14, <2>2 DEF Crash
<1>15. CASE Stabilise
  BY <1>15 DEF Stabilise, netVars, jobVars
<1>16. CASE UNCHANGED vars
  BY <1>16 DEF vars, netVars, jobVars
<1> QED
  BY <1>1, <1>2, <1>3, <1>4, <1>5, <1>6, <1>7, <1>8, <1>9, <1>10, <1>11, <1>12,
     <1>13, <1>14, <1>15, <1>16, <1>17 DEF Next, PushStep, ConnStep

\* Rows are inserted before their first push and never removed.
LEMMA EnqueuedStep == IInv /\ [Next]_vars => Enqueued'
<1> SUFFICES ASSUME TypeOK, Enqueued, [Next]_vars PROVE Enqueued'
  BY DEF IInv
<1> USE JobParts DEF TypeOK, Enqueued
<1>1. ASSUME NEW i \in Items, Dispatch(i) PROVE Enqueued'
  <2>1. \A x \in Items : row[x] # "none" => row'[x] # "none"
    BY <1>1 DEF Dispatch
  <2>2. row'[i] # "none"
    BY <1>1 DEF Dispatch
  <2> QED BY <1>1, <2>1, <2>2 DEF Dispatch
<1>2. ASSUME NEW i \in Items, Age(i) PROVE Enqueued'
  BY <1>2 DEF Age, jobVars
<1>3. CASE Retry
  BY <1>3 DEF Retry, FindPendingOlderThan
<1>4. ASSUME NEW j \in Jobs, PushStep(j), ~MarkDelivered(j) PROVE Enqueued'
  <2>1. row' = row /\ (\E p \in PCs : pc' = [pc EXCEPT ![j] = p]) /\ pc[j] # "idle"
    BY <1>4 DEF PushStep, PushRegister, PushSend, PushAcked, PushTimeout, PushForget,
                MarkDeliveredFails, PCs
  <2> QED BY <2>1
<1>5. ASSUME NEW j \in Jobs, MarkDelivered(j) PROVE Enqueued'
  <2>1. \A x \in Items : row[x] # "none" => row'[x] # "none"
    BY <1>5 DEF MarkDelivered
  <2>2. \A k \in Jobs : pc'[k] # "idle" => pc[k] # "idle"
    BY <1>5 DEF MarkDelivered
  <2> QED BY <2>1, <2>2
<1>6. ASSUME NEW c \in Conns, Connect(c) \/ Disconnect(c) \/ ConnStep(c) PROVE Enqueued'
  BY <1>6 DEF Connect, Disconnect, ConnStep, ClientReceive, ResolveLookup, ResolveSend, jobVars
<1>7. ASSUME NEW c \in Conns, NEW i \in Items, StrayAck(c, i) PROVE Enqueued'
  BY <1>7 DEF StrayAck, jobVars
<1>8. CASE Crash \/ Stabilise \/ UNCHANGED vars
  BY <1>8 DEF Crash, Stabilise, vars, jobVars
<1> QED
  BY <1>1, <1>2, <1>3, <1>4, <1>5, <1>6, <1>7, <1>8 DEF Next

\* At the start nothing is pushed, carried or acknowledged.
LEMMA IInvInit == Init => IInv
<1> SUFFICES ASSUME Init PROVE IInv
  OBVIOUS
<1>1. TypeOK
  BY TypeInit
<1>2. \A c \in Conns : 1..Len(acks[c]) = {} /\ 1..Len(inbox[c]) = {}
  BY EmptyQueue DEF Init
<1> QED BY <1>1, <1>2, JobParts DEF Init, IInv, OnlyToAddressee, Evidence, Enqueued

\* The four conjuncts together are inductive.
LEMMA IInvStep == IInv /\ [Next]_vars => IInv'
BY TypeStep, AddressedStep, EvidenceStep, EnqueuedStep DEF IInv

\* The inductive invariant holds in every state: every delivered row goes back
\* to a receipt by its addressee or a stray ack, and nothing is pushed that is not in the
\* table (Dispatch, RetryScheduler, PushAndWaitAck, ResolveAck).
THEOREM Invariance == Spec => []IInv
BY IInvInit, IInvStep, PTL DEF Spec

\* A row is marked delivered only after a client of its addressee received it, or
\* some client acknowledged it by its id out of turn, however many pushes of it
\* overlap, time out or meet late acks and acks of other rows (pushAndTrack,
\* PushAndWaitAck, ResolveAck).
THEOREM DeliveredOnlyIfReceived == Spec => []DeliveredWasReceived
<1>1. IInv => DeliveredWasReceived
  BY DEF IInv, Evidence, DeliveredWasReceived
<1> QED BY <1>1, Invariance, PTL

-----------------------------------------------------------------------------
\* No entry of Hub.pendingAcks outlives the push that registered it, although a
\* push deletes by delivery id and may delete the entry of a later one.
THEOREM EntriesAreCleaned == Spec => []NoLeakedEntry
<1>1. Init => NoLeakedEntry
  BY DEF Init, NoLeakedEntry
<1>2. TypeOK /\ NoLeakedEntry /\ [Next]_vars => NoLeakedEntry'
  <2> SUFFICES ASSUME TypeOK, NoLeakedEntry, [Next]_vars,
                      NEW i \in Items, pendingAcks'[i] # NoSlot
               PROVE  pc'[<<i, pendingAcks'[i]>>] \in {"send", "wait", "acked", "timedout"}
    BY DEF NoLeakedEntry
  <2> USE JobParts DEF TypeOK, NoLeakedEntry, Jobs
  <2>1. ASSUME NEW x \in Items, Dispatch(x) \/ Age(x)
        PROVE pc'[<<i, pendingAcks'[i]>>] \in {"send", "wait", "acked", "timedout"}
    <3>1. CASE Age(x)
      BY <3>1 DEF Age, jobVars
    <3>2. CASE Dispatch(x)
      <4>1. PICK k \in Slots : Free(<<x, k>>) /\ pc' = [pc EXCEPT ![<<x, k>>] = "start"]
        BY <3>2 DEF Dispatch
      <4>2. pendingAcks' = pendingAcks
        BY <3>2 DEF Dispatch
      <4>3. <<i, pendingAcks[i]>> \in Jobs /\ <<x, k>> \in Jobs
        BY <4>2
      <4>4. <<i, pendingAcks[i]>> # <<x, k>>
        BY <4>1, <4>2 DEF Free
      <4> QED BY <4>1, <4>2, <4>3, <4>4
    <3> QED BY <2>1, <3>1, <3>2
  <2>2. CASE Retry
    BY <2>2 DEF Retry, Free
  <2>3. ASSUME NEW j \in Jobs, PushStep(j)
        PROVE pc'[<<i, pendingAcks'[i]>>] \in {"send", "wait", "acked", "timedout"}
    <3>1. CASE PushRegister(j)
      BY <3>1 DEF PushRegister
    <3>2. CASE PushForget(j)
      <4>1. i # j[1] /\ pendingAcks'[i] = pendingAcks[i]
        BY <3>2 DEF PushForget
      <4>2. <<i, pendingAcks[i]>> \in Jobs /\ <<i, pendingAcks[i]>> # j
        BY <4>1
      <4> QED BY <3>2, <4>1, <4>2 DEF PushForget
    <3>3. CASE PushSend(j) \/ PushAcked(j) \/ PushTimeout(j)
      <4>1. pendingAcks' = pendingAcks /\ <<i, pendingAcks[i]>> \in Jobs
        BY <3>3 DEF PushSend, PushAcked, PushTimeout
      <4>2. \E p \in {"wait", "acked", "timedout"} : pc' = [pc EXCEPT ![j] = p]
        BY <3>3 DEF PushSend, PushAcked, PushTimeout
      <4> QED BY <4>1, <4>2
    <3>4. CASE MarkDelivered(j) \/ MarkDeliveredFails(j)
      <4>1. pendingAcks' = pendingAcks /\ <<i, pendingAcks[i]>> \in Jobs
        BY <3>4 DEF MarkDelivered, MarkDeliveredFails
      <4>2. <<i, pendingAcks[i]>> # j /\ pc' = [pc EXCEPT ![j] = "idle"]
        BY <3>4, <4>1 DEF MarkDelivered, MarkDeliveredFails
      <4> QED BY <4>1, <4>2
    <3> QED BY <2>3, <3>1, <3>2, <3>3, <3>4 DEF PushStep
  <2>4. ASSUME NEW c \in Conns, Connect(c) \/ Disconnect(c) \/ ConnStep(c)
        PROVE pc'[<<i, pendingAcks'[i]>>] \in {"send", "wait", "acked", "timedout"}
    BY <2>4 DEF Connect, Disconnect, ConnStep, ClientReceive, ResolveLookup, ResolveSend, jobVars
  <2>7. ASSUME NEW c \in Conns, NEW x \in Items, StrayAck(c, x)
        PROVE pc'[<<i, pendingAcks'[i]>>] \in {"send", "wait", "acked", "timedout"}
    BY <2>7 DEF StrayAck, jobVars
  <2>5. CASE Crash
    BY <2>5 DEF Crash
  <2>6. CASE Stabilise \/ UNCHANGED vars
    BY <2>6 DEF Stabilise, vars, jobVars
  <2> QED BY <2>1, <2>2, <2>3, <2>4, <2>5, <2>6, <2>7 DEF Next
<1> QED BY <1>1, <1>2, TypeCorrect, PTL DEF Spec

-----------------------------------------------------------------------------
\* Every step of the queue is one of the promise or leaves rows and receipts
\* alone: a crash loses no row, a failed MarkDelivered delivers nothing.
LEMMA PromiseStep == IInv /\ [Next]_vars => [Promise!Next]_<<row, Acked>>
<1> SUFFICES ASSUME TypeOK, OnlyToAddressee, Evidence, Enqueued, [Next]_vars
             PROVE  [Promise!Next]_<<row, Acked>>
  BY DEF IInv
<1> USE JobParts DEF TypeOK
<1>1. ASSUME NEW i \in Items, Dispatch(i) PROVE Promise!Enqueue(i)
  BY <1>1 DEF Dispatch, Promise!Enqueue, Acked
<1>2. ASSUME NEW j \in Jobs, MarkDelivered(j)
      PROVE  Promise!Confirm(j[1]) \/ UNCHANGED <<row, Acked>>
  <2>1. j[1] \in Acked /\ row[j[1]] # "none" /\ UNCHANGED Acked
    BY <1>2 DEF MarkDelivered, Evidence, Enqueued, Acked
  <2>2. CASE row[j[1]] = "pending"
    BY <1>2, <2>1, <2>2 DEF MarkDelivered, Promise!Confirm
  <2>3. CASE row[j[1]] = "delivered"
    BY <1>2, <2>1, <2>3 DEF MarkDelivered
  <2> QED BY <2>1, <2>2, <2>3
<1>3. ASSUME NEW c \in Conns, ClientReceive(c) PROVE Promise!Acknowledge(Head(inbox[c]))
  <2>1. inbox[c] \in Seq(Items) /\ inbox[c] # <<>>
    BY <1>3 DEF ClientReceive
  <2>2. Addressee[Head(inbox[c])] = UserOf[c]
    <3>1. 1 \in 1..Len(inbox[c]) /\ Head(inbox[c]) = inbox[c][1]
      BY <2>1, QueueTail
    <3> QED BY <3>1 DEF OnlyToAddressee
  <2>3. got' = got \cup {Head(inbox[c])} /\ UNCHANGED <<row, stray>>
    BY <1>3, <2>2 DEF ClientReceive
  <2> QED BY <2>3 DEF Promise!Acknowledge, Acked
<1>4. ASSUME NEW c \in Conns, ClientReceive(c) PROVE Head(inbox[c]) \in Items
  BY <1>4, QueueTail DEF ClientReceive
<1>5. ASSUME NEW c \in Conns, NEW i \in Items, StrayAck(c, i) PROVE Promise!Acknowledge(i)
  BY <1>5 DEF StrayAck, Promise!Acknowledge, Acked
<1>6. ASSUME NEW j \in Jobs, PushStep(j), ~MarkDelivered(j) PROVE UNCHANGED <<row, Acked>>
  BY <1>6 DEF PushStep, PushRegister, PushSend, PushAcked, PushTimeout, PushForget,
              MarkDeliveredFails, Acked
<1>7. ASSUME NEW c \in Conns, Connect(c) \/ Disconnect(c) \/ ResolveLookup(c) \/ ResolveSend(c)
      PROVE  UNCHANGED <<row, Acked>>
  BY <1>7 DEF Connect, Disconnect, ResolveLookup, ResolveSend, Acked
<1>8. CASE Retry \/ Crash \/ Stabilise \/ UNCHANGED vars \/ \E i \in Items : Age(i)
  BY <1>8 DEF Retry, Crash, Stabilise, Age, vars, Acked
<1> QED
  BY <1>1, <1>2, <1>3, <1>4, <1>5, <1>6, <1>7, <1>8 DEF Next, PushStep, ConnStep, Promise!Next

\* The delivery queue implements its promise: enqueued rows survive crashes and
\* restarts, are acknowledged by their id before they count as delivered, and a
\* delivered row never becomes pending again (Dispatch, RetryScheduler).
THEOREM ImplementsPromise == Spec => KeepsPromise
<1>1. Init => Promise!Init
  BY DEF Init, Promise!Init, Acked
<1> QED BY <1>1, PromiseStep, Invariance, PTL DEF Spec, KeepsPromise, Promise!Spec

-----------------------------------------------------------------------------
\* Messages.  An insert in progress has a number and a time before its row is
\* visible (Numbered, Timed), so a mark must already say of it what it will be
\* when it commits (Exact); and what a client has of the rows that were due when
\* it began is those from its cursor on (Paged).

\* Ids are drawn once: those of the rows and of the inserts in progress differ.
Numbered ==
    /\ IsFiniteSet(records)
    /\ \A m \in records : m.id >= 1 /\ m.id < nextId
    /\ \A m, k \in records : m.id = k.id => m = k
    /\ \A c \in Calls : send[c].pc = "commit" =>
        /\ send[c].id >= 1 /\ send[c].id < nextId
        /\ \A m \in records : m.id # send[c].id
    /\ \A c, d \in Calls : send[c].pc = "commit" /\ send[d].pc = "commit" /\ send[c].id = send[d].id => c = d

\* Every time is past, and every sender is a member.
Timed ==
    /\ \A m \in records : m.at <= clock /\ m.by \in members
    /\ \A c \in Calls : send[c].pc # "idle" => send[c].at <= clock /\ send[c].by \in members
    /\ mark <= clock
    /\ \A k \in Marks : marking[k].at <= clock

\* seen is what a mark of the time at is about: the rows up to that time, but for
\* the ones whose inserts it overlapped, which know it, and the ones of that very
\* time; an insert still in progress that began earlier will be such a row.
Exact(at, seen, rows, sends) ==
    /\ seen \subseteq Ids(rows)
    /\ \A m \in rows : m.at > at => m.id \notin seen
    /\ \A m \in rows : m.at <= at => m.id \in seen \/ m.raced \/ m.at = at
    /\ \A c \in Calls : sends[c].pc # "idle" /\ sends[c].at < at => sends[c].raced

\* The stored mark and those that are about to be stored.
Marked ==
    /\ Exact(mark, read, records, send)
    /\ \A k \in Marks : marking[k].pc = "write" => Exact(marking[k].at, marking[k].seen, records, send)

\* Two rows out of order.
OutOfOrder(rows) == \E m, k \in rows : m.id < k.id /\ m.at >= k.at

\* What the client has: nothing before the first page; then, of the rows that were
\* due at that time, the ones from the cursor on.
Paged(v, rows) ==
    /\ v.due \subseteq Ids(rows)
    /\ v.before = 0 => v.shown = {} /\ v.due = {} /\ ~v.again
    /\ ~OutOfOrder(rows) =>
        /\ ~v.again
        /\ \A i \in v.shown : i >= v.before
        /\ \A i \in v.due : i >= v.before => i \in v.shown
        /\ v.pc = "done" => v.due \subseteq v.shown

\* The client knows the sender of every row.
Named ==
    /\ view.unnamed = {}
    /\ view.pc = "load" => members \subseteq view.known \cup view.joined

MessagesInv == MessagesTypeOK /\ Numbered /\ Timed /\ Marked /\ Paged(view, records) /\ Named

-----------------------------------------------------------------------------

\* Least and greatest numbers.

LEMMA LeastNat == ASSUME NEW S, S \subseteq Nat, S # {} PROVE \E n \in S : \A m \in S : n <= m
<1>1. \E n \in S : \A m \in S : <<m, n>> \notin OpToRel(<, Nat)
  BY WFMin, NatLessThanWellFounded
<1>2. PICK n \in S : \A m \in S : <<m, n>> \notin OpToRel(<, Nat)
  BY <1>1
<1>3. ASSUME NEW m \in S PROVE n <= m
  <2>1. n \in Nat /\ m \in Nat /\ <<m, n>> \in Nat \X Nat
    OBVIOUS
  <2>2. <<m, n>>[1] = m /\ <<m, n>>[2] = n
    OBVIOUS
  <2>3. ~(m < n)
    BY <1>2, <2>1, <2>2 DEF OpToRel
  <2> QED BY <2>1, <2>3
<1> QED BY <1>2, <1>3

\* A set of rows has one with the least id, and one with the greatest.
LEMMA FirstRow ==
    ASSUME NEW rows, rows \subseteq Rows, rows # {}
    PROVE  \E m \in rows : \A k \in rows : m.id <= k.id
<1> DEFINE S == {m.id : m \in rows}
<1>1. S \subseteq Nat /\ S # {}
  BY DEF Rows
<1>2. PICK n \in S : \A j \in S : n <= j
  BY <1>1, LeastNat, Zenon
<1>3. PICK m \in rows : m.id = n
  OBVIOUS
<1>4. ASSUME NEW k \in rows PROVE m.id <= k.id
  <2>1. k.id \in S
    OBVIOUS
  <2> QED BY <1>2, <1>3, <2>1
<1> QED BY <1>3, <1>4

LEMMA LastRow ==
    ASSUME NEW rows, rows \subseteq Rows, rows # {}, NEW n \in Nat, \A m \in rows : m.id < n
    PROVE  \E m \in rows : \A k \in rows : k.id <= m.id
<1> DEFINE S == {n - m.id : m \in rows}
<1>1. S \subseteq Nat
  <2>1. ASSUME NEW m \in rows PROVE n - m.id \in Nat
    BY DEF Rows
  <2> QED BY <2>1
<1>2. S # {}
  OBVIOUS
<1>3. PICK l \in S : \A j \in S : l <= j
  BY <1>1, <1>2, LeastNat, Zenon
<1>4. PICK m \in rows : l = n - m.id
  OBVIOUS
<1>5. ASSUME NEW k \in rows PROVE k.id <= m.id
  <2>1. n - k.id \in S /\ k.id \in Nat /\ m.id \in Nat
    BY DEF Rows
  <2>2. n - m.id <= n - k.id
    BY <1>3, <1>4, <2>1
  <2> QED BY <2>1, <2>2
<1> QED BY <1>4, <1>5

-----------------------------------------------------------------------------
\* Pages

\* A page by id that is not everything below the cursor is full.
LEMMA FullPage ==
    ASSUME NEW older, older \subseteq Rows, IsFiniteSet(older), NEW n \in Nat, NEW limit \in Nat,
           \A m \in older : m.id < n,
           \A m, k \in older : m.id = k.id => m = k,
           NEW page, page = {m \in older : Cardinality({k \in older : k.id > m.id}) < limit},
           Cardinality(page) # limit
    PROVE  page = older
<1> DEFINE Above(m) == {k \in older : k.id > m.id}
<1>1. ASSUME NEW m \in older PROVE IsFiniteSet(Above(m)) /\ Cardinality(Above(m)) \in Nat
  BY FS_Subset, FS_CardinalityType
<1>2. SUFFICES ASSUME older \ page # {} PROVE FALSE
  OBVIOUS
<1>3. PICK x \in older \ page : \A k \in older \ page : k.id <= x.id
  <2>1. older \ page \subseteq Rows /\ \A m \in older \ page : m.id < n
    OBVIOUS
  <2> QED BY <1>2, <2>1, LastRow
<1>4. \A m \in older : m \in page <=> Cardinality(Above(m)) < limit
  OBVIOUS
<1>5. ASSUME NEW m \in older, m.id <= x.id PROVE m \notin page
  <2>1. Above(x) \subseteq Above(m)
    BY <1>5 DEF Rows
  <2>2. Cardinality(Above(x)) <= Cardinality(Above(m))
    BY <1>1, <2>1, FS_Subset
  <2> HIDE DEF Above
  <2> QED BY <1>1, <1>3, <1>4, <2>2
<1>6. page = Above(x)
  <2>1. ASSUME NEW m \in page PROVE m \in Above(x)
    BY <1>3, <1>5 DEF Rows
  <2>2. ASSUME NEW m \in Above(x) PROVE m \in page
    BY <1>3 DEF Rows
  <2> QED BY <2>1, <2>2
<1>7. IsFiniteSet(page) /\ Cardinality(page) \in Nat /\ Cardinality(page) > limit
  <2> HIDE DEF Above
  <2>1. IsFiniteSet(Above(x)) /\ Cardinality(Above(x)) \in Nat /\ Cardinality(Above(x)) >= limit
    BY <1>1, <1>3, <1>4
  <2>2. IsFiniteSet(page) /\ Cardinality(page) \in Nat /\ Cardinality(page) = Cardinality(Above(x))
    BY <1>6, <2>1, Zenon
  <2> QED BY <2>1, <2>2
<1>8. page # {}
  <2>1. Cardinality(page) # 0
    BY <1>7
  <2> QED BY <2>1, FS_EmptySet
<1>9. PICK f \in page : \A k \in page : f.id <= k.id
  <2>1. page \subseteq Rows
    OBVIOUS
  <2> QED BY <1>8, <2>1, FirstRow
<1>10. Above(f) = page \ {f}
  <2>1. ASSUME NEW m \in Above(f) PROVE m \in page \ {f}
    <3>1. m \in older /\ m.id > f.id /\ f.id > x.id /\ m.id \in Nat /\ f.id \in Nat /\ x.id \in Nat
      BY <1>3, <1>6, <1>9 DEF Rows
    <3> QED BY <1>6, <3>1
  <2>2. ASSUME NEW m \in page \ {f} PROVE m \in Above(f)
    <3>1. m \in older /\ f \in older /\ m.id >= f.id /\ m.id # f.id /\ m.id \in Nat /\ f.id \in Nat
      BY <1>9 DEF Rows
    <3>2. \A a, b \in Nat : a >= b /\ a # b => a > b
      OBVIOUS
    <3>3. m.id > f.id
      BY <3>1, <3>2, Zenon
    <3> QED BY <3>1, <3>3
  <2> QED BY <2>1, <2>2
<1>11. Cardinality(Above(f)) = Cardinality(page) - 1
  <2>1. IsFiniteSet(page) /\ f \in page
    BY <1>7, <1>9
  <2>2. Cardinality(page \ {f}) = Cardinality(page) - 1
    BY <2>1, FS_RemoveElement
  <2> HIDE DEF Above
  <2> QED BY <1>10, <2>2, Zenon
<1>12. f \in older
  BY <1>9
<1> HIDE DEF Above
<1> QED BY <1>4, <1>7, <1>9, <1>11, <1>12

\* The page before a cursor: with one of its rows it holds every later one below the
\* cursor, and it is full, or all there is.
LEMMA EarlierPage ==
    ASSUME MessagesTypeOK, Numbered, NEW before \in Nat, NEW page, page = FindByRoomBefore(before, PageSize)
    PROVE  /\ page \subseteq {m \in records : m.id < before}
           /\ \A m \in page, k \in records : k.id >= m.id /\ k.id < before => k \in page
           /\ Cardinality(page) # PageSize => page = {m \in records : m.id < before}
<1> DEFINE older == {m \in records : m.id < before}
           Above(m) == {k \in older : k.id > m.id}
<1>1. older \subseteq Rows /\ IsFiniteSet(older) /\ PageSize \in Nat
  BY FS_Subset, MessagesAssumption DEF MessagesTypeOK, Numbered
<1>2. page = {m \in older : Cardinality(Above(m)) < PageSize}
  BY DEF FindByRoomBefore
<1>3. (\A m \in older : m.id < before) /\ (\A m, k \in older : m.id = k.id => m = k)
  BY DEF Numbered
<1>4. ASSUME NEW m \in page, NEW k \in records, k.id >= m.id, k.id < before PROVE k \in page
  <2>1. k \in older /\ m \in older /\ Cardinality(Above(m)) < PageSize
    BY <1>2, <1>4
  <2>2. Above(k) \subseteq Above(m)
    BY <1>1, <1>4, <2>1 DEF Rows
  <2>3. IsFiniteSet(Above(m)) /\ Cardinality(Above(m)) \in Nat /\ Cardinality(Above(k)) \in Nat
    BY <1>1, FS_Subset, FS_CardinalityType
  <2>4. Cardinality(Above(k)) <= Cardinality(Above(m))
    BY <2>2, <2>3, FS_Subset
  <2> QED BY <1>1, <1>2, <2>1, <2>3, <2>4
<1>5. ASSUME Cardinality(page) # PageSize PROVE page = older
  BY <1>1, <1>2, <1>3, <1>5, FullPage
<1>6. page \subseteq older
  BY <1>2
<1> QED BY <1>4, <1>5, <1>6

\* The first page: no other row is later, and it is full, or all there is.
LEMMA FirstPage ==
    ASSUME MessagesTypeOK, Numbered, NEW page \in FindByRoom(PageSize)
    PROVE  /\ page \subseteq records
           /\ \A m \in page, k \in records \ page : m.at >= k.at
           /\ Cardinality(page) # PageSize => page = records
           /\ page = {} => records = {}
<1> DEFINE n == Cardinality(records)
<1>1. IsFiniteSet(records) /\ n \in Nat /\ PageSize \in Nat \ {0}
  BY FS_CardinalityType, MessagesAssumption DEF Numbered
<1>2. /\ page \subseteq records /\ Cardinality(page) = Min({PageSize, n})
      /\ \A m \in page, k \in records \ page : m.at >= k.at
  BY DEF FindByRoom, kSubset
<1>3. Min({PageSize, n}) \in {PageSize, n}
  <2>1. \E x \in {PageSize, n} : \A y \in {PageSize, n} : x =< y
    BY <1>1
  <2> QED BY <2>1 DEF Min
<1>4. Cardinality(page) # PageSize => page = records
  <2> SUFFICES ASSUME Cardinality(page) # PageSize PROVE page = records
    OBVIOUS
  <2>1. Cardinality(records) = Cardinality(page)
    BY <1>2, <1>3
  <2> QED BY <1>1, <1>2, <2>1, FS_Subset
<1>5. page = {} => records = {}
  BY <1>1, <1>4, FS_EmptySet
<1> QED BY <1>2, <1>4, <1>5

-----------------------------------------------------------------------------
\* The client

\* A step of the client alone.
LEMMA ViewStep ==
    ASSUME MessagesInv, UNCHANGED <<room, reading>>, view' \in Views, Paged(view', records), Named'
    PROVE  MessagesInv'
<1>1. /\ UNCHANGED <<participants, members, records, nextId, clock, send, mark, marking, marks, read>>
      /\ MessagesTypeOK /\ Numbered /\ Timed /\ Marked
  BY DEF room, reading, MessagesInv
<1>2. MessagesTypeOK'
  BY <1>1 DEF MessagesTypeOK
<1>3. Numbered'
  BY <1>1 DEF Numbered
<1>4. Timed'
  BY <1>1 DEF Timed
<1>5. Marked'
  BY <1>1 DEF Marked
<1>6. Paged(view, records)'
  BY <1>1
<1> QED BY <1>2, <1>3, <1>4, <1>5, <1>6 DEF MessagesInv

\* What the client makes of a page: the cursor, and the rest of its state.
LEMMA ShownPage ==
    ASSUME MessagesInv, view.pc = "load", NEW page, page \subseteq records, NEW byTime \in BOOLEAN,
           NEW after \in {"open", "done"}, Shown(page, byTime, after)
    PROVE  /\ view' \in Views /\ Named' /\ UNCHANGED <<room, reading>>
           /\ view'.pc = after
           /\ view'.shown = view.shown \cup Ids(page)
           /\ view'.again => view.again \/ Ids(page) \cap view.shown # {}
           /\ view'.due = IF view.before = 0 THEN Ids(records) ELSE view.due
           /\ page = {} => view'.before = view.before
           /\ page # {} => \E m \in page :
                /\ view'.before = m.id
                /\ \A k \in page : IF byTime THEN m.at <= k.at ELSE m.id <= k.id
<1>1. PICK b \in IF page = {} THEN {view.before} ELSE Ids(Oldest(page, byTime)) :
        view' = [view EXCEPT !.pc = after, !.before = b, !.shown = @ \cup Ids(page),
                             !.again = @ \/ Ids(page) \cap view.shown # {},
                             !.due = IF view.before = 0 THEN Ids(records) ELSE @,
                             !.unnamed = @ \cup ({m.by : m \in page} \ (view.known \cup view.joined))]
  BY DEF Shown
<1>2. UNCHANGED <<room, reading>>
  BY DEF Shown
<1>3. /\ view \in Views /\ records \subseteq Rows /\ page \subseteq Rows
      /\ \A m \in records : m.by \in members
      /\ view.unnamed = {} /\ members \subseteq view.known \cup view.joined
  BY DEF MessagesInv, MessagesTypeOK, Timed, Named
<1>4. Ids(page) \subseteq Nat /\ Ids(records) \subseteq Nat
  BY <1>3 DEF Ids, Rows
<1>5. page = {} => b = view.before
  BY <1>1
<1>6. page # {} => \E m \in page : b = m.id /\ \A k \in page : IF byTime THEN m.at <= k.at ELSE m.id <= k.id
  <2> SUFFICES ASSUME page # {} PROVE \E m \in Oldest(page, byTime) : b = m.id
    BY DEF Oldest
  <2> QED BY <1>1 DEF Ids
<1>7. b \in Nat
  <2>1. view.before \in Nat
    BY <1>3 DEF Views
  <2>2. \A m \in page : m.id \in Nat
    BY <1>3 DEF Rows
  <2> QED BY <1>5, <1>6, <2>1, <2>2
<1>8. {m.by : m \in page} \ (view.known \cup view.joined) = {}
  BY <1>3
<1>9. view' = [view EXCEPT !.pc = after, !.before = b, !.shown = @ \cup Ids(page),
                           !.again = @ \/ Ids(page) \cap view.shown # {},
                           !.due = IF view.before = 0 THEN Ids(records) ELSE @]
  <2>1. view.unnamed \cup ({m.by : m \in page} \ (view.known \cup view.joined)) = view.unnamed
    BY <1>8
  <2>2. view = [view EXCEPT !.unnamed = view.unnamed]
    BY <1>3 DEF Views
  <2> QED BY <1>1, <1>3, <2>1 DEF Views
<1> DEFINE both == Ids(page) \cap view.shown # {}
           due == IF view.before = 0 THEN Ids(records) ELSE view.due
           again == view.again \/ both
<1>10. again \in BOOLEAN /\ due \subseteq Nat
  BY <1>3, <1>4 DEF Views
<1> HIDE DEF both, due, again
<1>11. view' = [view EXCEPT !.pc = after, !.before = b, !.shown = @ \cup Ids(page), !.again = again, !.due = due]
  BY <1>3, <1>9 DEF both, due, again, Views
<1>12. view' \in Views
  BY <1>3, <1>4, <1>7, <1>10, <1>11 DEF Views
<1>13. /\ view'.pc = after /\ view'.before = b /\ view'.shown = view.shown \cup Ids(page)
       /\ view'.again = again /\ view'.due = due /\ view'.unnamed = {}
  BY <1>3, <1>11 DEF Views
<1>14. Named'
  BY <1>13 DEF Named
<1>15. view'.again => view.again \/ both
  BY <1>13, Zenon DEF again
<1> QED BY <1>2, <1>5, <1>6, <1>12, <1>13, <1>14, <1>15 DEF both, due

\* GetChatRoomMessages and GetChatRoomDetail read the first page
\* (get_chat_room_messages.go:83): in order, it is what has an id from its oldest row on.
LEMMA FirstPageKeeps ==
    ASSUME MessagesInv, view.pc = "load", view.before = 0, NEW page \in FindByRoom(PageSize),
           NEW after \in {"open", "done"}, Shown(page, TRUE, after), after = "done" => page = records
    PROVE  MessagesInv'
<1>1. MessagesTypeOK /\ Numbered /\ records \subseteq Rows
  BY DEF MessagesInv, MessagesTypeOK
<1>2. /\ page \subseteq records
      /\ \A m \in page, k \in records \ page : m.at >= k.at
      /\ page = {} => records = {}
  BY <1>1, FirstPage
<1>3. view.shown = {} /\ view.due = {} /\ ~view.again
  BY DEF MessagesInv, Paged
<1>4. /\ view' \in Views /\ Named' /\ UNCHANGED <<room, reading>>
      /\ view'.pc = after
      /\ view'.shown = view.shown \cup Ids(page)
      /\ view'.again => view.again \/ Ids(page) \cap view.shown # {}
      /\ view'.due = IF view.before = 0 THEN Ids(records) ELSE view.due
      /\ page = {} => view'.before = view.before
      /\ page # {} => \E m \in page :
           /\ view'.before = m.id
           /\ \A k \in page : IF TRUE THEN m.at <= k.at ELSE m.id <= k.id
  BY <1>2, ShownPage
<1>5. view'.shown = Ids(page) /\ view'.due = Ids(records) /\ ~view'.again
  BY <1>3, <1>4
<1>6. CASE page = {}
  <2>1. view'.shown = {} /\ view'.due = {} /\ ~view'.again
    BY <1>2, <1>5, <1>6 DEF Ids
  <2>2. Paged(view', records)
    BY <2>1 DEF Paged
  <2> QED BY <1>4, <2>2, ViewStep
<1>7. ASSUME page # {} PROVE MessagesInv'
  <2>1. PICK o \in page : view'.before = o.id /\ \A k \in page : o.at <= k.at
    BY <1>4, <1>7
  <2>2. o.id >= 1 /\ o.id \in Nat
    BY <1>1, <1>2 DEF Numbered, Rows
  <2>3. ASSUME ~OutOfOrder(records), NEW k \in records
        PROVE  (k \in page => k.id >= o.id) /\ (k.id >= o.id => k \in page)
    <3>1. o \in records /\ o.id \in Nat /\ k.id \in Nat /\ o.at \in Nat /\ k.at \in Nat
      BY <1>1, <1>2 DEF Rows
    <3>2. (k.id < o.id => k.at < o.at) /\ (o.id < k.id => o.at < k.at)
      BY <2>3, <3>1 DEF OutOfOrder
    <3>3. k \in page => k.id >= o.id
      BY <2>1, <3>1, <3>2
    <3>4. k.id = o.id => k = o
      BY <1>1, <3>1 DEF Numbered
    <3>5. k \notin page => o.at >= k.at
      BY <1>2
    <3> QED BY <3>1, <3>2, <3>3, <3>4, <3>5
  <2>4. ASSUME ~OutOfOrder(records)
        PROVE  /\ \A i \in view'.shown : i >= view'.before
               /\ \A i \in view'.due : i >= view'.before => i \in view'.shown
    BY <1>2, <1>5, <2>1, <2>3, <2>4 DEF Ids
  <2>5. view'.pc = "done" => view'.due \subseteq view'.shown
    BY <1>4, <1>5
  <2>6. view'.before # 0
    BY <2>1, <2>2
  <2>7. Paged(view', records)
    BY <1>5, <2>4, <2>5, <2>6 DEF Paged
  <2> QED BY <1>4, <2>7, ViewStep
<1> QED BY <1>6, <1>7

LEMMA GetFirstPageKeeps == ASSUME MessagesInv, GetFirstPage PROVE MessagesInv'
<1>1. PICK page \in FindByRoom(PageSize) : Shown(page, TRUE, IF HasMore(page) THEN "open" ELSE "done")
  BY DEF GetFirstPage
<1>2. MessagesTypeOK /\ Numbered /\ view.pc = "load" /\ view.before = 0
  BY DEF MessagesInv, GetFirstPage
<1>3. CASE HasMore(page)
  BY <1>1, <1>2, <1>3, FirstPageKeeps
<1>4. CASE ~HasMore(page)
  <2>1. page = records
    BY <1>2, <1>4, FirstPage DEF HasMore
  <2>2. Shown(page, TRUE, "done")
    BY <1>1, <1>4
  <2> QED BY <1>2, <2>1, <2>2, FirstPageKeeps
<1> QED BY <1>3, <1>4

LEMMA GetChatRoomDetailKeeps == ASSUME MessagesInv, GetChatRoomDetail PROVE MessagesInv'
<1>1. PICK page \in FindByRoom(PageSize) : Shown(page, TRUE, IF page = {} THEN "done" ELSE "open")
  BY DEF GetChatRoomDetail
<1>2. MessagesTypeOK /\ Numbered /\ view.pc = "load" /\ view.before = 0
  BY DEF MessagesInv, GetChatRoomDetail
<1>3. CASE page # {}
  BY <1>1, <1>2, <1>3, FirstPageKeeps
<1>4. CASE page = {}
  <2>1. page = records
    BY <1>2, <1>4, FirstPage
  <2>2. Shown(page, TRUE, "done")
    BY <1>1, <1>4
  <2> QED BY <1>2, <2>1, <2>2, FirstPageKeeps
<1> QED BY <1>3, <1>4

\* GetChatRoomMessages reads the page before the cursor (get_chat_room_messages.go:90): the
\* client then has what was due from the new cursor on.
LEMMA GetEarlierPageKeeps == ASSUME MessagesInv, GetEarlierPage PROVE MessagesInv'
<1> SUFFICES ASSUME NEW page, page = FindByRoomBefore(view.before, PageSize),
                    NEW after, after = IF HasMore(page) THEN "open" ELSE "done"
             PROVE  MessagesInv'
  OBVIOUS
<1> DEFINE older == {m \in records : m.id < view.before}
<1>1. /\ view.pc = "load" /\ view.before # 0 /\ Shown(page, FALSE, after)
      /\ MessagesTypeOK /\ Numbered /\ Paged(view, records) /\ records \subseteq Rows
      /\ view.before \in Nat
  BY DEF MessagesInv, GetEarlierPage, MessagesTypeOK, Views
<1>2. /\ page \subseteq older
      /\ \A m \in page, k \in records : k.id >= m.id /\ k.id < view.before => k \in page
      /\ Cardinality(page) # PageSize => page = older
  BY <1>1, EarlierPage, Zenon
<1>3. after \in {"open", "done"} /\ (after = "done" => page = older)
  BY <1>2 DEF HasMore
<1>4. page \subseteq records
  BY <1>2
<1>5. /\ view' \in Views /\ Named' /\ UNCHANGED <<room, reading>>
      /\ view'.pc = after
      /\ view'.shown = view.shown \cup Ids(page)
      /\ view'.again => view.again \/ Ids(page) \cap view.shown # {}
      /\ view'.due = IF view.before = 0 THEN Ids(records) ELSE view.due
      /\ page = {} => view'.before = view.before
      /\ page # {} => \E m \in page :
           /\ view'.before = m.id
           /\ \A k \in page : IF FALSE THEN m.at <= k.at ELSE m.id <= k.id
  BY <1>1, <1>3, <1>4, ShownPage
<1>6. view'.due = view.due /\ view.due \subseteq Ids(records)
  BY <1>1, <1>5 DEF Paged
<1>7. /\ view'.before # 0 /\ view'.before \in Nat /\ view'.before <= view.before
      /\ \A m \in page : m.id >= view'.before
      /\ \A k \in records : k.id >= view'.before /\ k.id < view.before => k \in page
  <2>1. CASE page = {}
    BY <1>1, <1>5, <2>1 DEF Rows
  <2>2. ASSUME page # {}
        PROVE  /\ view'.before # 0 /\ view'.before \in Nat /\ view'.before <= view.before
               /\ \A m \in page : m.id >= view'.before
               /\ \A k \in records : k.id >= view'.before /\ k.id < view.before => k \in page
    <3>1. PICK o \in page : view'.before = o.id /\ \A k \in page : o.id <= k.id
      BY <1>5, <2>2
    <3>2. o \in records /\ o.id >= 1 /\ o.id \in Nat /\ o.id < view.before
      BY <1>1, <1>2 DEF Numbered, Rows
    <3> QED BY <1>1, <1>2, <3>1, <3>2 DEF Rows
  <2> QED BY <2>1, <2>2
<1>8. ASSUME ~OutOfOrder(records)
      PROVE  /\ ~view'.again
             /\ \A i \in view'.shown : i >= view'.before
             /\ \A i \in view'.due : i >= view'.before => i \in view'.shown
             /\ view'.pc = "done" => view'.due \subseteq view'.shown
  <2>1. /\ ~view.again
        /\ \A i \in view.shown : i >= view.before
        /\ \A i \in view.due : i >= view.before => i \in view.shown
    BY <1>1, <1>8 DEF Paged
  <2>2. view \in Views /\ view.shown \subseteq Nat
    BY <1>1 DEF MessagesTypeOK, Views
  <2>3. \A m \in page : m.id \in Nat /\ m.id < view.before
    BY <1>1, <1>2 DEF Rows
  <2>4. ~view'.again
    <3>1. Ids(page) \cap view.shown = {}
      BY <1>1, <2>1, <2>2, <2>3 DEF Ids
    <3> QED BY <1>5, <2>1, <3>1
  <2>5. ASSUME NEW i \in view'.shown PROVE i >= view'.before
    <3>1. CASE i \in view.shown
      BY <1>1, <1>7, <2>1, <2>2, <3>1
    <3>2. CASE i \in Ids(page)
      BY <1>7, <3>2 DEF Ids
    <3> QED BY <1>5, <3>1, <3>2
  <2>6. ASSUME NEW i \in view.due PROVE \E k \in records : k.id = i /\ k.id \in Nat
    BY <1>1, <1>6 DEF Ids, Rows
  <2>7. ASSUME NEW i \in view'.due, i >= view'.before PROVE i \in view'.shown
    <3>1. PICK k \in records : k.id = i /\ k.id \in Nat
      BY <1>6, <2>6
    <3>2. CASE i >= view.before
      BY <1>5, <1>6, <2>1, <3>2
    <3>3. CASE i < view.before
      BY <1>5, <1>7, <2>7, <3>1, <3>3 DEF Ids
    <3> QED BY <1>1, <3>1, <3>2, <3>3
  <2>8. ASSUME view'.pc = "done", NEW i \in view'.due PROVE i \in view'.shown
    <3>1. PICK k \in records : k.id = i /\ k.id \in Nat
      BY <1>6, <2>6
    <3>2. CASE i >= view.before
      BY <1>5, <1>6, <2>1, <3>2
    <3>3. CASE i < view.before
      BY <1>3, <1>5, <2>8, <3>1, <3>3 DEF Ids
    <3> QED BY <1>1, <3>1, <3>2, <3>3
  <2> QED BY <2>4, <2>5, <2>7, <2>8
<1>9. Paged(view', records)
  BY <1>6, <1>7, <1>8 DEF Paged
<1> QED BY <1>5, <1>9, ViewStep

\* The members are read first.
LEMMA LoadMembersKeeps == ASSUME MessagesInv, LoadMembers PROVE MessagesInv'
<1>1. /\ view \in Views /\ members \subseteq ChatUsers /\ Paged(view, records) /\ view.unnamed = {}
      /\ view' = [view EXCEPT !.pc = "load", !.known = members, !.joined = {}]
      /\ UNCHANGED <<room, reading>>
  BY DEF MessagesInv, MessagesTypeOK, LoadMembers, Named
<1>2. /\ view' \in Views /\ view'.pc = "load" /\ view'.known = members /\ view'.unnamed = {}
      /\ view'.before = view.before /\ view'.shown = view.shown /\ view'.due = view.due
      /\ view'.again = view.again
  BY <1>1 DEF Views
<1>3. Named'
  BY <1>1, <1>2 DEF Named, room
<1>4. Paged(view', records)
  BY <1>1, <1>2 DEF Paged
<1> QED BY <1>1, <1>2, <1>3, <1>4, ViewStep

-----------------------------------------------------------------------------
\* Inserts and marks

\* The inserts in progress that a mark overlaps are the same, and know it.
LEMMA OverlappedSends ==
    ASSUME MessagesTypeOK
    PROVE  /\ Overlapped \in [Calls -> Sends]
           /\ \A c \in Calls :
                /\ Overlapped[c].pc = send[c].pc /\ Overlapped[c].by = send[c].by
                /\ Overlapped[c].at = send[c].at /\ Overlapped[c].id = send[c].id
                /\ send[c].raced => Overlapped[c].raced
                /\ send[c].pc # "idle" => Overlapped[c].raced
<1>1. ASSUME NEW c \in Calls
      PROVE  /\ Overlapped[c] \in Sends
             /\ Overlapped[c].pc = send[c].pc /\ Overlapped[c].by = send[c].by
             /\ Overlapped[c].at = send[c].at /\ Overlapped[c].id = send[c].id
             /\ send[c].raced => Overlapped[c].raced
             /\ send[c].pc # "idle" => Overlapped[c].raced
  <2> DEFINE raced == send[c].raced \/ send[c].pc # "idle"
  <2>1. send[c] \in Sends
    BY DEF MessagesTypeOK
  <2>2. raced \in BOOLEAN
    OBVIOUS
  <2>3. Overlapped[c] = [send[c] EXCEPT !.raced = raced]
    BY DEF Overlapped
  <2>4. (send[c].raced => raced) /\ (send[c].pc # "idle" => raced)
    OBVIOUS
  <2> HIDE DEF raced
  <2>5. Overlapped[c].raced = raced /\ Overlapped[c] \in Sends
    BY <2>1, <2>2, <2>3 DEF Sends
  <2>6. /\ send[c].raced => Overlapped[c].raced
        /\ send[c].pc # "idle" => Overlapped[c].raced
    BY <2>4, <2>5, Zenon
  <2> QED BY <2>1, <2>3, <2>5, <2>6 DEF Sends
<1>2. Overlapped = [c \in Calls |-> Overlapped[c]]
  BY DEF Overlapped
<1> QED BY <1>1, <1>2

\* Exactness outlives a step of the inserts that starts none earlier than the mark.
LEMMA ExactKept ==
    ASSUME NEW at, NEW seen, NEW rows, NEW sends, NEW after, Exact(at, seen, rows, sends),
           \A c \in Calls : after[c].pc # "idle" /\ after[c].at < at =>
               /\ sends[c].pc # "idle" /\ sends[c].at = after[c].at
               /\ sends[c].raced => after[c].raced
    PROVE  Exact(at, seen, rows, after)
BY DEF Exact

\* A mark of this very time is exact about what is visible.
LEMMA ExactNow ==
    ASSUME NEW now \in Nat, NEW rows, rows \subseteq Rows, \A m \in rows : m.at <= now,
           NEW sends, \A c \in Calls : sends[c].pc # "idle" => sends[c].raced
    PROVE  Exact(now, Ids(rows), rows, sends)
<1>1. \A m \in rows : m.id \in Ids(rows) /\ m.at \in Nat
  BY DEF Ids, Rows
<1> QED BY <1>1 DEF Exact

\* An insert that commits is later than the mark, of its time, or knows of it.
LEMMA ExactRow ==
    ASSUME NEW at \in Nat, NEW seen, NEW rows, NEW sends, Exact(at, seen, rows, sends),
           NEW c \in Calls, sends[c].pc # "idle", NEW m \in Rows, m.at = sends[c].at, m.raced = sends[c].raced,
           m.id \notin Ids(rows)
    PROVE  Exact(at, seen, rows \cup {m}, sends)
<1>1. Ids(rows \cup {m}) = Ids(rows) \cup {m.id} /\ m.at \in Nat
  BY DEF Ids, Rows
<1>2. m.id \notin seen /\ seen \subseteq Ids(rows \cup {m})
  BY <1>1 DEF Exact
<1>3. m.at < at => m.raced
  <2>1. sends[c].at < at => sends[c].raced
    BY DEF Exact
  <2> QED BY <2>1, Zenon
<1>4. m.at <= at => m.raced \/ m.at = at
  BY <1>1, <1>3
<1> QED BY <1>2, <1>4 DEF Exact

\* The client is not concerned by a row that becomes visible: its due rows are there already.
LEMMA PagedRow ==
    ASSUME NEW v, NEW rows, NEW m, Paged(v, rows) PROVE Paged(v, rows \cup {m})
<1>1. Ids(rows) \subseteq Ids(rows \cup {m})
  BY DEF Ids
<1>2. OutOfOrder(rows) => OutOfOrder(rows \cup {m})
  BY DEF OutOfOrder
<1> QED BY <1>1, <1>2 DEF Paged

\* A step of the clock, of the inserts and of who takes part, with the same rows and marks.
LEMMA SendStep ==
    ASSUME MessagesInv, send' \in [Calls -> Sends],
           UNCHANGED <<members, records, reading, view>>,
           participants \subseteq participants', participants' \subseteq ChatUsers,
           nextId' \in Nat, nextId <= nextId', clock' \in Nat, clock <= clock',
           \A c \in Calls : send'[c].pc # "idle" => send'[c].at <= clock' /\ send'[c].by \in members,
           \A c \in Calls : send'[c].pc = "commit" =>
               /\ send'[c].id >= 1 /\ send'[c].id < nextId'
               /\ \A m \in records : m.id # send'[c].id,
           \A c, d \in Calls : send'[c].pc = "commit" /\ send'[d].pc = "commit" /\ send'[c].id = send'[d].id => c = d,
           \A c \in Calls : send'[c].pc # "idle" /\ send'[c].at < clock =>
               /\ send[c].pc # "idle" /\ send[c].at = send'[c].at
               /\ send[c].raced => send'[c].raced
    PROVE  MessagesInv'
<1>1. /\ MessagesTypeOK /\ Numbered /\ Timed /\ Marked /\ Paged(view, records) /\ Named
      /\ UNCHANGED <<members, records, mark, marking, marks, read, view>>
  BY DEF MessagesInv, reading
<1>2. /\ records \subseteq Rows /\ nextId \in Nat /\ nextId >= 1 /\ clock \in Nat /\ mark \in Nat
      /\ \A k \in Marks : marking[k].at \in Nat /\ marking[k].at <= clock
      /\ mark <= clock
  BY <1>1 DEF MessagesTypeOK, Timed
<1>3. MessagesTypeOK'
  BY <1>1, <1>2 DEF MessagesTypeOK
<1>4. Numbered'
  <2>1. \A m \in records : m.id >= 1 /\ m.id < nextId'
    BY <1>1, <1>2 DEF Numbered, Rows
  <2> QED BY <1>1, <2>1 DEF Numbered
<1>5. Timed'
  <2>1. \A m \in records : m.at <= clock' /\ m.by \in members
    BY <1>1, <1>2 DEF Timed, Rows
  <2> QED BY <1>1, <1>2, <2>1 DEF Timed
<1>6. ASSUME NEW at \in Nat, NEW seen, at <= clock, Exact(at, seen, records, send)
      PROVE  Exact(at, seen, records, send')
  <2>1. \A c \in Calls : send'[c].pc # "idle" /\ send'[c].at < at =>
               /\ send[c].pc # "idle" /\ send[c].at = send'[c].at
               /\ send[c].raced => send'[c].raced
    BY <1>2, <1>6 DEF Sends
  <2> QED BY <1>6, <2>1, ExactKept
<1>7. Marked'
  <2>1. Exact(mark, read, records, send')
    BY <1>1, <1>2, <1>6 DEF Marked
  <2>2. ASSUME NEW k \in Marks, marking[k].pc = "write" PROVE Exact(marking[k].at, marking[k].seen, records, send')
    BY <1>1, <1>2, <1>6, <2>2 DEF Marked
  <2> QED BY <1>1, <2>1, <2>2 DEF Marked
<1>8. Paged(view, records)' /\ Named'
  BY <1>1 DEF Named
<1> QED BY <1>3, <1>4, <1>5, <1>7, <1>8 DEF MessagesInv

\* What the invariant says of the inserts in progress.
LEMMA SendFacts ==
    ASSUME MessagesInv
    PROVE  /\ send \in [Calls -> Sends] /\ clock \in Nat /\ nextId \in Nat /\ nextId >= 1
           /\ members \subseteq participants /\ participants \subseteq ChatUsers
           /\ \A c \in Calls : send[c].pc # "idle" => send[c].at <= clock /\ send[c].by \in members
           /\ \A c \in Calls : send[c].pc = "commit" =>
               /\ send[c].id >= 1 /\ send[c].id < nextId
               /\ \A m \in records : m.id # send[c].id
           /\ \A c, d \in Calls :
               send[c].pc = "commit" /\ send[d].pc = "commit" /\ send[c].id = send[d].id => c = d
BY DEF MessagesInv, MessagesTypeOK, Numbered, Timed

LEMMA TickKeeps == ASSUME MessagesInv, Tick PROVE MessagesInv'
<1>1. /\ clock' = clock + 1 /\ send' = send /\ nextId' = nextId /\ participants' = participants
      /\ UNCHANGED <<members, records, reading, view>>
  BY DEF Tick
<1>2. \A c \in Calls : send[c] \in Sends
  BY SendFacts
<1>3. \A c \in Calls : send'[c].pc # "idle" => send'[c].at <= clock' /\ send'[c].by \in members
  BY <1>1, <1>2, SendFacts DEF Sends
<1> QED BY <1>1, <1>3, SendFacts, SendStep

LEMMA CreateUserParticipantKeeps ==
    ASSUME MessagesInv, NEW u \in ChatUsers, CreateUserParticipant(u) PROVE MessagesInv'
<1>1. /\ participants' = participants \cup {u} /\ send' = send /\ nextId' = nextId /\ clock' = clock
      /\ UNCHANGED <<members, records, reading, view>>
  BY DEF CreateUserParticipant, ParticipantCreate
<1> QED BY <1>1, SendFacts, SendStep

\* SendMessage begins the insert, which fixes the time (send_message.go:124).
LEMMA SendMessageKeeps ==
    ASSUME MessagesInv, NEW c \in Calls, NEW u \in ChatUsers, SendMessage(c, u) PROVE MessagesInv'
<1> DEFINE s == [NoSend EXCEPT !.pc = "insert", !.by = u, !.at = clock]
<1>1. /\ send' = [send EXCEPT ![c] = s] /\ nextId' = nextId /\ clock' = clock /\ participants' = participants
      /\ UNCHANGED <<members, records, reading, view>> /\ u \in members
  BY DEF SendMessage, FindByRoomAndParticipant, reading
<1>2. s \in Sends /\ s.pc = "insert" /\ s.by = u /\ s.at = clock
  BY SendFacts, MessagesAssumption DEF Sends, NoSend
<1> HIDE DEF s
<1>3. send' \in [Calls -> Sends] /\ send'[c] = s /\ \A d \in Calls \ {c} : send'[d] = send[d]
  BY <1>1, <1>2, SendFacts
<1>4. \A d \in Calls : send'[d].pc # "idle" => send'[d].at <= clock' /\ send'[d].by \in members
  BY <1>1, <1>2, <1>3, SendFacts
<1>5. \A d \in Calls : send'[d].pc = "commit" => d # c
  BY <1>2, <1>3
<1>6. \A d \in Calls : send'[d].pc # "idle" /\ send'[d].at < clock => d # c
  BY <1>2, <1>3, SendFacts
<1> QED BY <1>1, <1>3, <1>4, <1>5, <1>6, SendFacts, SendStep

\* The database numbers the row.
LEMMA InsertNumberKeeps == ASSUME MessagesInv, NEW c \in Calls, InsertNumber(c) PROVE MessagesInv'
<1> DEFINE s == [send[c] EXCEPT !.pc = "commit", !.id = nextId]
<1>1. /\ send' = [send EXCEPT ![c] = s] /\ nextId' = nextId + 1 /\ clock' = clock
      /\ participants' = participants
      /\ UNCHANGED <<members, records, reading, view>> /\ send[c].pc = "insert"
  BY SendFacts DEF InsertNumber, reading
<1>2. /\ s \in Sends /\ s.pc = "commit" /\ s.by = send[c].by /\ s.at = send[c].at /\ s.id = nextId
      /\ s.raced = send[c].raced
  BY SendFacts DEF Sends
<1> HIDE DEF s
<1>3. send' \in [Calls -> Sends] /\ send'[c] = s /\ \A d \in Calls \ {c} : send'[d] = send[d]
  BY <1>1, <1>2, SendFacts
<1>4. \A d \in Calls : send'[d].pc # "idle" => send'[d].at <= clock' /\ send'[d].by \in members
  BY <1>1, <1>2, <1>3, SendFacts
<1>5. \A m \in records : m.id \in Nat /\ m.id < nextId
  BY DEF MessagesInv, MessagesTypeOK, Numbered, Rows
<1>6. ASSUME NEW d \in Calls, send'[d].pc = "commit"
      PROVE  /\ send'[d].id >= 1 /\ send'[d].id < nextId' /\ send'[d].id \in Nat
             /\ \A m \in records : m.id # send'[d].id
             /\ d # c => send'[d].id # nextId
  <2>1. CASE d = c
    BY <1>1, <1>2, <1>3, <1>5, <2>1, SendFacts
  <2>2. ASSUME d # c PROVE send'[d] = send[d] /\ send[d].id \in Nat
    BY <1>3, <2>2, SendFacts DEF Sends
  <2>3. CASE d # c
    BY <1>1, <1>6, <2>2, <2>3, SendFacts
  <2> QED BY <2>1, <2>3
<1>7. ASSUME NEW d \in Calls, NEW e \in Calls,
             send'[d].pc = "commit", send'[e].pc = "commit", send'[d].id = send'[e].id
      PROVE  d = e
  <2>1. CASE d = c \/ e = c
    BY <1>2, <1>3, <1>6, <1>7, <2>1
  <2>2. CASE d # c /\ e # c
    BY <1>3, <1>7, <2>2, SendFacts
  <2> QED BY <2>1, <2>2
<1>8. \A d \in Calls : send'[d].pc # "idle" /\ send'[d].at < clock =>
          /\ send[d].pc # "idle" /\ send[d].at = send'[d].at
          /\ send[d].raced => send'[d].raced
  <2>1. \A d \in Calls \ {c} : send'[d] = send[d]
    BY <1>3
  <2>2. send[c].pc # "idle" /\ send[c].at = send'[c].at /\ (send[c].raced => send'[c].raced)
    BY <1>1, <1>2, <1>3
  <2> QED BY <2>1, <2>2
<1>9. nextId' \in Nat /\ nextId <= nextId'
  BY <1>1, SendFacts
<1> QED BY <1>1, <1>3, <1>4, <1>6, <1>7, <1>8, <1>9, SendFacts, SendStep

\* An insert ends: what is left of those in progress.
LEMMA SendEnds ==
    ASSUME MessagesInv, NEW c \in Calls, send' = [send EXCEPT ![c] = NoSend]
    PROVE  /\ send' \in [Calls -> Sends]
           /\ \A d \in Calls : send'[d].pc # "idle" => d # c /\ send'[d] = send[d]
<1>1. NoSend \in Sends /\ NoSend.pc = "idle"
  BY MessagesAssumption DEF NoSend, Sends
<1> QED BY <1>1, SendFacts

LEMMA CreateFailsKeeps == ASSUME MessagesInv, NEW c \in Calls, CreateFails(c) PROVE MessagesInv'
<1>1. /\ nextId' = nextId /\ clock' = clock /\ participants' = participants
      /\ UNCHANGED <<members, records, reading, view>>
  BY DEF CreateFails, reading
<1>2. /\ send' \in [Calls -> Sends]
      /\ \A d \in Calls : send'[d].pc # "idle" => d # c /\ send'[d] = send[d]
  BY SendEnds DEF CreateFails
<1>3. \A d \in Calls : send'[d].pc = "commit" => send'[d] = send[d]
  BY <1>2
<1> QED BY <1>1, <1>2, <1>3, SendFacts, SendStep

\* The row of a message becomes visible (chat_message_repo.go:226).
LEMMA CreateKeeps == ASSUME MessagesInv, NEW c \in Calls, Create(c) PROVE MessagesInv'
<1> DEFINE new == [id |-> send[c].id, at |-> send[c].at, by |-> send[c].by, raced |-> send[c].raced]
<1>1. /\ MessagesTypeOK /\ Numbered /\ Timed /\ Marked /\ Paged(view, records) /\ Named
      /\ records' = records \cup {new} /\ send[c].pc = "commit" /\ send[c] \in Sends
      /\ UNCHANGED <<participants, members, nextId, clock, mark, marking, marks, read, view>>
  BY DEF Create, reading, MessagesInv, MessagesTypeOK
<1>2. /\ new \in Rows /\ new.id = send[c].id /\ new.at = send[c].at /\ new.by = send[c].by
      /\ new.raced = send[c].raced
  BY <1>1 DEF Sends, Rows
<1> HIDE DEF new
<1>3. /\ send' \in [Calls -> Sends]
      /\ \A d \in Calls : send'[d].pc # "idle" => d # c /\ send'[d] = send[d]
  BY SendEnds DEF Create
<1>4. /\ new.id >= 1 /\ new.id < nextId /\ \A m \in records : m.id # new.id
      /\ new.at <= clock /\ new.by \in members
  BY <1>1, <1>2, SendFacts
<1>5. MessagesTypeOK'
  BY <1>1, <1>2, <1>3 DEF MessagesTypeOK
<1>6. Numbered'
  <2>1. IsFiniteSet(records')
    BY <1>1, FS_AddElement DEF Numbered
  <2>2. \A m \in records' : m.id >= 1 /\ m.id < nextId
    BY <1>1, <1>4 DEF Numbered
  <2>3. \A m, k \in records' : m.id = k.id => m = k
    BY <1>1, <1>4 DEF Numbered
  <2>4. ASSUME NEW d \in Calls, send'[d].pc = "commit"
        PROVE  /\ d # c /\ send'[d] = send[d]
               /\ send'[d].id >= 1 /\ send'[d].id < nextId
               /\ \A m \in records' : m.id # send'[d].id
    <3>1. d # c /\ send'[d] = send[d]
      BY <1>3, <2>4
    <3>2. send[d].id # new.id
      BY <1>1, <1>2, <2>4, <3>1 DEF Numbered
    <3> QED BY <1>1, <2>4, <3>1, <3>2 DEF Numbered
  <2>5. ASSUME NEW d \in Calls, NEW e \in Calls,
               send'[d].pc = "commit", send'[e].pc = "commit", send'[d].id = send'[e].id
        PROVE  d = e
    BY <1>1, <2>4, <2>5 DEF Numbered
  <2> QED BY <1>1, <2>1, <2>2, <2>3, <2>4, <2>5 DEF Numbered
<1>7. Timed'
  BY <1>1, <1>3, <1>4 DEF Timed
<1>8. ASSUME NEW at \in Nat, NEW seen, Exact(at, seen, records, send) PROVE Exact(at, seen, records', send')
  <2>1. new.id \notin Ids(records)
    BY <1>4 DEF Ids
  <2>2. Exact(at, seen, records \cup {new}, send)
    BY <1>1, <1>2, <1>8, <2>1, ExactRow
  <2>3. Exact(at, seen, records \cup {new}, send')
    BY <1>3, <2>2, ExactKept
  <2> QED BY <1>1, <2>3
<1>9. Marked'
  <2>1. mark \in Nat /\ \A k \in Marks : marking[k].at \in Nat
    BY <1>1 DEF MessagesTypeOK
  <2>2. Exact(mark, read, records', send')
    BY <1>1, <1>8, <2>1 DEF Marked
  <2>3. ASSUME NEW k \in Marks, marking[k].pc = "write" PROVE Exact(marking[k].at, marking[k].seen, records', send')
    BY <1>1, <1>8, <2>1, <2>3 DEF Marked
  <2> QED BY <1>1, <2>2, <2>3 DEF Marked
<1>10. Paged(view, records)'
  BY <1>1, PagedRow
<1>11. Named'
  BY <1>1 DEF Named
<1> QED BY <1>5, <1>6, <1>7, <1>9, <1>10, <1>11 DEF MessagesInv

\* A mark is taken, or a reader joins: the inserts in progress know of it, and the other
\* marks stay exact.
LEMMA Overlap ==
    ASSUME MessagesInv, send' = Overlapped, records' = records, nextId' = nextId, clock' = clock,
           members \subseteq members'
    PROVE  /\ send' \in [Calls -> Sends] /\ Numbered'
           /\ \A m \in records : m.at <= clock /\ m.by \in members'
           /\ \A c \in Calls : send'[c].pc # "idle" => send'[c].at <= clock /\ send'[c].by \in members'
           /\ Exact(clock, Ids(records), records, send')
           /\ Ids(records) \subseteq Nat
           /\ \A at, seen : Exact(at, seen, records, send) => Exact(at, seen, records, send')
<1>1. /\ MessagesTypeOK /\ Numbered /\ Timed /\ records \subseteq Rows /\ clock \in Nat
  BY DEF MessagesInv, MessagesTypeOK
<1>2. /\ send' \in [Calls -> Sends]
      /\ \A c \in Calls :
           /\ send'[c].pc = send[c].pc /\ send'[c].by = send[c].by
           /\ send'[c].at = send[c].at /\ send'[c].id = send[c].id
           /\ send[c].raced => send'[c].raced
           /\ send[c].pc # "idle" => send'[c].raced
  BY <1>1, OverlappedSends
<1>3. Numbered'
  BY <1>1, <1>2 DEF Numbered
<1>4. /\ \A m \in records : m.at <= clock /\ m.by \in members'
      /\ \A c \in Calls : send'[c].pc # "idle" => send'[c].at <= clock /\ send'[c].by \in members'
  BY <1>1, <1>2 DEF Timed
<1>5. Exact(clock, Ids(records), records, send')
  <2>1. ASSUME NEW after, after = send' PROVE Exact(clock, Ids(records), records, after)
    BY <1>1, <1>2, <1>4, <2>1, ExactNow
  <2> QED BY <2>1
<1>6. ASSUME NEW at, NEW seen, Exact(at, seen, records, send) PROVE Exact(at, seen, records, send')
  BY <1>2, <1>6, ExactKept
<1>7. Ids(records) \subseteq Nat
  BY <1>1 DEF Ids, Rows
<1> QED BY <1>2, <1>3, <1>4, <1>5, <1>6, <1>7

\* A member is added (accept_chat_invitation.go); for the reader, a first mark.
LEMMA MemberAddKeeps == ASSUME MessagesInv, NEW u \in ChatUsers, MemberAdd(u) PROVE MessagesInv'
<1>1. /\ MessagesTypeOK /\ Numbered /\ Timed /\ Marked /\ Paged(view, records) /\ Named
      /\ members' = members \cup {u} /\ u \in participants /\ view \in Views
      /\ UNCHANGED <<participants, records, nextId, clock, marking, marks>>
      /\ view' = [view EXCEPT !.joined = IF view.pc = "load" THEN view.joined \cup {u} ELSE view.joined]
  BY DEF MemberAdd, FindByUserID, MessagesInv, MessagesTypeOK
<1> DEFINE joined == IF view.pc = "load" THEN view.joined \cup {u} ELSE view.joined
<1>2. joined \in SUBSET ChatUsers /\ view' = [view EXCEPT !.joined = joined]
  BY <1>1 DEF Views
<1> HIDE DEF joined
<1>3. /\ view' \in Views /\ view'.joined = joined /\ view'.pc = view.pc /\ view'.known = view.known
      /\ view'.before = view.before /\ view'.shown = view.shown /\ view'.due = view.due
      /\ view'.again = view.again /\ view'.unnamed = view.unnamed
  BY <1>1, <1>2 DEF Views
<1>4. Named'
  <2>1. view.pc = "load" => joined = view.joined \cup {u}
    BY DEF joined
  <2> QED BY <1>1, <1>3, <2>1 DEF Named
<1>5. Paged(view, records)'
  BY <1>1, <1>3 DEF Paged
<1>6. /\ records \subseteq Rows /\ clock \in Nat /\ mark \in Nat /\ read \subseteq Nat
      /\ \A k \in Marks : marking[k].at \in Nat /\ marking[k].at <= clock
  BY <1>1 DEF MessagesTypeOK, Timed
<1>7. ASSUME u = Reader PROVE MessagesInv'
  <2>1. mark' = clock /\ read' = Ids(records) /\ send' = Overlapped
    BY <1>7 DEF MemberAdd
  <2>2. /\ send' \in [Calls -> Sends] /\ Numbered'
        /\ \A m \in records : m.at <= clock /\ m.by \in members'
        /\ \A c \in Calls : send'[c].pc # "idle" => send'[c].at <= clock /\ send'[c].by \in members'
        /\ Exact(clock, Ids(records), records, send')
        /\ Ids(records) \subseteq Nat
        /\ \A at, seen : Exact(at, seen, records, send) => Exact(at, seen, records, send')
    BY <1>1, <2>1, Overlap
  <2>3. MessagesTypeOK'
    BY <1>1, <1>3, <1>6, <2>1, <2>2 DEF MessagesTypeOK
  <2>4. Timed'
    BY <1>1, <1>6, <2>1, <2>2 DEF Timed
  <2>5. Marked'
    BY <1>1, <2>1, <2>2 DEF Marked
  <2> QED BY <1>4, <1>5, <2>2, <2>3, <2>4, <2>5 DEF MessagesInv
<1>8. ASSUME u # Reader PROVE MessagesInv'
  <2>1. UNCHANGED <<mark, read, send>>
    BY <1>8 DEF MemberAdd
  <2>2. MessagesTypeOK'
    BY <1>1, <1>3, <2>1 DEF MessagesTypeOK
  <2>3. Numbered'
    BY <1>1, <2>1 DEF Numbered
  <2>4. Timed'
    BY <1>1, <2>1 DEF Timed
  <2>5. Marked'
    BY <1>1, <2>1 DEF Marked
  <2> QED BY <1>4, <1>5, <2>2, <2>3, <2>4, <2>5 DEF MessagesInv
<1> QED BY <1>7, <1>8

\* A mark is taken (update_member_status.go:61).
LEMMA MarkFindKeeps == ASSUME MessagesInv, NEW k \in Marks, MarkFind(k) PROVE MessagesInv'
<1> DEFINE taken == [pc |-> "write", at |-> clock, seen |-> Ids(records)]
<1>1. /\ MessagesTypeOK /\ Numbered /\ Timed /\ Marked /\ Paged(view, records) /\ Named
      /\ send' = Overlapped /\ marks' = marks + 1 /\ marking' = [marking EXCEPT ![k] = taken]
      /\ UNCHANGED <<participants, members, records, nextId, clock, mark, read, view>>
  BY DEF MarkFind, MessagesInv
<1>2. /\ send' \in [Calls -> Sends] /\ Numbered'
      /\ \A m \in records : m.at <= clock /\ m.by \in members'
      /\ \A c \in Calls : send'[c].pc # "idle" => send'[c].at <= clock /\ send'[c].by \in members'
      /\ Exact(clock, Ids(records), records, send')
      /\ Ids(records) \subseteq Nat
      /\ \A at, seen : Exact(at, seen, records, send) => Exact(at, seen, records, send')
  BY <1>1, Overlap
<1>3. taken.at = clock /\ taken.seen = Ids(records) /\ taken \in [pc : {"idle", "write"}, at : Nat, seen : SUBSET Nat]
  BY <1>1, <1>2 DEF MessagesTypeOK
<1> HIDE DEF taken
<1>4. /\ marking' \in [Marks -> [pc : {"idle", "write"}, at : Nat, seen : SUBSET Nat]]
      /\ marking'[k] = taken /\ \A j \in Marks \ {k} : marking'[j] = marking[j]
  BY <1>1, <1>3 DEF MessagesTypeOK
<1>5. MessagesTypeOK'
  BY <1>1, <1>2, <1>4 DEF MessagesTypeOK
<1>6. Timed'
  <2>1. \A j \in Marks : marking'[j].at <= clock
    BY <1>1, <1>3, <1>4 DEF Timed, MessagesTypeOK
  <2> QED BY <1>1, <1>2, <2>1 DEF Timed
<1>7. Marked'
  <2>1. Exact(mark, read, records, send')
    BY <1>1, <1>2 DEF Marked
  <2>2. ASSUME NEW j \in Marks, marking'[j].pc = "write"
        PROVE  Exact(marking'[j].at, marking'[j].seen, records, send')
    <3>1. CASE j = k
      BY <1>2, <1>3, <1>4, <3>1
    <3>2. CASE j # k
      BY <1>1, <1>2, <1>4, <2>2, <3>2 DEF Marked
    <3> QED BY <3>1, <3>2
  <2> QED BY <1>1, <2>1, <2>2 DEF Marked
<1>8. Paged(view, records)' /\ Named'
  BY <1>1 DEF Named
<1> QED BY <1>2, <1>5, <1>6, <1>7, <1>8 DEF MessagesInv

\* ... and written, over whichever mark is there (update_member_status.go).
LEMMA MarkWriteKeeps == ASSUME MessagesInv, NEW k \in Marks, MarkWrite(k) PROVE MessagesInv'
<1>1. /\ MessagesTypeOK /\ Numbered /\ Timed /\ Marked /\ Paged(view, records) /\ Named
      /\ UNCHANGED <<participants, members, records, nextId, clock, send, marks, view>>
      /\ mark' = marking[k].at /\ read' = marking[k].seen /\ marking[k].pc = "write"
      /\ marking' = [marking EXCEPT ![k] = NoMark]
  BY DEF MarkWrite, MemberUpdate, MessagesInv, room
<1>2. NoMark.pc = "idle" /\ NoMark.at = 0 /\ NoMark \in [pc : {"idle", "write"}, at : Nat, seen : SUBSET Nat]
  BY DEF NoMark
<1>3. /\ marking' \in [Marks -> [pc : {"idle", "write"}, at : Nat, seen : SUBSET Nat]]
      /\ marking'[k] = NoMark /\ \A j \in Marks \ {k} : marking'[j] = marking[j]
      /\ mark' \in Nat /\ read' \subseteq Nat /\ clock \in Nat
  BY <1>1, <1>2 DEF MessagesTypeOK
<1>4. MessagesTypeOK'
  BY <1>1, <1>3 DEF MessagesTypeOK
<1>5. Numbered'
  BY <1>1 DEF Numbered
<1>6. Timed'
  BY <1>1, <1>2, <1>3 DEF Timed
<1>7. Marked'
  BY <1>1, <1>2, <1>3 DEF Marked
<1>8. Paged(view, records)' /\ Named'
  BY <1>1 DEF Named
<1> QED BY <1>4, <1>5, <1>6, <1>7, <1>8 DEF MessagesInv

-----------------------------------------------------------------------------
\* The room has nothing yet.
LEMMA MessagesInitInv == MessagesInit => MessagesInv
<1> SUFFICES ASSUME MessagesInit PROVE MessagesInv
  OBVIOUS
<1>1. /\ participants = {Founder} /\ members = {Founder} /\ records = {} /\ nextId = 1 /\ clock = 0
      /\ send = [c \in Calls |-> NoSend] /\ mark = 0 /\ read = {} /\ marks = 0
      /\ marking = [k \in Marks |-> NoMark] /\ view = Closed
  BY DEF MessagesInit
<1>2. /\ NoSend \in Sends /\ NoSend.pc = "idle" /\ Founder \in ChatUsers
      /\ NoMark \in [pc : {"idle", "write"}, at : Nat, seen : SUBSET Nat] /\ NoMark.pc = "idle" /\ NoMark.at = 0
  BY MessagesAssumption DEF NoSend, NoMark, Sends
<1>3. /\ Closed \in Views /\ Closed.pc = "closed" /\ Closed.shown = {} /\ Closed.due = {} /\ Closed.again = FALSE
      /\ Closed.unnamed = {}
  BY DEF Closed, Views
<1>4. MessagesTypeOK
  BY <1>1, <1>2, <1>3 DEF MessagesTypeOK
<1>5. Numbered
  BY <1>1, <1>2, FS_EmptySet DEF Numbered
<1>6. Timed
  BY <1>1, <1>2 DEF Timed
<1>7. Marked
  BY <1>1, <1>2 DEF Marked, Exact
<1>8. Paged(view, records) /\ Named
  BY <1>1, <1>3 DEF Paged, Named
<1> QED BY <1>4, <1>5, <1>6, <1>7, <1>8 DEF MessagesInv

LEMMA MessagesNextInv == MessagesInv /\ [MessagesNext]_messagesVars => MessagesInv'
<1> SUFFICES ASSUME MessagesInv, [MessagesNext]_messagesVars PROVE MessagesInv'
  OBVIOUS
<1>1. CASE Tick
  BY <1>1, TickKeeps
<1>2. CASE \E u \in ChatUsers : CreateUserParticipant(u) \/ MemberAdd(u)
  BY <1>2, CreateUserParticipantKeeps, MemberAddKeeps
<1>3. ASSUME NEW c \in Calls,
             (\E u \in ChatUsers : SendMessage(c, u)) \/ InsertNumber(c) \/ Create(c) \/ CreateFails(c)
      PROVE  MessagesInv'
  BY <1>3, SendMessageKeeps, InsertNumberKeeps, CreateKeeps, CreateFailsKeeps
<1>4. CASE LoadMembers \/ GetFirstPage \/ GetChatRoomDetail \/ GetEarlierPage
  BY <1>4, LoadMembersKeeps, GetFirstPageKeeps, GetChatRoomDetailKeeps, GetEarlierPageKeeps
<1>5. CASE \E k \in Marks : MarkFind(k) \/ MarkWrite(k)
  BY <1>5, MarkFindKeeps, MarkWriteKeeps
<1>6. CASE UNCHANGED messagesVars
  <2>1. UNCHANGED <<room, reading>> /\ view' = view
    BY <1>6 DEF messagesVars, room, reading
  <2>2. view' \in Views /\ Paged(view', records) /\ Named'
    BY <1>6, <2>1 DEF MessagesInv, MessagesTypeOK, Named, messagesVars
  <2> QED BY <2>1, <2>2, ViewStep
<1> QED BY <1>1, <1>2, <1>3, <1>4, <1>5, <1>6 DEF MessagesNext

\* The inductive invariant: numbers and times of the messages, what the read marks are about,
\* and what the client has.
THEOREM MessagesInvariance == MessagesSpec => []MessagesInv
<1>1. MessagesInit => MessagesInv
  BY MessagesInitInv
<1>2. MessagesInv /\ [MessagesNext]_messagesVars => MessagesInv'
  BY MessagesNextInv
<1> QED BY <1>1, <1>2, PTL DEF MessagesSpec

\* The tables, the requests and the client hold what they are meant to.
THEOREM MessagesTypeCorrect == MessagesSpec => []MessagesTypeOK
<1>1. MessagesInv => MessagesTypeOK
  BY DEF MessagesInv
<1> QED BY <1>1, MessagesInvariance, PTL

\* A client that pages back has every message that was visible when it began, once, and is told
\* the senders, unless two messages are out of order (get_chat_room_messages.go:83, :90).
THEOREM HistoryComplete == MessagesSpec => []HistoryIsComplete
<1>1. ASSUME MessagesInv PROVE HistoryIsComplete
  <2>1. OutOfOrder(records) => Disordered
    BY DEF OutOfOrder, Disordered
  <2>2. Paged(view, records) /\ view.unnamed = {}
    BY <1>1 DEF MessagesInv, Named
  <2>3. ~OutOfOrder(records) => ~view.again /\ (view.pc = "done" => view.due \subseteq view.shown)
    BY <2>2 DEF Paged
  <2> QED BY <2>1, <2>2, <2>3 DEF HistoryIsComplete
<1> QED BY <1>1, MessagesInvariance, PTL

\* The room list counts as unread what was not visible at the time of the mark, but for inserts
\* that the mark overlapped (update_member_status.go:61, get_user_chat_rooms.go:103).
THEOREM UnreadExact == MessagesSpec => []UnreadIsExact
<1>1. ASSUME MessagesInv PROVE UnreadIsExact
  <2>1. Exact(mark, read, records, send) /\ records \subseteq Rows /\ mark \in Nat
    BY <1>1 DEF MessagesInv, Marked, MessagesTypeOK
  <2>2. \A m \in Unread : m \in records /\ m.at > mark
    BY DEF Unread, CountByRoomAfter
  <2>3. ASSUME NEW m \in records \ Unread PROVE m \in records /\ m.at <= mark
    BY <2>1, <2>3 DEF Unread, CountByRoomAfter, Rows
  <2>4. \A m \in Unread : m.id \notin read
    BY <2>1, <2>2 DEF Exact
  <2>5. \A m \in records \ Unread : m.id \in read \/ m.raced \/ m.at = mark
    BY <2>1, <2>3 DEF Exact
  <2> QED BY <2>4, <2>5 DEF UnreadIsExact
<1> QED BY <1>1, MessagesInvariance, PTL
=============================================================================
