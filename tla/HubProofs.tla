----------------------------- MODULE HubProofs -----------------------------
(***************************************************************************)
(* Proofs about Hub, for any users, connections, callers and buffer size.  *)
(* The loop moves the cells of an array that callers are iterating over:   *)
(* what stays true is that an array of a user holds connections of that    *)
(* user only (OwnCells), that the cells the loop is not overwriting are    *)
(* the registered connections, each once (Listed), and that a call whose   *)
(* array no removal has touched still finds the cells it found when it     *)
(* took the header (Exact), because an append writes beyond them.          *)
(***************************************************************************)
EXTENDS Hub, FiniteSetTheorems, TLAPS

Cells == Clients \cup {NoClient}

\* A header covers cells that are allocated.
Covers(u, a, n) == IF a = 0 THEN n = 0
                   ELSE a \in 1..Len(heap[u]) /\ n \in 1..Len(heap[u][a])

Headers == \A u \in Users : Covers(u, slice[u].arr, slice[u].len)

OwnCells ==
    \A u \in Users : \A a \in 1..Len(heap[u]) : \A k \in 1..Len(heap[u][a]) :
        heap[u][a][k] # NoClient => UserOf[heap[u][a][k]] = u

\* The users a call has still to send to.
Left(s) == {call[s].todo[k] : k \in 1..Len(call[s].todo)}

Distinct(q) == \A j, k \in 1..Len(q) : q[j] = q[k] => j = k

Iterating(s) == call[s].pc \in {"load", "send"}

\* Where a call is: the header it took and the cell it has read.
Placed(s) ==
    /\ call[s].pc # "idle" => call[s].todo # <<>>
    /\ Iterating(s) => /\ Covers(Head(call[s].todo), call[s].arr, call[s].len)
                       /\ call[s].i \in 1..(call[s].len + 1)
    /\ call[s].pc = "send" =>
          /\ call[s].i <= call[s].len
          /\ call[s].tgt # NoClient => UserOf[call[s].tgt] = Head(call[s].todo)

\* The life of a connection, as the loop and the channel have it.
Lives ==
    /\ clients = {c \in Clients : conn[c] \in {"up", "leaving"}}
    /\ open = {c \in Clients : conn[c] \in {"registering", "up", "leaving"}}
    /\ hub.pc # "idle" => hub.cl \in Clients /\ conn[hub.cl] = "gone"

\* The connections the index of u should list: one the loop is removing is out
\* of the registry, and out of the cells from the moment they move.
Due(u) == {c \in Clients : UserOf[c] = u /\ (c \in clients \/ (hub.pc = "lock" /\ c = hub.cl))}

\* The cells of u's slice that the loop is not about to overwrite.
Fixed(u) == {k \in 1..slice[u].len : ~(hub.pc = "shift" /\ UserOf[hub.cl] = u /\ k = hub.i)}

Listed(u) ==
    /\ \A k \in Fixed(u) : heap[u][slice[u].arr][k] \in Due(u)
    /\ \A c \in Due(u) : \E k \in Fixed(u) : heap[u][slice[u].arr][k] = c
    /\ \A j, k \in Fixed(u) : heap[u][slice[u].arr][j] = heap[u][slice[u].arr][k] => j = k

Shifting == hub.pc = "shift" => hub.i \in 1..slice[UserOf[hub.cl]].len

\* The cells under the header of call s, and how many connections it had tried
\* when it took the header.
Cell(s, j) == heap[Head(call[s].todo)][call[s].arr][j]
Before(s) == Len(track[s].tried) + 1 - call[s].i

\* What a call has tried: connections of users it is done with, ...
Done(s, n) == /\ Distinct(track[s].tried)
              /\ \A j \in 1..n : UserOf[track[s].tried[j]] \notin Left(s)

\* ... then one for each cell it has passed, ...
Passed(s) == /\ Before(s) >= 0
             /\ \A j \in 1..(call[s].i - 1) : track[s].tried[Before(s) + j] = Cell(s, j)
             /\ track[s].want = {track[s].tried[j] : j \in 1..Before(s)} \cup {Cell(s, j) : j \in 1..call[s].len}

\* ... of cells that are connections, each once, ...
Covered(s) == /\ call[s].pc = "send" => call[s].tgt = Cell(s, call[s].i)
              /\ \A j \in 1..call[s].len : Cell(s, j) # NoClient
              /\ \A j, k \in 1..call[s].len : Cell(s, j) = Cell(s, k) => j = k

\* ... and that nobody writes: the loop appends beyond them or elsewhere.
Reserved(s) ==
    LET u == Head(call[s].todo)
    IN call[s].arr # 0 /\ call[s].arr = slice[u].arr =>
          /\ call[s].len <= slice[u].len
          /\ ~(hub.pc = "shift" /\ UserOf[hub.cl] = u)

\* So far a call that no removal has disturbed is exact.
Exact(s) ==
    /\ call[s].pc = "idle" => track[s] = NoTrack
    /\ call[s].pc # "idle" => Distinct(call[s].todo)
    /\ call[s].pc = "snap" /\ ~track[s].disturbed =>
          /\ Done(s, Len(track[s].tried))
          /\ track[s].want = {track[s].tried[k] : k \in 1..Len(track[s].tried)}
    /\ Iterating(s) /\ ~track[s].disturbed =>
          Done(s, Before(s)) /\ Passed(s) /\ Covered(s) /\ Reserved(s)

IInv == /\ TypeOK /\ Headers /\ OwnCells /\ Lives /\ Shifting
        /\ \A u \in Users : Listed(u)
        /\ \A s \in Senders : Placed(s) /\ Exact(s)
        /\ NoCrossDelivery

-----------------------------------------------------------------------------
\* The elements of a sequence.
LEMMA Elements ==
    ASSUME NEW S, NEW q \in Seq(S)
    PROVE  Len(q) \in Nat /\ \A k \in 1..Len(q) : q[k] \in S
OBVIOUS

\* The arrays, the cells and the headers are what TypeOK says, cell by cell.
LEMMA HeapTypes ==
    ASSUME TypeOK
    PROVE  \A u \in Users :
              /\ heap[u] \in Seq(Seq(Cells)) /\ Len(heap[u]) \in Nat
              /\ slice[u].arr \in Nat /\ slice[u].len \in Nat
              /\ slice[u] = [arr |-> slice[u].arr, len |-> slice[u].len]
              /\ \A a \in 1..Len(heap[u]) :
                    /\ heap[u][a] \in Seq(Cells) /\ Len(heap[u][a]) \in Nat
                    /\ \A k \in 1..Len(heap[u][a]) : heap[u][a][k] \in Cells
<1> SUFFICES ASSUME NEW u \in Users
             PROVE  /\ heap[u] \in Seq(Seq(Cells)) /\ Len(heap[u]) \in Nat
                    /\ slice[u].arr \in Nat /\ slice[u].len \in Nat
                    /\ slice[u] = [arr |-> slice[u].arr, len |-> slice[u].len]
                    /\ \A a \in 1..Len(heap[u]) :
                          /\ heap[u][a] \in Seq(Cells) /\ Len(heap[u][a]) \in Nat
                          /\ \A k \in 1..Len(heap[u][a]) : heap[u][a][k] \in Cells
  OBVIOUS
<1>1. heap[u] \in Seq(Seq(Cells)) /\ slice[u] \in [arr : Nat, len : Nat]
  BY DEF TypeOK, Cells
<1>2. Len(heap[u]) \in Nat /\ \A a \in 1..Len(heap[u]) : heap[u][a] \in Seq(Cells)
  BY <1>1, Elements
<1>3. \A a \in 1..Len(heap[u]) : Len(heap[u][a]) \in Nat /\ \A k \in 1..Len(heap[u][a]) : heap[u][a][k] \in Cells
  BY <1>2, Elements
<1> QED BY <1>1, <1>2, <1>3

\* A call in progress, with its sequence of users.
LEMMA CallTypes ==
    ASSUME TypeOK
    PROVE  \A s \in Senders :
              /\ call[s].pc \in {"idle", "snap", "load", "send"} /\ call[s].todo \in Seq(Users)
              /\ call[s].arr \in Nat /\ call[s].len \in Nat /\ call[s].i \in Nat /\ call[s].tgt \in Cells
              /\ Len(call[s].todo) \in Nat
              /\ call[s].todo # <<>> => Head(call[s].todo) \in Users /\ Head(call[s].todo) \in Left(s)
              /\ Left(s) \subseteq Users
              /\ track[s].want \subseteq Clients /\ track[s].tried \in Seq(Clients)
              /\ Len(track[s].tried) \in Nat /\ track[s].disturbed \in BOOLEAN
<1> SUFFICES ASSUME NEW s \in Senders
    PROVE     /\ call[s].pc \in {"idle", "snap", "load", "send"} /\ call[s].todo \in Seq(Users)
              /\ call[s].arr \in Nat /\ call[s].len \in Nat /\ call[s].i \in Nat /\ call[s].tgt \in Cells
              /\ Len(call[s].todo) \in Nat
              /\ call[s].todo # <<>> => Head(call[s].todo) \in Users /\ Head(call[s].todo) \in Left(s)
              /\ Left(s) \subseteq Users
              /\ track[s].want \subseteq Clients /\ track[s].tried \in Seq(Clients)
              /\ Len(track[s].tried) \in Nat /\ track[s].disturbed \in BOOLEAN
  OBVIOUS
<1>1. /\ call[s].pc \in {"idle", "snap", "load", "send"} /\ call[s].todo \in Seq(Users)
      /\ call[s].arr \in Nat /\ call[s].len \in Nat /\ call[s].i \in Nat /\ call[s].tgt \in Cells
  BY DEF TypeOK, Cells
<1>2. /\ track[s].want \subseteq Clients /\ track[s].tried \in Seq(Clients)
      /\ track[s].disturbed \in BOOLEAN
  BY DEF TypeOK
<1>3. Len(call[s].todo) \in Nat /\ Left(s) \subseteq Users
  BY <1>1, Elements DEF Left
<1>4. call[s].todo # <<>> => Head(call[s].todo) = call[s].todo[1] /\ 1 \in 1..Len(call[s].todo)
  BY <1>1
<1> QED BY <1>1, <1>2, <1>3, <1>4, Elements DEF Left

\* A cell is written in place: no other cell changes.
WriteCell(u, a, k, v) == heap' = [heap EXCEPT ![u][a][k] = v]

OneCell(u, a, k, v) ==
    /\ heap' \in [Users -> Seq(Seq(Cells))]
    /\ \A w \in Users : /\ Len(heap'[w]) = Len(heap[w])
                        /\ \A b \in 1..Len(heap[w]) : Len(heap'[w][b]) = Len(heap[w][b])
    /\ heap'[u][a][k] = v
    /\ \A w \in Users : \A b \in 1..Len(heap[w]) : \A j \in 1..Len(heap[w][b]) :
          ~(w = u /\ b = a /\ j = k) => heap'[w][b][j] = heap[w][b][j]

\* The other cells, and the sizes of the arrays, are as they were.
LEMMA Written ==
    ASSUME TypeOK, NEW u, NEW a, NEW k, NEW v, WriteCell(u, a, k, v),
           u \in Users, a \in 1..Len(heap[u]), k \in 1..Len(heap[u][a]), v \in Cells
    PROVE  OneCell(u, a, k, v)
<1> DEFINE row == [heap[u][a] EXCEPT ![k] = v]
           col == [heap[u] EXCEPT ![a] = row]
<1>1. /\ heap \in [Users -> Seq(Seq(Cells))] /\ heap[u] \in Seq(Seq(Cells)) /\ heap[u][a] \in Seq(Cells)
  BY HeapTypes DEF TypeOK, Cells
<1>2. /\ row \in Seq(Cells) /\ Len(row) = Len(heap[u][a]) /\ row[k] = v
      /\ \A j \in 1..Len(heap[u][a]) : j # k => row[j] = heap[u][a][j]
  BY <1>1
<1> HIDE DEF row
<1>3. /\ col \in Seq(Seq(Cells)) /\ Len(col) = Len(heap[u]) /\ col[a] = row
      /\ \A b \in 1..Len(heap[u]) : b # a => col[b] = heap[u][b]
  BY <1>1, <1>2
<1>4. heap' = [heap EXCEPT ![u] = col]
  BY DEF row, WriteCell
<1> HIDE DEF col
<1>5. heap' \in [Users -> Seq(Seq(Cells))] /\ heap'[u] = col /\ \A w \in Users : w # u => heap'[w] = heap[w]
  BY <1>1, <1>3, <1>4
<1> QED BY <1>2, <1>3, <1>5 DEF OneCell

\* An array is allocated: the others stay as they are.
LEMMA Allocated ==
    ASSUME TypeOK, NEW u \in Users, NEW row \in Seq(Cells), heap' = [heap EXCEPT ![u] = Append(@, row)]
    PROVE  /\ heap' \in [Users -> Seq(Seq(Cells))]
           /\ Len(heap'[u]) = Len(heap[u]) + 1 /\ heap'[u][Len(heap[u]) + 1] = row
           /\ \A w \in Users \ {u} : heap'[w] = heap[w]
           /\ \A b \in 1..Len(heap[u]) : heap'[u][b] = heap[u][b]
<1>1. heap \in [Users -> Seq(Seq(Cells))] /\ heap[u] \in Seq(Seq(Cells))
  BY DEF TypeOK, Cells
<1>2. heap'[u] = Append(heap[u], row) /\ heap' \in [Users -> Seq(Seq(Cells))] /\ \A w \in Users \ {u} : heap'[w] = heap[w]
  BY <1>1
<1> QED BY <1>1, <1>2

-----------------------------------------------------------------------------
\* A step that leaves the index alone keeps what is said of it.
LEMMA IndexStays ==
    ASSUME IInv, UNCHANGED hubVars
    PROVE  Headers' /\ OwnCells' /\ Shifting' /\ \A u \in Users : Listed(u)'
BY DEF hubVars, IInv, Headers, Covers, OwnCells, Shifting, Listed, Fixed, Due

\* The arrays only grow in number.
HeapExtends ==
    \A u \in Users : /\ Len(heap'[u]) \in Nat /\ Len(heap[u]) <= Len(heap'[u])
                     /\ \A a \in 1..Len(heap[u]) : Len(heap'[u][a]) = Len(heap[u][a])

\* No cell that call s covers is written, and its array is not the one at work.
Spared(s) ==
    LET u == Head(call[s].todo)
        a == call[s].arr
    IN /\ track'[s] = track[s]
       /\ Iterating(s) /\ ~track[s].disturbed /\ a # 0 =>
             /\ \A j \in 1..call[s].len : heap'[u][a][j] = heap[u][a][j]
             /\ a = slice'[u].arr => /\ call[s].len <= slice'[u].len
                                     /\ ~(hub'.pc = "shift" /\ UserOf[hub'.cl] = u)

\* A step keeps what is said of a call that stays where it is, and is spared or
\* disturbed by it.
LEMMA CallStays ==
    ASSUME IInv, NEW s \in Senders, call'[s] = call[s], HeapExtends,
           Spared(s) \/ (Iterating(s) /\ track'[s].disturbed)
    PROVE  Placed(s)' /\ Exact(s)'
<1>1. TypeOK /\ Placed(s) /\ Exact(s)
  BY DEF IInv
<1>2. call[s].todo # <<>> => Head(call[s].todo) \in Users
  BY <1>1, CallTypes
<1>3. call[s].arr \in Nat /\ call[s].len \in Nat /\ call[s].i \in Nat
  BY <1>1, CallTypes
<1>4. Placed(s)'
  <2>1. Iterating(s) => Covers(Head(call[s].todo), call[s].arr, call[s].len)'
    <3> SUFFICES ASSUME Iterating(s) PROVE Covers(Head(call[s].todo), call[s].arr, call[s].len)'
      OBVIOUS
    <3>1. PICK u, a, n : u = Head(call[s].todo) /\ a = call[s].arr /\ n = call[s].len
      OBVIOUS
    <3>2. u \in Users /\ a \in Nat /\ n \in Nat /\ Covers(u, a, n)
      BY <1>1, <1>2, <1>3, <3>1 DEF Placed, Iterating
    <3>3. Len(heap[u]) \in Nat /\ Len(heap[u]) <= Len(heap'[u]) /\ Len(heap'[u]) \in Nat
      BY <1>1, <3>2, HeapTypes DEF HeapExtends
    <3>4. a # 0 => a \in 1..Len(heap[u])
      BY <3>2 DEF Covers
    <3>5. a # 0 => a \in 1..Len(heap'[u])
      BY <3>2, <3>3, <3>4
    <3>6. a # 0 => Len(heap'[u][a]) = Len(heap[u][a])
      BY <3>2, <3>4 DEF HeapExtends
    <3> QED BY <3>1, <3>2, <3>5, <3>6 DEF Covers
  <2> QED BY <1>1, <2>1 DEF Placed, Iterating
<1>5. Exact(s)'
  <2>1. CASE Iterating(s) /\ track'[s].disturbed
    BY <1>1, <2>1 DEF Exact, Iterating
  <2>2. CASE Spared(s) /\ ~(Iterating(s) /\ ~track[s].disturbed)
    <3>0. call'[s] = call[s] /\ track'[s] = track[s]
      BY <2>2 DEF Spared
    <3>1. call'[s] = call[s] /\ track'[s] = track[s] /\ Left(s)' = Left(s) /\ (Iterating(s)' <=> Iterating(s))
      BY <3>0 DEF Left, Iterating
    <3>2. Done(s, Len(track[s].tried))' = Done(s, Len(track[s].tried))
      BY <3>1 DEF Done
    <3> QED BY <1>1, <2>2, <3>1, <3>2 DEF Exact
  <2>3. CASE Spared(s) /\ Iterating(s) /\ ~track[s].disturbed
    <3>1. PICK c, t : c = call[s] /\ t = track[s]
      OBVIOUS
    <3>2. c = call'[s] /\ t = track'[s] /\ Left(s)' = Left(s) /\ Before(s)' = Before(s)
      BY <2>3, <3>1 DEF Spared, Left, Before
    <3>3. /\ call[s].pc \notin {"idle", "snap"} /\ call[s].i \in 1..(call[s].len + 1)
          /\ call[s].pc = "send" => call[s].i <= call[s].len
      BY <1>1, <2>3 DEF Placed, Iterating
    <3>4. /\ Distinct(call[s].todo) /\ Done(s, Before(s)) /\ Passed(s) /\ Covered(s) /\ Reserved(s)
      BY <1>1, <2>3, <3>3 DEF Exact
    <3>5. \A j \in 1..call[s].len : Cell(s, j)' = Cell(s, j)
      <4>1. call[s].arr = 0 => call[s].len = 0
        BY <1>1, <2>3 DEF Placed, Covers
      <4>2. call[s].arr # 0 => \A j \in 1..call[s].len : Cell(s, j)' = Cell(s, j)
        BY <2>3 DEF Spared, Cell
      <4> QED BY <4>1, <4>2
    <3>6. Done(s, Before(s))'
      BY <3>1, <3>2, <3>4 DEF Done
    <3>7. Passed(s)'
      <4>1. \A j \in 1..(c.i - 1) : Cell(s, j)' = Cell(s, j)
        BY <1>3, <3>1, <3>3, <3>5
      <4>2. {Cell(s, j)' : j \in 1..c.len} = {Cell(s, j) : j \in 1..c.len}
        BY <3>1, <3>5
      <4> QED BY <3>1, <3>2, <3>4, <4>1, <4>2 DEF Passed
    <3>8. Covered(s)'
      BY <1>3, <3>1, <3>2, <3>3, <3>4, <3>5 DEF Covered
    <3>9. Reserved(s)'
      BY <2>3 DEF Spared, Reserved
    <3> QED BY <3>1, <3>2, <3>3, <3>4, <3>6, <3>7, <3>8, <3>9 DEF Exact
  <2> QED BY <1>1, <2>1, <2>2, <2>3
<1> QED BY <1>4, <1>5

\* A step of the loop keeps it of all of them.
LEMMA CallsStay ==
    ASSUME IInv, call' = call, HeapExtends,
           \A s \in Senders : Spared(s) \/ (Iterating(s) /\ track'[s].disturbed)
    PROVE  \A s \in Senders : Placed(s)' /\ Exact(s)'
BY CallStays

\* A step that touches neither the index nor the calls keeps what is said of both.
LEMMA LoopAndCallsStay ==
    ASSUME IInv, UNCHANGED <<hubVars, call, track>>
    PROVE  /\ Headers' /\ OwnCells' /\ Shifting' /\ \A u \in Users : Listed(u)'
           /\ \A s \in Senders : Placed(s)' /\ Exact(s)'
<1>1. UNCHANGED hubVars /\ heap' = heap /\ slice' = slice /\ hub' = hub /\ call' = call /\ track' = track
  BY DEF hubVars
<1>2. HeapExtends
  BY <1>1, HeapTypes DEF HeapExtends, IInv
<1>3. \A s \in Senders : Spared(s)
  BY <1>1 DEF IInv, Exact, Reserved, Spared
<1> QED BY <1>1, <1>2, <1>3, IndexStays, CallsStay

\* A connection that is accepted is not in the registry yet.
LEMMA UpgradeKeeps ==
    ASSUME IInv, NEW c \in Clients, Upgrade(c)
    PROVE  IInv'
<1>1. /\ conn[c] = "none" /\ conn' = [conn EXCEPT ![c] = "registering"] /\ open' = open \cup {c}
      /\ UNCHANGED <<hubVars, call, track>> /\ buf' = buf /\ down' = down
      /\ clients' = clients /\ hub' = hub /\ slice' = slice /\ heap' = heap /\ call' = call /\ track' = track
  BY DEF Upgrade, hubVars
<1>2. TypeOK'
  BY <1>1 DEF IInv, TypeOK
<1>3. Lives'
  BY <1>1 DEF IInv, TypeOK, Lives
<1>4. NoCrossDelivery'
  BY <1>1 DEF IInv, NoCrossDelivery
<1> QED BY <1>1, <1>2, <1>3, <1>4, LoopAndCallsStay DEF IInv

\* One whose reader ends stays registered, and its channel open.
LEMMA ReadPumpExitKeeps ==
    ASSUME IInv, NEW c \in Clients, ReadPumpExit(c)
    PROVE  IInv'
<1>1. /\ conn[c] = "up" /\ conn' = [conn EXCEPT ![c] = "leaving"] /\ open' = open
      /\ UNCHANGED <<hubVars, call, track>> /\ buf' = buf /\ down' = down
      /\ clients' = clients /\ hub' = hub /\ slice' = slice /\ heap' = heap /\ call' = call /\ track' = track
  BY DEF ReadPumpExit, hubVars
<1>2. TypeOK'
  BY <1>1 DEF IInv, TypeOK
<1>3. Lives'
  BY <1>1 DEF IInv, TypeOK, Lives
<1>4. NoCrossDelivery'
  BY <1>1 DEF IInv, NoCrossDelivery
<1> QED BY <1>1, <1>2, <1>3, <1>4, LoopAndCallsStay DEF IInv

\* The messages that are queued stay addressed to the user of the connection.
Addressed(c, q) == \A k \in 1..Len(q) : q[k] \in {UserOf[c], Everyone}

\* Taking a message keeps the others; the buffer is not exceeded.
LEMMA Taken ==
    ASSUME NEW c \in Clients, NEW q \in Seq(Users \cup {Everyone}), q # <<>>,
           Len(q) <= SendCap, Addressed(c, q)
    PROVE  Tail(q) \in Seq(Users \cup {Everyone}) /\ Len(Tail(q)) <= SendCap /\ Addressed(c, Tail(q))
<1>1. Tail(q) \in Seq(Users \cup {Everyone}) /\ Len(Tail(q)) = Len(q) - 1 /\ Len(q) \in Nat
  OBVIOUS
<1>2. \A k \in 1..Len(Tail(q)) : Tail(q)[k] = q[k + 1]
  OBVIOUS
<1>3. \A k \in 1..Len(Tail(q)) : k + 1 \in 1..Len(q)
  BY <1>1
<1>4. SendCap \in Nat
  BY HubAssumption
<1> QED BY <1>1, <1>2, <1>3, <1>4 DEF Addressed

\* So does queueing one that is addressed to the user, or to everyone.
LEMMA Queued ==
    ASSUME NEW c \in Clients, NEW q \in Seq(Users \cup {Everyone}),
           Len(q) <= SendCap, Addressed(c, q), NEW m \in {UserOf[c], Everyone}
    PROVE  /\ Enqueued(q, m) \in Seq(Users \cup {Everyone}) /\ Len(Enqueued(q, m)) <= SendCap
           /\ Addressed(c, Enqueued(q, m))
<1>1. SendCap \in Nat /\ UserOf[c] \in Users /\ Len(q) \in Nat
  BY HubAssumption
<1>2. CASE Len(q) < SendCap
  <2>1. Enqueued(q, m) = Append(q, m)
    BY <1>2 DEF Enqueued
  <2>2. /\ Append(q, m) \in Seq(Users \cup {Everyone}) /\ Len(Append(q, m)) = Len(q) + 1
        /\ \A k \in 1..Len(q) : Append(q, m)[k] = q[k]
        /\ Append(q, m)[Len(q) + 1] = m
    BY <1>1
  <2>3. \A k \in 1..(Len(q) + 1) : k \in 1..Len(q) \/ k = Len(q) + 1
    BY <1>1
  <2>4. Addressed(c, Append(q, m))
    BY <2>2, <2>3 DEF Addressed
  <2>5. Len(q) + 1 <= SendCap
    BY <1>1, <1>2
  <2> QED BY <2>1, <2>2, <2>4, <2>5
<1>3. CASE ~(Len(q) < SendCap)
  BY <1>3 DEF Enqueued
<1> QED BY <1>2, <1>3

\* The buffers, each by itself.
LEMMA Buffers ==
    ASSUME IInv
    PROVE  \A c \in Clients : buf[c] \in Seq(Users \cup {Everyone}) /\ Len(buf[c]) <= SendCap /\ Addressed(c, buf[c])
BY DEF IInv, TypeOK, NoCrossDelivery, Addressed

\* The writer takes a message off the channel.
LEMMA WritePumpKeeps ==
    ASSUME IInv, NEW c \in Clients, WritePump(c)
    PROVE  IInv'
<1>1. /\ buf[c] # <<>> /\ buf' = [buf EXCEPT ![c] = Tail(@)]
      /\ UNCHANGED <<hubVars, call, track>> /\ conn' = conn /\ open' = open /\ down' = down
      /\ clients' = clients /\ hub' = hub /\ slice' = slice /\ heap' = heap /\ call' = call /\ track' = track
  BY DEF WritePump, hubVars
<1>2. buf \in [Clients -> Seq(Users \cup {Everyone})]
  BY DEF IInv, TypeOK
<1>3. /\ buf' \in [Clients -> Seq(Users \cup {Everyone})]
      /\ \A d \in Clients : Len(buf'[d]) <= SendCap /\ Addressed(d, buf'[d])
  BY <1>1, <1>2, Buffers, Taken
<1>4. TypeOK'
  BY <1>1, <1>3 DEF IInv, TypeOK
<1>5. Lives'
  BY <1>1 DEF IInv, Lives
<1>6. NoCrossDelivery'
  BY <1>3 DEF NoCrossDelivery, Addressed
<1> QED BY <1>1, <1>4, <1>5, <1>6, LoopAndCallsStay DEF IInv

\* A broadcast finds every registered channel open.
LEMMA HubBroadcastKeeps ==
    ASSUME IInv, HubBroadcast
    PROVE  IInv'
<1>1. /\ buf' = [c \in Clients |-> IF c \in clients \cap open THEN Enqueued(buf[c], Everyone) ELSE buf[c]]
      /\ UNCHANGED <<hubVars, call, track>> /\ conn' = conn /\ open' = open /\ down' \in BOOLEAN
      /\ clients' = clients /\ hub' = hub /\ slice' = slice /\ heap' = heap /\ call' = call /\ track' = track
  BY DEF HubBroadcast, hubVars
<1>2. /\ buf' \in [Clients -> Seq(Users \cup {Everyone})]
      /\ \A d \in Clients : Len(buf'[d]) <= SendCap /\ Addressed(d, buf'[d])
  BY <1>1, Buffers, Queued
<1>3. TypeOK'
  BY <1>1, <1>2 DEF IInv, TypeOK
<1>4. Lives'
  BY <1>1 DEF IInv, Lives
<1>5. NoCrossDelivery'
  BY <1>2 DEF NoCrossDelivery, Addressed
<1> QED BY <1>1, <1>3, <1>4, <1>5, LoopAndCallsStay DEF IInv

-----------------------------------------------------------------------------
\* The copy that append makes: the old cells, the new one, and room for more.
Copy(old, n, cap, c) == [k \in 1..cap |-> IF k <= n THEN old[k] ELSE IF k = n + 1 THEN c ELSE NoClient]

\* Its cells, one by one.
LEMMA Copied ==
    ASSUME NEW old, NEW n \in Nat, NEW cap \in Nat, n + 1 <= cap, NEW c \in Cells,
           \A k \in 1..n : old[k] \in Cells
    PROVE  /\ Copy(old, n, cap, c) \in Seq(Cells) /\ Len(Copy(old, n, cap, c)) = cap
           /\ Copy(old, n, cap, c)[n + 1] = c
           /\ \A k \in 1..n : Copy(old, n, cap, c)[k] = old[k]
           /\ \A k \in 1..cap : k \in 1..n \/ k = n + 1 \/ Copy(old, n, cap, c)[k] = NoClient
<1> DEFINE row == Copy(old, n, cap, c)
<1>1. \A k \in 1..cap : k \in 1..n \/ k = n + 1 \/ k > n + 1
  OBVIOUS
<1>2. \A k \in 1..n : k \in 1..cap /\ k <= n
  OBVIOUS
<1>3. n + 1 \in 1..cap /\ ~(n + 1 <= n)
  OBVIOUS
<1>4. \A k \in 1..n : row[k] = old[k]
  BY <1>2 DEF Copy
<1>5. row[n + 1] = c
  BY <1>3 DEF Copy
<1>6. \A k \in 1..cap : k > n + 1 => row[k] = NoClient
  BY DEF Copy
<1>7. \A k \in 1..cap : row[k] \in Cells
  BY <1>1, <1>4, <1>5, <1>6 DEF Cells
<1>8. row = [k \in 1..cap |-> row[k]]
  BY DEF Copy
<1> HIDE DEF row
<1>9. row \in [1..cap -> Cells]
  BY <1>7, <1>8
<1>10. row \in Seq(Cells) /\ Len(row) = cap
  BY <1>9
<1> QED BY <1>1, <1>4, <1>5, <1>6, <1>10 DEF row

\* append puts c behind the cells of its user's slice and writes nothing else.
Longer(u, c) ==
    /\ heap' \in [Users -> Seq(Seq(Cells))] /\ slice' \in [Users -> [arr : Nat, len : Nat]]
    /\ HeapExtends
    /\ \A w \in Users \ {u} : heap'[w] = heap[w] /\ slice'[w] = slice[w]
    /\ slice'[u].len = slice[u].len + 1
    /\ slice'[u].arr \in 1..Len(heap'[u]) /\ slice'[u].len \in 1..Len(heap'[u][slice'[u].arr])
    /\ slice'[u].arr \in {slice[u].arr, Len(heap[u]) + 1}
    /\ \A k \in 1..slice[u].len : heap'[u][slice'[u].arr][k] = heap[u][slice[u].arr][k]
    /\ heap'[u][slice'[u].arr][slice[u].len + 1] = c
    /\ \A a \in 1..Len(heap[u]) : \A k \in 1..Len(heap[u][a]) :
          ~(a = slice[u].arr /\ k = slice[u].len + 1) => heap'[u][a][k] = heap[u][a][k]
    /\ OwnCells'

\* That is what AppendClient does, with room in the array and without.
LEMMA AppendEffect ==
    ASSUME IInv, NEW c \in Clients, NEW u \in Users, u = UserOf[c], AppendClient(u, c)
    PROVE  Longer(u, c)
<1> DEFINE hd == slice[u].arr
           n == slice[u].len
           L == Len(heap[u])
           old == heap[u][hd]
           cap == IF hd = 0 THEN 1 ELSE 2 * Len(old)
           row == Copy(old, n, cap, c)
<1>1. hd = slice[u].arr /\ n = slice[u].len /\ L = Len(heap[u]) /\ old = heap[u][hd]
  OBVIOUS
<1>0. IF hd = 0 \/ n = Len(old)
      THEN /\ heap' = [heap EXCEPT ![u] = Append(@, row)]
           /\ slice' = [slice EXCEPT ![u] = [arr |-> L + 1, len |-> n + 1]]
      ELSE /\ WriteCell(u, hd, n + 1, c)
           /\ slice' = [slice EXCEPT ![u].len = n + 1]
  BY DEF AppendClient, Copy, WriteCell
<1> HIDE DEF hd, n, L, old, row, cap
<1>2. TypeOK /\ OwnCells /\ Covers(u, hd, n)
  BY <1>1 DEF IInv, Headers
<1>3. /\ hd \in Nat /\ n \in Nat /\ L \in Nat /\ slice[u] = [arr |-> hd, len |-> n]
      /\ slice \in [Users -> [arr : Nat, len : Nat]]
  BY <1>1, <1>2, HeapTypes DEF TypeOK
<1>4. hd # 0 => hd \in 1..L /\ Len(old) \in Nat /\ n \in 1..Len(old)
  BY <1>1, <1>2, HeapTypes DEF Covers
<1>5. \A k \in 1..n : hd # 0 /\ k \in 1..Len(old) /\ old[k] \in Cells
  <2>1. \A k \in 1..n : hd # 0 /\ k \in 1..Len(old)
    BY <1>2, <1>3, <1>4 DEF Covers
  <2> QED BY <2>1, <1>1, <1>2, <1>4, HeapTypes
<1>6. \A w \in Users : Len(heap[w]) \in Nat /\ \A a \in 1..Len(heap[w]) : Len(heap[w][a]) \in Nat
  BY <1>2, HeapTypes
<1>7. c \in Cells
  BY DEF Cells
<1>8. CASE hd = 0 \/ n = Len(old)
  <2>1. cap = IF hd = 0 THEN 1 ELSE 2 * Len(old)
    BY DEF cap
  <2>3. /\ heap' = [heap EXCEPT ![u] = Append(@, row)]
        /\ slice' = [slice EXCEPT ![u] = [arr |-> L + 1, len |-> n + 1]]
    BY <1>0, <1>8
  <2>4. cap \in Nat /\ n + 1 <= cap
    <3>1. hd = 0 => n = 0
      BY <1>2 DEF Covers
    <3> QED BY <1>3, <1>4, <1>8, <2>1, <3>1
  <2>5. /\ row \in Seq(Cells) /\ Len(row) = cap /\ row[n + 1] = c
        /\ \A k \in 1..n : row[k] = old[k]
        /\ \A k \in 1..cap : k \in 1..n \/ k = n + 1 \/ row[k] = NoClient
    <3>1. \A k \in 1..n : old[k] \in Cells
      BY <1>5
    <3>2. n \in Nat /\ cap \in Nat /\ n + 1 <= cap /\ c \in Cells
      BY <1>3, <1>7, <2>4
    <3>3. row = Copy(old, n, cap, c)
      BY DEF row
    <3> QED BY <3>1, <3>2, <3>3, Copied, SMTT(30)
  <2>6. /\ heap' \in [Users -> Seq(Seq(Cells))]
        /\ Len(heap'[u]) = L + 1 /\ heap'[u][L + 1] = row
        /\ \A w \in Users \ {u} : heap'[w] = heap[w]
        /\ \A b \in 1..L : heap'[u][b] = heap[u][b]
    <3>1. row \in Seq(Cells)
      BY <2>5
    <3>2. /\ heap' \in [Users -> Seq(Seq(Cells))]
          /\ Len(heap'[u]) = Len(heap[u]) + 1 /\ heap'[u][Len(heap[u]) + 1] = row
          /\ \A w \in Users \ {u} : heap'[w] = heap[w]
          /\ \A b \in 1..Len(heap[u]) : heap'[u][b] = heap[u][b]
      BY <1>2, <2>3, <3>1, Allocated
    <3> QED BY <1>1, <3>2
  <2>7. slice'[u].arr = L + 1 /\ slice'[u].len = n + 1 /\ \A w \in Users \ {u} : slice'[w] = slice[w]
    BY <1>3, <2>3
  <2>8. slice' \in [Users -> [arr : Nat, len : Nat]]
    BY <1>3, <2>3
  <2>9. HeapExtends
    <3>1. \A w \in Users \ {u} : /\ Len(heap'[w]) \in Nat /\ Len(heap[w]) <= Len(heap'[w])
                                 /\ \A a \in 1..Len(heap[w]) : Len(heap'[w][a]) = Len(heap[w][a])
      BY <1>6, <2>6
    <3>2. /\ Len(heap'[u]) \in Nat /\ Len(heap[u]) <= Len(heap'[u])
          /\ \A a \in 1..Len(heap[u]) : Len(heap'[u][a]) = Len(heap[u][a])
      <4>1. Len(heap'[u]) = L + 1 /\ L = Len(heap[u]) /\ L \in Nat
        BY <1>1, <1>3, <2>6
      <4>2. \A a \in 1..Len(heap[u]) : heap'[u][a] = heap[u][a]
        BY <1>1, <2>6
      <4> QED BY <4>1, <4>2
    <3> QED BY <3>1, <3>2 DEF HeapExtends
  <2>10. \A k \in 1..n : heap'[u][L + 1][k] = heap[u][hd][k]
    BY <1>1, <2>5, <2>6
  <2>11. OwnCells'
    <3> SUFFICES ASSUME NEW w \in Users, NEW a \in 1..Len(heap'[w]), NEW k \in 1..Len(heap'[w][a]),
                        heap'[w][a][k] # NoClient
                 PROVE  UserOf[heap'[w][a][k]] = w
      BY DEF OwnCells
    <3>1. CASE w = u /\ a = L + 1
      <4>1. k \in 1..cap /\ heap'[w][a][k] = row[k]
        BY <2>5, <2>6, <3>1
      <4>2. CASE k \in 1..n
        <5>1. hd \in 1..Len(heap[u]) /\ k \in 1..Len(heap[u][hd]) /\ row[k] = heap[u][hd][k]
          BY <1>1, <1>4, <1>5, <2>5, <4>2
        <5>2. heap[u][hd][k] # NoClient => UserOf[heap[u][hd][k]] = u
          BY <1>2, <5>1 DEF OwnCells
        <5> QED BY <3>1, <4>1, <5>1, <5>2
      <4>3. CASE k = n + 1
        BY <2>5, <3>1, <4>1, <4>3
      <4> QED BY <2>5, <4>1, <4>2, <4>3
    <3>2. CASE w = u /\ a # L + 1
      <4>1. a \in 1..L
        BY <1>3, <2>6, <3>2
      <4>2. heap'[w][a] = heap[w][a]
        BY <2>6, <3>2, <4>1
      <4>3. k \in 1..Len(heap[w][a]) /\ heap'[w][a][k] = heap[w][a][k] /\ a \in 1..Len(heap[w])
        BY <1>1, <3>2, <4>1, <4>2
      <4> QED BY <1>2, <4>3 DEF OwnCells
    <3>3. CASE w # u
      <4>1. heap'[w] = heap[w]
        BY <2>6, <3>3
      <4>2. /\ a \in 1..Len(heap[w]) /\ k \in 1..Len(heap[w][a])
            /\ heap'[w][a][k] = heap[w][a][k]
        BY <4>1
      <4> QED BY <1>2, <4>2 DEF OwnCells
    <3> QED BY <3>1, <3>2, <3>3
  <2>12. L + 1 \in 1..Len(heap'[u]) /\ n + 1 \in 1..Len(heap'[u][L + 1])
    BY <1>3, <2>4, <2>5, <2>6
  <2>13. /\ \A w \in Users \ {u} : heap'[w] = heap[w] /\ slice'[w] = slice[w]
         /\ slice'[u].len = slice[u].len + 1
         /\ slice'[u].arr \in 1..Len(heap'[u]) /\ slice'[u].len \in 1..Len(heap'[u][slice'[u].arr])
         /\ slice'[u].arr \in {slice[u].arr, Len(heap[u]) + 1}
    BY <1>1, <2>6, <2>7, <2>12
  <2>14. /\ \A k \in 1..slice[u].len : heap'[u][slice'[u].arr][k] = heap[u][slice[u].arr][k]
         /\ heap'[u][slice'[u].arr][slice[u].len + 1] = c
    <3>1. heap'[u][slice'[u].arr] = row /\ slice[u].len = n /\ heap[u][slice[u].arr] = heap[u][hd]
      BY <1>1, <2>6, <2>7
    <3>2. \A k \in 1..n : row[k] = heap[u][hd][k]
      BY <1>1, <2>5
    <3> QED BY <2>5, <3>1, <3>2
  <2>15. \A a \in 1..Len(heap[u]) : \A k \in 1..Len(heap[u][a]) :
            ~(a = slice[u].arr /\ k = slice[u].len + 1) => heap'[u][a][k] = heap[u][a][k]
    BY <1>1, <2>6
  <2> QED BY <2>6, <2>8, <2>9, <2>11, <2>13, <2>14, <2>15 DEF Longer
<1>9. CASE hd # 0 /\ n # Len(old)
  <2>1. WriteCell(u, hd, n + 1, c) /\ slice' = [slice EXCEPT ![u].len = n + 1]
    BY <1>0, <1>9
  <2>2. hd \in 1..Len(heap[u]) /\ n + 1 \in 1..Len(heap[u][hd])
    BY <1>1, <1>3, <1>4, <1>9
  <2>3. /\ heap' \in [Users -> Seq(Seq(Cells))]
        /\ \A w \in Users : /\ Len(heap'[w]) = Len(heap[w])
                            /\ \A b \in 1..Len(heap[w]) : Len(heap'[w][b]) = Len(heap[w][b])
        /\ heap'[u][hd][n + 1] = c
        /\ \A w \in Users : \A b \in 1..Len(heap[w]) : \A j \in 1..Len(heap[w][b]) :
              ~(w = u /\ b = hd /\ j = n + 1) => heap'[w][b][j] = heap[w][b][j]
    <3>1. PICK a, k : a = hd /\ k = n + 1
      OBVIOUS
    <3>2. a \in 1..Len(heap[u]) /\ k \in 1..Len(heap[u][a]) /\ WriteCell(u, a, k, c)
      BY <2>1, <2>2, <3>1
    <3>3. OneCell(u, a, k, c)
      BY <1>2, <1>7, <3>2, Written
    <3> QED BY <3>1, <3>3 DEF OneCell
  <2>4. \A w \in Users \ {u} : heap'[w] = heap[w]
    BY <1>2, <2>1 DEF TypeOK, WriteCell
  <2>5. slice'[u].arr = hd /\ slice'[u].len = n + 1 /\ \A w \in Users \ {u} : slice'[w] = slice[w]
    BY <1>3, <2>1
  <2>6. slice' \in [Users -> [arr : Nat, len : Nat]]
    BY <1>3, <2>1
  <2>7. HeapExtends
    <3> SUFFICES ASSUME NEW w \in Users
                 PROVE  /\ Len(heap'[w]) \in Nat /\ Len(heap[w]) <= Len(heap'[w])
                        /\ \A a \in 1..Len(heap[w]) : Len(heap'[w][a]) = Len(heap[w][a])
      BY DEF HeapExtends
    <3>1. Len(heap[w]) \in Nat /\ Len(heap'[w]) = Len(heap[w])
      BY <1>6, <2>3
    <3>2. \A a \in 1..Len(heap[w]) : Len(heap'[w][a]) = Len(heap[w][a])
      BY <2>3
    <3> QED BY <3>1, <3>2
  <2>8. \A k \in 1..n : heap'[u][hd][k] = heap[u][hd][k]
    <3> SUFFICES ASSUME NEW k \in 1..n PROVE heap'[u][hd][k] = heap[u][hd][k]
      OBVIOUS
    <3>1. k \in 1..Len(heap[u][hd]) /\ k # n + 1
      BY <1>1, <1>3, <1>5
    <3> QED BY <2>2, <2>3, <3>1
  <2>9. OwnCells'
    <3> SUFFICES ASSUME NEW w \in Users, NEW a \in 1..Len(heap'[w]), NEW k \in 1..Len(heap'[w][a]),
                        heap'[w][a][k] # NoClient
                 PROVE  UserOf[heap'[w][a][k]] = w
      BY DEF OwnCells
    <3>1. a \in 1..Len(heap[w]) /\ k \in 1..Len(heap[w][a])
      BY <2>3
    <3>2. CASE w = u /\ a = hd /\ k = n + 1
      BY <2>3, <3>2
    <3>3. CASE ~(w = u /\ a = hd /\ k = n + 1)
      <4>1. heap'[w][a][k] = heap[w][a][k]
        BY <2>3, <3>1, <3>3
      <4> QED BY <1>2, <3>1, <4>1 DEF OwnCells
    <3> QED BY <3>2, <3>3
  <2>10. \A a \in 1..Len(heap[u]) : \A k \in 1..Len(heap[u][a]) :
            ~(a = hd /\ k = n + 1) => heap'[u][a][k] = heap[u][a][k]
    BY <2>3
  <2>11. hd \in 1..Len(heap'[u]) /\ n + 1 \in 1..Len(heap'[u][hd])
    BY <2>2, <2>3
  <2>12. /\ \A w \in Users \ {u} : heap'[w] = heap[w] /\ slice'[w] = slice[w]
         /\ slice'[u].len = slice[u].len + 1
         /\ slice'[u].arr \in 1..Len(heap'[u]) /\ slice'[u].len \in 1..Len(heap'[u][slice'[u].arr])
         /\ slice'[u].arr \in {slice[u].arr, Len(heap[u]) + 1}
    BY <1>1, <2>4, <2>5, <2>11
  <2>13. /\ \A k \in 1..slice[u].len : heap'[u][slice'[u].arr][k] = heap[u][slice[u].arr][k]
         /\ heap'[u][slice'[u].arr][slice[u].len + 1] = c
    <3>1. slice'[u].arr = hd /\ slice[u].arr = hd /\ slice[u].len = n
      BY <1>1, <2>5
    <3>2. \A k \in 1..n : heap'[u][hd][k] = heap[u][hd][k]
      BY <1>1, <2>8
    <3> QED BY <2>3, <3>1, <3>2
  <2>14. \A a \in 1..Len(heap[u]) : \A k \in 1..Len(heap[u][a]) :
            ~(a = slice[u].arr /\ k = slice[u].len + 1) => heap'[u][a][k] = heap[u][a][k]
    BY <1>1, <2>10
  <2> QED BY <2>3, <2>6, <2>7, <2>9, <2>12, <2>13, <2>14 DEF Longer
<1> QED BY <1>8, <1>9

\* A connection that registers comes behind the cells that calls cover.
LEMMA HubRegisterKeeps ==
    ASSUME IInv, NEW c \in Clients, HubRegister(c)
    PROVE  IInv'
<1>1. /\ hub.pc = "idle" /\ conn[c] = "registering" /\ conn' = [conn EXCEPT ![c] = "up"]
      /\ clients' = clients \cup {c} /\ AppendClient(UserOf[c], c)
      /\ open' = open /\ buf' = buf /\ hub' = hub /\ call' = call /\ track' = track /\ down' = down
  BY DEF HubRegister
<1>2. PICK u : u = UserOf[c] /\ u \in Users
  BY HubAssumption
<1>3. TypeOK /\ Headers /\ OwnCells /\ Lives /\ NoCrossDelivery /\ \A w \in Users : Listed(w)
  BY DEF IInv
<1>4. /\ heap' \in [Users -> Seq(Seq(Cells))] /\ slice' \in [Users -> [arr : Nat, len : Nat]]
      /\ HeapExtends
      /\ \A w \in Users \ {u} : heap'[w] = heap[w] /\ slice'[w] = slice[w]
      /\ slice'[u].len = slice[u].len + 1
      /\ slice'[u].arr \in 1..Len(heap'[u]) /\ slice'[u].len \in 1..Len(heap'[u][slice'[u].arr])
      /\ slice'[u].arr \in {slice[u].arr, Len(heap[u]) + 1}
      /\ \A k \in 1..slice[u].len : heap'[u][slice'[u].arr][k] = heap[u][slice[u].arr][k]
      /\ heap'[u][slice'[u].arr][slice[u].len + 1] = c
      /\ \A a \in 1..Len(heap[u]) : \A k \in 1..Len(heap[u][a]) :
            ~(a = slice[u].arr /\ k = slice[u].len + 1) => heap'[u][a][k] = heap[u][a][k]
      /\ OwnCells'
  <2>1. Longer(u, c)
    BY <1>1, <1>2, AppendEffect
  <2> QED BY <2>1 DEF Longer
<1>5. TypeOK'
  BY <1>1, <1>3, <1>4 DEF TypeOK, Cells
<1>6. Headers'
  <2>1. \A w \in Users \ {u} : Covers(w, slice[w].arr, slice[w].len)'
    BY <1>3, <1>4 DEF Headers, Covers
  <2>2. Covers(u, slice[u].arr, slice[u].len)'
    BY <1>4 DEF Covers
  <2> QED BY <2>1, <2>2 DEF Headers
<1>7. Lives'
  BY <1>1, <1>3 DEF Lives, TypeOK
<1>8. Shifting'
  BY <1>1 DEF Shifting
<1>9. \A w \in Users : slice[w].len \in Nat /\ Fixed(w) = 1..slice[w].len /\ Fixed(w)' = 1..slice'[w].len
  BY <1>1, <1>3, HeapTypes DEF Fixed
<1>10. \A w \in Users : Due(w) = {d \in clients : UserOf[d] = w} /\ Due(w)' = {d \in clients' : UserOf[d] = w}
  BY <1>1, <1>3 DEF Due, TypeOK
<1>11. c \notin clients /\ Due(u)' = Due(u) \cup {c} /\ \A w \in Users \ {u} : Due(w)' = Due(w)
  BY <1>1, <1>2, <1>3, <1>10 DEF Lives
<1>12. \A w \in Users \ {u} : Listed(w)'
  <2> SUFFICES ASSUME NEW w \in Users \ {u} PROVE Listed(w)'
    OBVIOUS
  <2>1. /\ heap'[w] = heap[w] /\ slice'[w] = slice[w] /\ Due(w)' = Due(w)
        /\ Fixed(w)' = Fixed(w) /\ Listed(w)
    BY <1>1, <1>3, <1>4, <1>11 DEF Fixed
  <2> QED BY <2>1 DEF Listed
<1>13. Listed(u)'
  <2>1. \A k \in 1..slice'[u].len : k \in 1..slice[u].len \/ k = slice[u].len + 1
    BY <1>2, <1>4, <1>9
  <2>2. \A k \in 1..slice[u].len : k \in 1..slice'[u].len
    BY <1>2, <1>4, <1>9
  <2>3. /\ \A k \in 1..slice[u].len : heap[u][slice[u].arr][k] \in Due(u)
        /\ \A d \in Due(u) : \E k \in 1..slice[u].len : heap[u][slice[u].arr][k] = d
        /\ \A j, k \in 1..slice[u].len : heap[u][slice[u].arr][j] = heap[u][slice[u].arr][k] => j = k
    BY <1>1, <1>2, <1>3 DEF Listed, Fixed
  <2>4. slice[u].len + 1 \in 1..slice'[u].len
    BY <1>2, <1>4, <1>9
  <2>5. c \notin Due(u)
    BY <1>10, <1>11, <1>2
  <2>6. \A k \in 1..slice'[u].len : heap'[u][slice'[u].arr][k] \in Due(u) \cup {c}
    BY <1>4, <2>1, <2>3
  <2>7. \A d \in Due(u) \cup {c} : \E k \in 1..slice'[u].len : heap'[u][slice'[u].arr][k] = d
    BY <1>4, <2>2, <2>3, <2>4
  <2>8. \A j, k \in 1..slice'[u].len : heap'[u][slice'[u].arr][j] = heap'[u][slice'[u].arr][k] => j = k
    <3> SUFFICES ASSUME NEW j \in 1..slice'[u].len, NEW k \in 1..slice'[u].len,
                        heap'[u][slice'[u].arr][j] = heap'[u][slice'[u].arr][k]
                 PROVE  j = k
      OBVIOUS
    <3>1. PICK old, new, n : old = heap[u][slice[u].arr] /\ new = heap'[u][slice'[u].arr] /\ n = slice[u].len
      OBVIOUS
    <3>2. /\ \A l \in 1..n : new[l] = old[l] /\ new[l] \in Due(u)
          /\ new[n + 1] = c
          /\ \A x, y \in 1..n : old[x] = old[y] => x = y
      BY <1>4, <2>3, <3>1
    <3>3. (j \in 1..n \/ j = n + 1) /\ (k \in 1..n \/ k = n + 1)
      BY <2>1, <3>1
    <3>4. new[j] = new[k]
      BY <3>1
    <3> QED BY <2>5, <3>2, <3>3, <3>4
  <2> QED BY <1>1, <1>2, <1>11, <2>6, <2>7, <2>8 DEF Listed, Fixed
<1>14. \A s \in Senders : Spared(s)
  <2> SUFFICES ASSUME NEW s \in Senders, Iterating(s), ~track[s].disturbed, call[s].arr # 0
               PROVE  LET w == Head(call[s].todo)
                          a == call[s].arr
                      IN /\ \A j \in 1..call[s].len : heap'[w][a][j] = heap[w][a][j]
                         /\ a = slice'[w].arr => call[s].len <= slice'[w].len
    BY <1>1 DEF Spared
  <2>1. PICK w, a, n : w = Head(call[s].todo) /\ a = call[s].arr /\ n = call[s].len
    OBVIOUS
  <2>2. Placed(s) /\ Exact(s)
    BY DEF IInv
  <2>3. w \in Users /\ Covers(w, a, n) /\ a \in Nat /\ n \in Nat
    BY <1>3, <2>1, <2>2, CallTypes DEF Placed, Iterating
  <2>4. a \in 1..Len(heap[w]) /\ n \in 1..Len(heap[w][a])
    BY <2>1, <2>3 DEF Covers
  <2>5. a = slice[w].arr => n <= slice[w].len
    BY <2>1, <2>2 DEF Exact, Reserved
  <2>6. slice[w].len \in Nat /\ Len(heap[w]) \in Nat /\ Len(heap[w][a]) \in Nat
    BY <1>3, <2>3, <2>4, HeapTypes
  <2>7. \A j \in 1..n : heap'[w][a][j] = heap[w][a][j]
    <3>1. CASE w # u
      BY <1>4, <2>3, <3>1
    <3>2. CASE w = u
      <4> SUFFICES ASSUME NEW j \in 1..n PROVE heap'[w][a][j] = heap[w][a][j]
        OBVIOUS
      <4>1. j \in 1..Len(heap[w][a]) /\ ~(a = slice[w].arr /\ j = slice[w].len + 1)
        BY <2>3, <2>4, <2>5, <2>6
      <4> QED BY <1>4, <2>4, <3>2, <4>1
    <3> QED BY <3>1, <3>2
  <2>8. a = slice'[w].arr => n <= slice'[w].len
    <3>1. CASE w # u
      BY <1>4, <2>3, <2>5, <3>1
    <3>2. CASE w = u
      <4>1. slice'[w].arr \in {slice[w].arr, Len(heap[w]) + 1} /\ slice'[w].len = slice[w].len + 1
        BY <1>4, <3>2
      <4>2. a # Len(heap[w]) + 1
        BY <2>4, <2>6
      <4>3. n \in Nat /\ slice[w].len <= slice'[w].len
        BY <2>4, <2>6, <4>1
      <4> QED BY <2>5, <2>6, <4>1, <4>2, <4>3
    <3> QED BY <3>1, <3>2
  <2> QED BY <2>1, <2>7, <2>8
<1>15. NoCrossDelivery'
  BY <1>1, <1>3 DEF NoCrossDelivery
<1>16. \A s \in Senders : Placed(s)' /\ Exact(s)'
  BY <1>1, <1>4, <1>14, CallsStay
<1> QED BY <1>4, <1>5, <1>6, <1>7, <1>8, <1>2, <1>12, <1>13, <1>15, <1>16 DEF IInv

\* The loop takes the leaving connection out of the registry and closes its
\* channel; the index lists it for one more step.
LEMMA HubUnregisterKeeps ==
    ASSUME IInv, NEW c \in Clients, HubUnregister(c)
    PROVE  IInv'
<1>1. /\ hub.pc = "idle" /\ conn[c] = "leaving" /\ conn' = [conn EXCEPT ![c] = "gone"]
      /\ clients' = clients \ {c} /\ open' = (IF c \in clients THEN open \ {c} ELSE open)
      /\ hub' = (IF c \in clients THEN [pc |-> "lock", cl |-> c, i |-> 0] ELSE hub)
      /\ buf' = buf /\ heap' = heap /\ slice' = slice /\ call' = call /\ track' = track /\ down' = down
  BY DEF HubUnregister
<1>2. TypeOK /\ Headers /\ OwnCells /\ Lives /\ NoCrossDelivery /\ \A w \in Users : Listed(w)
  BY DEF IInv
<1>3. c \in clients /\ conn \in [Clients -> {"none", "registering", "up", "leaving", "gone"}]
      /\ open' = open \ {c} /\ hub'.pc = "lock" /\ hub'.cl = c /\ hub' = [pc |-> "lock", cl |-> c, i |-> 0]
  BY <1>1, <1>2 DEF Lives, TypeOK
<1>4. TypeOK'
  <2>1. hub' \in [pc : {"idle", "lock", "shift"}, cl : Clients \cup {NoClient}, i : Nat]
    BY <1>3
  <2>2. conn' \in [Clients -> {"none", "registering", "up", "leaving", "gone"}]
    BY <1>1, <1>3
  <2> QED BY <1>1, <1>2, <1>3, <2>1, <2>2 DEF TypeOK
<1>5. Headers' /\ OwnCells' /\ NoCrossDelivery'
  BY <1>1, <1>2 DEF Headers, Covers, OwnCells, NoCrossDelivery
<1>6. Lives'
  BY <1>1, <1>2, <1>3 DEF Lives
<1>7. Shifting'
  BY <1>3 DEF Shifting
<1>8. \A w \in Users : Listed(w)'
  <2> SUFFICES ASSUME NEW w \in Users PROVE Listed(w)'
    OBVIOUS
  <2>1. Fixed(w)' = Fixed(w)
    BY <1>1, <1>3 DEF Fixed
  <2>2. Due(w)' = Due(w)
    BY <1>1, <1>2, <1>3 DEF Due, TypeOK
  <2> QED BY <1>1, <1>2, <2>1, <2>2 DEF Listed
<1>9. HeapExtends
  BY <1>1, <1>2, HeapTypes DEF HeapExtends
<1>10. \A s \in Senders : Spared(s)
  BY <1>1, <1>3 DEF IInv, Exact, Reserved, Spared
<1> QED BY <1>1, <1>4, <1>5, <1>6, <1>7, <1>8, <1>9, <1>10, CallsStay DEF IInv

\* removeUserClient finds the connection in one cell; the calls that iterate over
\* the array from here on are disturbed.
LEMMA HubLockKeeps ==
    ASSUME IInv, HubLock
    PROVE  IInv'
<1> DEFINE u == UserOf[hub.cl]
           at == {k \in 1..slice[u].len : heap[u][slice[u].arr][k] = hub.cl}
<1>1. /\ hub.pc = "lock" /\ conn' = conn /\ clients' = clients /\ open' = open
      /\ hub' = (IF at = {} THEN HubIdle
                 ELSE [hub EXCEPT !.pc = "shift", !.i = CHOOSE k \in at : \A l \in at : k <= l])
      /\ track' = [s \in Senders |->
              [track[s] EXCEPT !.disturbed = @ \/ (at # {} /\ Disturbs(s, u))]]
      /\ buf' = buf /\ heap' = heap /\ slice' = slice /\ call' = call /\ down' = down
  BY DEF HubLock
<1>2. TypeOK /\ Headers /\ OwnCells /\ Lives /\ NoCrossDelivery /\ \A w \in Users : Listed(w)
  BY DEF IInv
<1>3. hub.cl \in Clients /\ u \in Users /\ hub.cl \notin clients
  BY <1>1, <1>2, HubAssumption DEF Lives
<1>4. PICK i \in 1..slice[u].len : at = {i}
  <2>1. hub.cl \in Due(u) /\ Fixed(u) = 1..slice[u].len /\ Listed(u)
    BY <1>1, <1>2, <1>3 DEF Due, Fixed
  <2>2. PICK k \in 1..slice[u].len : heap[u][slice[u].arr][k] = hub.cl
    BY <2>1 DEF Listed
  <2>3. \A j \in at : j = k
    BY <2>1, <2>2 DEF Listed
  <2> QED BY <2>2, <2>3
<1>5. slice[u].len \in Nat /\ i \in Nat
  <2>1. slice[u] \in [arr : Nat, len : Nat]
    BY <1>2, <1>3 DEF TypeOK
  <2> QED BY <2>1
<1>6. hub' = [hub EXCEPT !.pc = "shift", !.i = i]
  <2>1. (CHOOSE k \in at : \A l \in at : k <= l) = i
    BY <1>4, <1>5
  <2> QED BY <1>1, <1>4, <2>1
<1> HIDE DEF at
<1>7. /\ hub' \in [pc : {"idle", "lock", "shift"}, cl : Clients \cup {NoClient}, i : Nat]
      /\ hub'.pc = "shift" /\ hub'.cl = hub.cl /\ hub'.i = i
  BY <1>2, <1>5, <1>6 DEF TypeOK
<1>8. \A s \in Senders : /\ track'[s].want = track[s].want /\ track'[s].tried = track[s].tried
                         /\ track'[s].disturbed \in BOOLEAN
                         /\ track'[s] \in [want : SUBSET Clients, tried : Seq(Clients), disturbed : BOOLEAN]
                         /\ Disturbs(s, u) => track'[s].disturbed
                         /\ ~Disturbs(s, u) => track'[s] = track[s]
  <2> SUFFICES ASSUME NEW s \in Senders
               PROVE  /\ track'[s].want = track[s].want /\ track'[s].tried = track[s].tried
                      /\ track'[s].disturbed \in BOOLEAN
                      /\ track'[s] \in [want : SUBSET Clients, tried : Seq(Clients), disturbed : BOOLEAN]
                      /\ Disturbs(s, u) => track'[s].disturbed
                      /\ ~Disturbs(s, u) => track'[s] = track[s]
    OBVIOUS
  <2>1. track[s] \in [want : SUBSET Clients, tried : Seq(Clients), disturbed : BOOLEAN]
    BY <1>2 DEF TypeOK
  <2>2. track'[s] = [track[s] EXCEPT !.disturbed = track[s].disturbed \/ Disturbs(s, u)]
    BY <1>1, <1>4
  <2>3. CASE Disturbs(s, u)
    <3>1. track'[s] = [track[s] EXCEPT !.disturbed = TRUE]
      BY <2>2, <2>3
    <3> QED BY <2>1, <2>3, <3>1
  <2>4. CASE ~Disturbs(s, u)
    <3>1. track'[s] = [track[s] EXCEPT !.disturbed = track[s].disturbed]
      BY <2>1, <2>2, <2>4
    <3>2. track'[s] = track[s]
      BY <2>1, <3>1
    <3> QED BY <2>1, <2>4, <3>2
  <2> QED BY <2>3, <2>4
<1>9. TypeOK'
  <2>1. track' \in [Senders -> [want : SUBSET Clients, tried : Seq(Clients), disturbed : BOOLEAN]]
    BY <1>1, <1>8
  <2> QED BY <1>1, <1>2, <1>7, <2>1 DEF TypeOK
<1>10. Headers' /\ OwnCells' /\ NoCrossDelivery'
  BY <1>1, <1>2 DEF Headers, Covers, OwnCells, NoCrossDelivery
<1>11. Lives' /\ Shifting'
  BY <1>1, <1>2, <1>3, <1>7 DEF Lives, Shifting
<1>12. \A w \in Users : Listed(w)'
  <2> SUFFICES ASSUME NEW w \in Users PROVE Listed(w)'
    OBVIOUS
  <2>1. CASE w # u
    <3>1. Fixed(w)' = Fixed(w) /\ Due(w)' = Due(w)
      BY <1>1, <1>7, <2>1 DEF Fixed, Due
    <3> QED BY <1>1, <1>2, <3>1 DEF Listed
  <2>2. CASE w = u
    <3>1. Fixed(u) = 1..slice[u].len /\ Fixed(u)' = (1..slice[u].len) \ {i}
      BY <1>1, <1>7 DEF Fixed
    <3>2. Due(u)' = Due(u) \ {hub.cl}
      BY <1>1, <1>3, <1>7 DEF Due
    <3>3. heap[u][slice[u].arr][i] = hub.cl
      BY <1>4 DEF at
    <3>4. Listed(u)
      BY <1>2, <1>3
    <3>5. \A k \in Fixed(u)' : k \in Fixed(u) /\ heap[u][slice[u].arr][k] # hub.cl
      BY <3>1, <3>3, <3>4, <1>4 DEF Listed
    <3>6. \A c \in Due(u)' : \E k \in Fixed(u)' : heap[u][slice[u].arr][k] = c
      BY <3>1, <3>2, <3>3, <3>4 DEF Listed
    <3>7. \A k \in Fixed(u)' : heap[u][slice[u].arr][k] \in Due(u)'
      BY <3>2, <3>4, <3>5 DEF Listed
    <3>8. \A j, k \in Fixed(u)' : heap[u][slice[u].arr][j] = heap[u][slice[u].arr][k] => j = k
      BY <3>4, <3>5 DEF Listed
    <3>9. hub'.cl = hub.cl /\ heap' = heap /\ slice' = slice
      BY <1>1, <1>7
    <3> QED BY <2>2, <3>6, <3>7, <3>8, <3>9 DEF Listed
  <2> QED BY <2>1, <2>2
<1>13. HeapExtends
  BY <1>1, <1>2, HeapTypes DEF HeapExtends
<1>14. \A s \in Senders : Spared(s) \/ (Iterating(s) /\ track'[s].disturbed)
  <2> SUFFICES ASSUME NEW s \in Senders PROVE Spared(s) \/ (Iterating(s) /\ track'[s].disturbed)
    OBVIOUS
  <2>1. CASE Disturbs(s, u)
    BY <1>8, <2>1 DEF Disturbs, Iterating
  <2>2. CASE ~Disturbs(s, u)
    <3>1. track'[s] = track[s] /\ heap' = heap /\ slice' = slice
      BY <1>1, <1>8, <2>2
    <3> SUFFICES ASSUME Iterating(s), ~track[s].disturbed, call[s].arr # 0,
                        call[s].arr = slice[Head(call[s].todo)].arr
                 PROVE  /\ call[s].len <= slice[Head(call[s].todo)].len
                        /\ UserOf[hub.cl] # Head(call[s].todo)
      BY <1>7, <3>1 DEF Spared
    <3>2. Reserved(s)
      BY DEF IInv, Exact
    <3>3. call[s].len <= slice[Head(call[s].todo)].len
      BY <3>2 DEF Reserved
    <3>4. UserOf[hub.cl] # Head(call[s].todo)
      BY <2>2 DEF Disturbs, Iterating
    <3> QED BY <3>3, <3>4
  <2> QED BY <2>1, <2>2
<1> QED BY <1>1, <1>9, <1>10, <1>11, <1>12, <1>13, <1>14, CallsStay DEF IInv

\* A cell moves down: the gap moves up by one.
LEMMA HubShiftKeeps ==
    ASSUME IInv, HubShift
    PROVE  IInv'
<1>1. PICK u, a, i, n : u = UserOf[hub.cl] /\ a = slice[u].arr /\ i = hub.i /\ n = slice[u].len
  OBVIOUS
<1>2. /\ hub.pc = "shift" /\ i < n /\ conn' = conn /\ clients' = clients /\ open' = open
      /\ WriteCell(u, a, i, heap[u][a][i + 1]) /\ hub' = [hub EXCEPT !.i = i + 1]
      /\ buf' = buf /\ slice' = slice /\ call' = call /\ track' = track /\ down' = down
  BY <1>1 DEF HubShift, WriteCell
<1>3. TypeOK /\ Headers /\ OwnCells /\ Lives /\ NoCrossDelivery /\ \A w \in Users : Listed(w)
  BY DEF IInv
<1>4. hub.cl \in Clients /\ u \in Users /\ i \in 1..n
  BY <1>1, <1>2, HubAssumption DEF IInv, Lives, Shifting
<1>5. /\ n \in Nat /\ a \in Nat /\ Len(heap[u]) \in Nat /\ i \in Nat /\ i + 1 \in 1..n
  <2>1. n \in Nat /\ a \in Nat /\ Len(heap[u]) \in Nat
    BY <1>1, <1>3, <1>4, HeapTypes
  <2> QED BY <1>2, <1>4, <2>1
<1>6. Covers(u, a, n)
  BY <1>1, <1>3, <1>4 DEF Headers
<1>7. a \in 1..Len(heap[u]) /\ n \in 1..Len(heap[u][a])
  BY <1>5, <1>6 DEF Covers
<1>8. Len(heap[u][a]) \in Nat /\ \A k \in 1..Len(heap[u][a]) : heap[u][a][k] \in Cells
  BY <1>3, <1>4, <1>7, HeapTypes
<1>9. \A k \in 1..n : k \in 1..Len(heap[u][a])
  BY <1>5, <1>7, <1>8
<1>10. PICK v : v = heap[u][a][i + 1]
  OBVIOUS
<1>11. v \in Cells /\ WriteCell(u, a, i, v)
  BY <1>2, <1>5, <1>8, <1>9, <1>10
<1>12. OneCell(u, a, i, v)
  <2>1. i \in 1..Len(heap[u][a])
    BY <1>4, <1>9
  <2> QED BY <1>3, <1>4, <1>7, <1>11, <2>1, Written
<1>13. /\ heap' \in [Users -> Seq(Seq(Cells))]
       /\ \A w \in Users : /\ Len(heap'[w]) = Len(heap[w])
                           /\ \A b \in 1..Len(heap[w]) : Len(heap'[w][b]) = Len(heap[w][b])
       /\ heap'[u][a][i] = v
       /\ \A w \in Users : \A b \in 1..Len(heap[w]) : \A j \in 1..Len(heap[w][b]) :
             ~(w = u /\ b = a /\ j = i) => heap'[w][b][j] = heap[w][b][j]
  BY <1>12 DEF OneCell
<1>14. /\ hub' \in [pc : {"idle", "lock", "shift"}, cl : Clients \cup {NoClient}, i : Nat]
       /\ hub'.pc = "shift" /\ hub'.cl = hub.cl /\ hub'.i = i + 1
  <2>1. hub \in [pc : {"idle", "lock", "shift"}, cl : Clients \cup {NoClient}, i : Nat] /\ i + 1 \in Nat
    BY <1>3, <1>5 DEF TypeOK
  <2> QED BY <1>2, <2>1
<1>15. TypeOK'
  BY <1>2, <1>3, <1>13, <1>14 DEF TypeOK, Cells
<1>16. HeapExtends
  <2> SUFFICES ASSUME NEW w \in Users
               PROVE  /\ Len(heap'[w]) \in Nat /\ Len(heap[w]) <= Len(heap'[w])
                      /\ \A b \in 1..Len(heap[w]) : Len(heap'[w][b]) = Len(heap[w][b])
    BY DEF HeapExtends
  <2>1. Len(heap[w]) \in Nat
    BY <1>3, HeapTypes
  <2>2. Len(heap'[w]) = Len(heap[w])
    BY <1>13
  <2>3. \A b \in 1..Len(heap[w]) : Len(heap'[w][b]) = Len(heap[w][b])
    BY <1>13
  <2> QED BY <2>1, <2>2, <2>3
<1>17. Headers'
  <2> SUFFICES ASSUME NEW w \in Users PROVE Covers(w, slice[w].arr, slice[w].len)'
    BY DEF Headers
  <2>1. PICK b, m : b = slice[w].arr /\ m = slice[w].len
    OBVIOUS
  <2>2. Covers(w, b, m)
    BY <1>3, <2>1 DEF Headers
  <2>3. b # 0 => b \in 1..Len(heap'[w]) /\ m \in 1..Len(heap'[w][b])
    BY <1>13, <2>2 DEF Covers
  <2> QED BY <1>2, <2>1, <2>2, <2>3 DEF Covers
<1>18. OwnCells'
  <2> SUFFICES ASSUME NEW w \in Users, NEW b \in 1..Len(heap'[w]), NEW k \in 1..Len(heap'[w][b]),
                      heap'[w][b][k] # NoClient
               PROVE  UserOf[heap'[w][b][k]] = w
    BY DEF OwnCells
  <2>1. b \in 1..Len(heap[w]) /\ k \in 1..Len(heap[w][b])
    BY <1>13
  <2>2. CASE w = u /\ b = a /\ k = i
    <3>1. i + 1 \in 1..Len(heap[u][a])
      BY <1>5, <1>9
    <3>2. v # NoClient => UserOf[v] = u
      BY <1>3, <1>4, <1>7, <1>10, <3>1 DEF OwnCells
    <3> QED BY <1>13, <2>2, <3>2
  <2>3. CASE ~(w = u /\ b = a /\ k = i)
    <3>1. heap'[w][b][k] = heap[w][b][k]
      BY <1>13, <2>1, <2>3
    <3> QED BY <1>3, <2>1, <3>1 DEF OwnCells
  <2> QED BY <2>2, <2>3
<1>19. Lives' /\ Shifting' /\ NoCrossDelivery'
  BY <1>1, <1>2, <1>3, <1>5, <1>14 DEF Lives, Shifting, NoCrossDelivery
<1>20. \A w \in Users : Due(w)' = Due(w)
  BY <1>2, <1>14 DEF Due
<1>21. \A w \in Users : Listed(w)'
  <2> SUFFICES ASSUME NEW w \in Users PROVE Listed(w)'
    OBVIOUS
  <2>1. CASE w # u
    <3>1. Fixed(w)' = 1..slice[w].len /\ Fixed(w) = 1..slice[w].len
      BY <1>1, <1>2, <1>14, <2>1 DEF Fixed
    <3>2. \A k \in 1..slice[w].len : heap'[w][slice[w].arr][k] = heap[w][slice[w].arr][k]
      <4> SUFFICES ASSUME NEW k \in 1..slice[w].len PROVE heap'[w][slice[w].arr][k] = heap[w][slice[w].arr][k]
        OBVIOUS
      <4>1. Covers(w, slice[w].arr, slice[w].len) /\ slice[w].len \in Nat
        BY <1>3, HeapTypes DEF Headers
      <4>2. slice[w].arr \in 1..Len(heap[w]) /\ slice[w].len \in 1..Len(heap[w][slice[w].arr])
        BY <4>1 DEF Covers
      <4>3. k \in 1..Len(heap[w][slice[w].arr])
        BY <4>1, <4>2
      <4> QED BY <1>13, <2>1, <4>2, <4>3
    <3>3. Listed(w)
      BY <1>3
    <3> QED BY <1>2, <1>20, <3>1, <3>2, <3>3 DEF Listed
  <2>2. CASE w = u
    <3>1. \A k : k \in Fixed(u) <=> k \in 1..n /\ k # i
      BY <1>1, <1>2 DEF Fixed
    <3>2. \A k : k \in Fixed(u)' <=> k \in 1..n /\ k # i + 1
      BY <1>1, <1>2, <1>14 DEF Fixed
    <3>3. \A k \in 1..n : heap'[u][a][k] = heap[u][a][IF k = i THEN i + 1 ELSE k]
      BY <1>4, <1>7, <1>9, <1>10, <1>13
    <3>4. /\ \A k \in Fixed(u) : heap[u][a][k] \in Due(u)
          /\ \A c \in Due(u) : \E k \in Fixed(u) : heap[u][a][k] = c
          /\ \A j, k \in Fixed(u) : heap[u][a][j] = heap[u][a][k] => j = k
      <4>1. Listed(u) /\ slice[u].arr = a
        BY <1>1, <1>3, <1>4
      <4> QED BY <4>1 DEF Listed
    <3>5. i + 1 \in Fixed(u) /\ i \in Fixed(u)' /\ i # i + 1
      BY <1>4, <1>5, <3>1, <3>2
    <3>6. \A k \in Fixed(u)' : heap'[u][a][k] \in Due(u)
      BY <3>1, <3>2, <3>3, <3>4, <3>5
    <3>7. \A c \in Due(u) : \E k \in Fixed(u)' : heap'[u][a][k] = c
      <4> SUFFICES ASSUME NEW c \in Due(u) PROVE \E k \in Fixed(u)' : heap'[u][a][k] = c
        OBVIOUS
      <4>1. PICK k \in Fixed(u) : heap[u][a][k] = c
        BY <3>4
      <4>2. CASE k = i + 1
        BY <1>4, <3>3, <3>5, <4>1, <4>2
      <4>3. CASE k # i + 1
        BY <3>1, <3>2, <3>3, <4>1, <4>3
      <4> QED BY <4>2, <4>3
    <3>8. \A j, k \in Fixed(u)' : heap'[u][a][j] = heap'[u][a][k] => j = k
      BY <3>1, <3>2, <3>3, <3>4, <3>5
    <3>9. a = slice'[w].arr /\ Due(w)' = Due(u)
      BY <1>1, <1>2, <1>4, <1>20, <2>2
    <3> QED BY <2>2, <3>6, <3>7, <3>8, <3>9 DEF Listed
  <2> QED BY <2>1, <2>2
<1>22. \A s \in Senders : Spared(s)
  <2> SUFFICES ASSUME NEW s \in Senders, Iterating(s), ~track[s].disturbed, call[s].arr # 0
               PROVE  /\ \A j \in 1..call[s].len : heap'[Head(call[s].todo)][call[s].arr][j]
                                                   = heap[Head(call[s].todo)][call[s].arr][j]
                      /\ call[s].arr = slice'[Head(call[s].todo)].arr =>
                            /\ call[s].len <= slice'[Head(call[s].todo)].len
                            /\ ~(hub'.pc = "shift" /\ UserOf[hub'.cl] = Head(call[s].todo))
    BY <1>2 DEF Spared
  <2>1. PICK w, b, m : w = Head(call[s].todo) /\ b = call[s].arr /\ m = call[s].len
    OBVIOUS
  <2>2. Placed(s) /\ Exact(s)
    BY DEF IInv
  <2>3. w \in Users /\ Covers(w, b, m) /\ b \in Nat /\ m \in Nat
    BY <1>3, <2>1, <2>2, CallTypes DEF Placed, Iterating
  <2>4. b \in 1..Len(heap[w]) /\ m \in 1..Len(heap[w][b])
    BY <2>1, <2>3 DEF Covers
  <2>5. b = slice[w].arr => m <= slice[w].len /\ ~(UserOf[hub.cl] = w)
    BY <1>2, <2>1, <2>2 DEF Exact, Reserved
  <2>6. Len(heap[w][b]) \in Nat
    BY <1>3, <2>3, <2>4, HeapTypes
  <2>7. \A j \in 1..m : heap'[w][b][j] = heap[w][b][j]
    <3> SUFFICES ASSUME NEW j \in 1..m PROVE heap'[w][b][j] = heap[w][b][j]
      OBVIOUS
    <3>1. j \in 1..Len(heap[w][b]) /\ ~(w = u /\ b = a)
      BY <1>1, <2>3, <2>4, <2>5, <2>6
    <3> QED BY <1>13, <2>3, <2>4, <3>1
  <2>8. b = slice'[w].arr => m <= slice'[w].len /\ ~(hub'.pc = "shift" /\ UserOf[hub'.cl] = w)
    BY <1>2, <1>14, <2>5
  <2> QED BY <2>1, <2>7, <2>8
<1>23. \A s \in Senders : Placed(s)' /\ Exact(s)'
  BY <1>2, <1>16, <1>22, CallsStay
<1> QED BY <1>15, <1>17, <1>18, <1>19, <1>21, <1>23 DEF IInv

\* The gap is the last cell: the header that is stored leaves it out.
LEMMA HubRemovedKeeps ==
    ASSUME IInv, HubRemoved
    PROVE  IInv'
<1>1. PICK u, n : u = UserOf[hub.cl] /\ n = slice[u].len
  OBVIOUS
<1>2. /\ hub.pc = "shift" /\ hub.i = n /\ conn' = conn /\ clients' = clients /\ open' = open
      /\ slice' = [slice EXCEPT ![u] = IF @.len = 1 THEN NoSlice ELSE [arr |-> @.arr, len |-> @.len - 1]]
      /\ hub' = HubIdle /\ heap' = heap
      /\ buf' = buf /\ call' = call /\ track' = track /\ down' = down
  BY <1>1 DEF HubRemoved
<1>3. TypeOK /\ Headers /\ OwnCells /\ Lives /\ NoCrossDelivery /\ \A w \in Users : Listed(w)
  BY DEF IInv
<1>4. hub.cl \in Clients /\ u \in Users /\ n \in 1..n
  BY <1>1, <1>2, HubAssumption DEF IInv, Lives, Shifting
<1>5. /\ slice \in [Users -> [arr : Nat, len : Nat]] /\ slice[u] \in [arr : Nat, len : Nat]
      /\ n \in Nat /\ n # 0 /\ slice[u].arr \in Nat
  BY <1>1, <1>3, <1>4 DEF TypeOK
<1>6. /\ slice'[u] \in [arr : Nat, len : Nat] /\ slice'[u].len = n - 1
      /\ IF n = 1 THEN slice'[u].arr = 0 ELSE slice'[u].arr = slice[u].arr
      /\ \A w \in Users \ {u} : slice'[w] = slice[w]
      /\ slice' \in [Users -> [arr : Nat, len : Nat]]
  <2>1. CASE n = 1
    <3>1. slice' = [slice EXCEPT ![u] = NoSlice]
      BY <1>1, <1>2, <2>1
    <3>2. NoSlice \in [arr : Nat, len : Nat] /\ NoSlice.arr = 0 /\ NoSlice.len = 0
      BY DEF NoSlice
    <3> QED BY <1>4, <1>5, <2>1, <3>1, <3>2
  <2>2. CASE n # 1
    <3>1. \A w \in Users \ {u} : slice'[w] = slice[w]
      BY <1>2, <1>5
    <3>2. slice[u].len - 1 \in Nat /\ slice[u].len = n
      BY <1>1, <1>5
    <3>3. slice'[u] \in [arr : Nat, len : Nat] /\ slice'[u].len = n - 1 /\ slice'[u].arr = slice[u].arr
      <4>1. slice'[u] = [arr |-> slice[u].arr, len |-> slice[u].len - 1]
        BY <1>2, <1>4, <1>5, <2>2, <3>2
      <4> QED BY <1>5, <3>2, <4>1
    <3>4. slice' = [w \in Users |-> slice'[w]]
      BY <1>2, <1>5
    <3> QED BY <1>5, <2>2, <3>1, <3>3, <3>4
  <2> QED BY <2>1, <2>2
<1>7. hub' = [pc |-> "idle", cl |-> NoClient, i |-> 0] /\ hub'.pc = "idle"
  BY <1>2 DEF HubIdle
<1>8. TypeOK'
  BY <1>2, <1>3, <1>6, <1>7 DEF TypeOK
<1>9. Headers'
  <2>1. \A w \in Users \ {u} : Covers(w, slice[w].arr, slice[w].len)'
    BY <1>2, <1>3, <1>6 DEF Headers, Covers
  <2>2. Covers(u, slice[u].arr, slice[u].len)'
    <3>1. Covers(u, slice[u].arr, n)
      BY <1>1, <1>3, <1>4 DEF Headers
    <3>2. slice[u].arr \in 1..Len(heap[u]) /\ n \in 1..Len(heap[u][slice[u].arr])
      BY <1>5, <3>1 DEF Covers
    <3>3. Len(heap[u][slice[u].arr]) \in Nat
      BY <1>3, <1>4, <3>2, HeapTypes
    <3>4. CASE n = 1
      BY <1>6, <3>4 DEF Covers
    <3>5. CASE n # 1
      <4>1. n - 1 \in 1..Len(heap[u][slice[u].arr])
        BY <1>5, <3>2, <3>3, <3>5
      <4> QED BY <1>2, <1>5, <1>6, <3>2, <3>5, <4>1 DEF Covers
    <3> QED BY <3>4, <3>5
  <2> QED BY <2>1, <2>2 DEF Headers
<1>10. OwnCells' /\ Lives' /\ Shifting' /\ NoCrossDelivery'
  BY <1>2, <1>3, <1>7 DEF OwnCells, Lives, Shifting, NoCrossDelivery
<1>11. \A w \in Users : Listed(w)'
  <2> SUFFICES ASSUME NEW w \in Users PROVE Listed(w)'
    OBVIOUS
  <2>1. Due(w)' = Due(w) /\ Listed(w)
    BY <1>2, <1>3, <1>7 DEF Due
  <2>2. CASE w # u
    <3>1. Fixed(w)' = Fixed(w)
      BY <1>1, <1>2, <1>6, <1>7, <2>2 DEF Fixed
    <3> QED BY <1>2, <1>6, <2>1, <2>2, <3>1 DEF Listed
  <2>3. CASE w = u
    <3>1. \A k : k \in Fixed(u) <=> k \in 1..n /\ k # n
      BY <1>1, <1>2 DEF Fixed
    <3>2. \A k : k \in Fixed(u)' <=> k \in 1..(n - 1)
      BY <1>6, <1>7 DEF Fixed
    <3>3. \A k : k \in Fixed(u)' <=> k \in Fixed(u)
      BY <1>5, <3>1, <3>2
    <3>4. \A k \in Fixed(u) : slice'[u].arr = slice[u].arr
      BY <1>5, <1>6, <3>1
    <3> QED BY <1>2, <2>1, <2>3, <3>3, <3>4 DEF Listed
  <2> QED BY <2>2, <2>3
<1>12. HeapExtends
  BY <1>2, <1>3, HeapTypes DEF HeapExtends
<1>13. \A s \in Senders : Spared(s)
  <2> SUFFICES ASSUME NEW s \in Senders, Iterating(s), ~track[s].disturbed, call[s].arr # 0
               PROVE  call[s].arr = slice'[Head(call[s].todo)].arr =>
                         call[s].len <= slice'[Head(call[s].todo)].len
    BY <1>2, <1>7 DEF Spared
  <2>1. Head(call[s].todo) \in Users
    BY <1>3, CallTypes DEF IInv, Placed, Iterating
  <2>2. call[s].arr = slice[Head(call[s].todo)].arr =>
           /\ call[s].len <= slice[Head(call[s].todo)].len
           /\ ~(UserOf[hub.cl] = Head(call[s].todo))
    BY <1>2 DEF IInv, Exact, Reserved
  <2> QED BY <1>1, <1>6, <2>1, <2>2
<1> QED BY <1>2, <1>8, <1>9, <1>10, <1>11, <1>12, <1>13, CallsStay DEF IInv

-----------------------------------------------------------------------------
CallRec == [pc : {"idle", "snap", "load", "send"}, todo : Seq(Users), arr : Nat, len : Nat,
            i : Nat, tgt : Cells]
TrackRec == [want : SUBSET Clients, tried : Seq(Clients), disturbed : BOOLEAN]

\* A step of one call leaves the others where they are.
LEMMA SenderKeeps ==
    ASSUME IInv, UNCHANGED <<hubVars, conn, open>>, down' \in BOOLEAN,
           buf' \in [Clients -> Seq(Users \cup {Everyone})],
           \A d \in Clients : Len(buf'[d]) <= SendCap /\ Addressed(d, buf'[d]),
           NEW s \in Senders, NEW c \in CallRec, NEW t \in TrackRec,
           call' = [call EXCEPT ![s] = c], track' = [track EXCEPT ![s] = t],
           Placed(s)', Exact(s)'
    PROVE  IInv'
<1>1. /\ clients' = clients /\ heap' = heap /\ slice' = slice /\ hub' = hub
      /\ conn' = conn /\ open' = open /\ UNCHANGED hubVars
  BY DEF hubVars
<1>2. TypeOK /\ Lives
  BY DEF IInv
<1>3. TypeOK'
  <2>1. call' \in [Senders -> CallRec] /\ track' \in [Senders -> TrackRec]
    BY <1>2 DEF TypeOK, CallRec, TrackRec, Cells
  <2> QED BY <1>1, <1>2, <2>1 DEF TypeOK, CallRec, TrackRec, Cells
<1>4. Lives' /\ NoCrossDelivery'
  BY <1>1, <1>2 DEF Lives, NoCrossDelivery, Addressed
<1>5. HeapExtends
  BY <1>1, <1>2, HeapTypes DEF HeapExtends
<1>6. \A q \in Senders \ {s} : Placed(q)' /\ Exact(q)'
  <2> SUFFICES ASSUME NEW q \in Senders \ {s} PROVE Placed(q)' /\ Exact(q)'
    OBVIOUS
  <2>1. call'[q] = call[q] /\ track'[q] = track[q]
    BY <1>2 DEF TypeOK
  <2>2. Spared(q)
    BY <1>1, <2>1 DEF IInv, Exact, Reserved, Spared
  <2> QED BY <1>5, <2>1, <2>2, CallStays
<1> QED BY <1>1, <1>3, <1>4, <1>6, IndexStays DEF IInv

\* A call starts with users that are distinct, and has tried nobody.
LEMMA SendStartKeeps ==
    ASSUME IInv, NEW s \in Senders, SendStart(s)
    PROVE  IInv'
<1>1. PICK us : /\ us \in {Members} \cup {<<u>> : u \in Users}
                /\ call' = [call EXCEPT ![s] = [CallIdle EXCEPT !.pc = "snap", !.todo = us]]
  BY DEF SendStart
<1>2. /\ call[s].pc = "idle" /\ UNCHANGED <<hubVars, conn, open>> /\ buf' = buf /\ track' = track /\ down' = down
  BY DEF SendStart
<1>3. TypeOK /\ Exact(s) /\ track[s] = NoTrack
  BY <1>2 DEF IInv, Exact
<1>4. us \in Seq(Users) /\ us # <<>> /\ Distinct(us)
  <2>1. CASE us = Members
    BY <2>1, HubAssumption DEF Distinct
  <2>2. CASE us \in {<<u>> : u \in Users}
    <3>1. PICK u \in Users : us = <<u>>
      BY <2>2
    <3>2. us \in Seq(Users) /\ us # <<>> /\ Len(us) = 1
      BY <3>1
    <3>3. \A j, k \in 1..1 : j = k
      OBVIOUS
    <3> QED BY <3>2, <3>3 DEF Distinct
  <2> QED BY <1>1, <2>1, <2>2
<1>5. PICK c : c = [CallIdle EXCEPT !.pc = "snap", !.todo = us]
  OBVIOUS
<1>6. c \in CallRec /\ c.pc = "snap" /\ c.todo = us
  BY <1>4, <1>5 DEF CallIdle, CallRec, Cells
<1>7. /\ call' = [call EXCEPT ![s] = c] /\ call'[s] = c
      /\ track' = [track EXCEPT ![s] = NoTrack] /\ track'[s] = NoTrack
  BY <1>1, <1>2, <1>3, <1>5 DEF TypeOK
<1>8. NoTrack \in TrackRec
  BY DEF NoTrack, TrackRec
<1>9. Placed(s)'
  BY <1>4, <1>6, <1>7 DEF Placed, Iterating
<1>10. Exact(s)'
  BY <1>4, <1>6, <1>7 DEF Exact, Iterating, Done, Distinct, NoTrack
<1>11. down' \in BOOLEAN /\ buf' \in [Clients -> Seq(Users \cup {Everyone})]
  BY <1>2, <1>3 DEF TypeOK
<1> QED BY <1>2, <1>6, <1>7, <1>8, <1>9, <1>10, <1>11, Buffers, SenderKeeps

\* A call takes the header when the index is right.
LEMMA SendSnapshotKeeps ==
    ASSUME IInv, NEW s \in Senders, SendSnapshot(s)
    PROVE  IInv'
<1>1. PICK u : u = Head(call[s].todo)
  OBVIOUS
<1>2. /\ call[s].pc = "snap" /\ hub.pc # "shift"
      /\ call' = [call EXCEPT ![s] = [@ EXCEPT !.pc = "load", !.i = 1, !.arr = slice[u].arr, !.len = slice[u].len]]
      /\ track' = [track EXCEPT ![s].want = @ \cup Indexed(u)]
      /\ UNCHANGED <<hubVars, conn, open>> /\ buf' = buf /\ down' = down
      /\ heap' = heap /\ slice' = slice /\ hub' = hub
  BY <1>1 DEF SendSnapshot, hubVars
<1>3. TypeOK /\ Placed(s) /\ Exact(s) /\ call[s].todo # <<>> /\ u \in Users
  BY <1>1, <1>2, CallTypes DEF IInv, Placed
<1>4. slice[u].len \in Nat /\ slice[u].arr \in Nat /\ Covers(u, slice[u].arr, slice[u].len)
  BY <1>3, HeapTypes DEF IInv, Headers
<1>5. /\ \A k \in 1..slice[u].len : heap[u][slice[u].arr][k] \in Clients
      /\ \A j, k \in 1..slice[u].len : heap[u][slice[u].arr][j] = heap[u][slice[u].arr][k] => j = k
  <2>1. Listed(u) /\ Fixed(u) = 1..slice[u].len
    BY <1>2, <1>3 DEF IInv, Fixed
  <2> QED BY <2>1 DEF Listed, Due
<1>6. Indexed(u) = {heap[u][slice[u].arr][k] : k \in 1..slice[u].len}
  BY DEF Indexed, View
<1>7. PICK c, t : /\ c = [call[s] EXCEPT !.pc = "load", !.i = 1, !.arr = slice[u].arr, !.len = slice[u].len]
                  /\ t = [track[s] EXCEPT !.want = track[s].want \cup Indexed(u)]
  OBVIOUS
<1>8. call[s] \in CallRec /\ track[s] \in TrackRec
  BY <1>3 DEF TypeOK, CallRec, TrackRec, Cells
<1>9. /\ c \in CallRec /\ c.pc = "load" /\ c.i = 1 /\ c.arr = slice[u].arr /\ c.len = slice[u].len
      /\ c.todo = call[s].todo
  BY <1>4, <1>7, <1>8 DEF CallRec
<1>10. /\ t \in TrackRec /\ t.want = track[s].want \cup Indexed(u) /\ t.tried = track[s].tried
       /\ t.disturbed = track[s].disturbed
  <2>1. Indexed(u) \subseteq Clients
    BY <1>5, <1>6
  <2> QED BY <1>7, <1>8, <2>1 DEF TrackRec
<1>11. /\ call' = [call EXCEPT ![s] = c] /\ call'[s] = c
       /\ track' = [track EXCEPT ![s] = t] /\ track'[s] = t
  BY <1>2, <1>3, <1>7 DEF TypeOK
<1>12. Placed(s)'
  <2>1. 1 \in 1..(slice[u].len + 1)
    BY <1>4
  <2>2. Covers(u, slice[u].arr, slice[u].len)'
    BY <1>2, <1>4 DEF Covers
  <2>3. /\ call'[s].pc = "load" /\ call'[s].todo # <<>> /\ Head(call'[s].todo) = u
        /\ call'[s].arr = slice'[u].arr /\ call'[s].len = slice'[u].len /\ call'[s].i = 1
    BY <1>1, <1>2, <1>3, <1>9, <1>11
  <2> QED BY <1>2, <2>1, <2>2, <2>3 DEF Placed, Iterating
<1>13. Exact(s)'
  <2>1. /\ Distinct(call[s].todo)
        /\ ~track[s].disturbed => /\ Done(s, Len(track[s].tried))
                                  /\ track[s].want = {track[s].tried[k] : k \in 1..Len(track[s].tried)}
    BY <1>2, <1>3 DEF Exact
  <2>2. Len(t.tried) \in Nat /\ Len(t.tried) + 1 - 1 = Len(t.tried)
    BY <1>10 DEF TrackRec
  <2>3. Before(s)' = Len(t.tried) /\ Left(s)' = Left(s)
    BY <1>9, <1>11, <2>2 DEF Before, Left
  <2>4. \A j : Cell(s, j)' = heap[u][slice[u].arr][j]
    BY <1>1, <1>2, <1>9, <1>11 DEF Cell
  <2>5. ~track[s].disturbed => Done(s, Before(s))'
    BY <1>10, <1>11, <2>1, <2>3 DEF Done
  <2>6. ~track[s].disturbed => Passed(s)'
    <3>1. Before(s)' >= 0
      BY <2>2, <2>3
    <3>2. \A j \in 1..(c.i - 1) : FALSE
      BY <1>9
    <3>3. ~track[s].disturbed => t.want = {t.tried[j] : j \in 1..Len(t.tried)} \cup {heap[u][slice[u].arr][j] : j \in 1..c.len}
      BY <1>6, <1>9, <1>10, <2>1
    <3>4. {Cell(s, j)' : j \in 1..c.len} = {heap[u][slice[u].arr][j] : j \in 1..c.len}
      BY <2>4
    <3> QED BY <1>11, <2>3, <3>1, <3>2, <3>3, <3>4 DEF Passed
  <2>7. Covered(s)'
    BY <1>5, <1>9, <1>11, <2>4, HubAssumption DEF Covered
  <2>8. Reserved(s)'
    BY <1>1, <1>2, <1>4, <1>9, <1>11 DEF Reserved
  <2> QED BY <1>9, <1>10, <1>11, <2>1, <2>5, <2>6, <2>7, <2>8 DEF Exact
<1>14. down' \in BOOLEAN /\ buf' \in [Clients -> Seq(Users \cup {Everyone})]
  BY <1>2, <1>3 DEF TypeOK
<1> QED BY <1>2, <1>9, <1>10, <1>11, <1>12, <1>13, <1>14, Buffers, SenderKeeps

\* A call reads the next cell: a connection of the user it sends to.
LEMMA SendLoadKeeps ==
    ASSUME IInv, NEW s \in Senders, SendLoad(s)
    PROVE  IInv'
<1>1. PICK u : u = Head(call[s].todo)
  OBVIOUS
<1>2. /\ call[s].pc = "load" /\ call[s].i <= call[s].len
      /\ call' = [call EXCEPT ![s].pc = "send", ![s].tgt = heap[u][call[s].arr][call[s].i]]
      /\ UNCHANGED <<hubVars, conn, open>> /\ buf' = buf /\ track' = track /\ down' = down
      /\ heap' = heap /\ slice' = slice /\ hub' = hub
  BY <1>1 DEF SendLoad, hubVars
<1>3. /\ TypeOK /\ OwnCells /\ Placed(s) /\ Exact(s) /\ u \in Users /\ Covers(u, call[s].arr, call[s].len)
      /\ call[s].todo # <<>> /\ call[s].i \in 1..(call[s].len + 1)
  BY <1>1, <1>2, CallTypes DEF IInv, Placed, Iterating
<1>4. call[s].i \in Nat /\ call[s].len \in Nat /\ call[s].arr \in Nat /\ call[s].i \in 1..call[s].len
  BY <1>2, <1>3, CallTypes
<1>5. call[s].arr \in 1..Len(heap[u]) /\ call[s].len \in 1..Len(heap[u][call[s].arr])
  BY <1>3, <1>4 DEF Covers
<1>6. call[s].i \in 1..Len(heap[u][call[s].arr])
  BY <1>3, <1>4, <1>5, HeapTypes
<1>7. PICK v : v = heap[u][call[s].arr][call[s].i]
  OBVIOUS
<1>8. v \in Cells /\ (v # NoClient => UserOf[v] = u)
  BY <1>3, <1>5, <1>6, <1>7, HeapTypes DEF OwnCells
<1>9. PICK c : c = [call[s] EXCEPT !.pc = "send", !.tgt = v]
  OBVIOUS
<1>10. call[s] \in CallRec /\ track[s] \in TrackRec
  BY <1>3 DEF TypeOK, CallRec, TrackRec, Cells
<1>11. /\ c \in CallRec /\ c.pc = "send" /\ c.tgt = v
       /\ c.todo = call[s].todo /\ c.arr = call[s].arr /\ c.len = call[s].len /\ c.i = call[s].i
  BY <1>8, <1>9, <1>10 DEF CallRec
<1>12. /\ call' = [call EXCEPT ![s] = c] /\ call'[s] = c
       /\ track' = [track EXCEPT ![s] = track[s]] /\ track'[s] = track[s]
  BY <1>2, <1>3, <1>7, <1>9 DEF TypeOK
<1>13. Placed(s)'
  BY <1>1, <1>2, <1>3, <1>4, <1>8, <1>11, <1>12 DEF Placed, Iterating, Covers
<1>14. Exact(s)'
  <2>1. /\ Distinct(call[s].todo)
        /\ ~track[s].disturbed => Done(s, Before(s)) /\ Passed(s) /\ Covered(s) /\ Reserved(s)
    BY <1>2, <1>3 DEF Exact, Iterating
  <2>2. Before(s)' = Before(s) /\ Left(s)' = Left(s)
    BY <1>11, <1>12 DEF Before, Left
  <2>3. \A j : Cell(s, j)' = Cell(s, j)
    BY <1>2, <1>11, <1>12 DEF Cell
  <2>4. ~track[s].disturbed => Done(s, Before(s))'
    BY <1>12, <2>1, <2>2 DEF Done
  <2>5. ~track[s].disturbed => Passed(s)'
    <3>1. {Cell(s, j)' : j \in 1..call[s].len} = {Cell(s, j) : j \in 1..call[s].len}
      BY <2>3
    <3> QED BY <1>11, <1>12, <2>1, <2>2, <2>3, <3>1 DEF Passed
  <2>6. ~track[s].disturbed => Covered(s)'
    <3>1. c.tgt = Cell(s, c.i)
      BY <1>1, <1>7, <1>11 DEF Cell
    <3> QED BY <1>11, <1>12, <2>1, <2>3, <3>1 DEF Covered
  <2>7. ~track[s].disturbed => Reserved(s)'
    BY <1>2, <1>11, <1>12, <2>1 DEF Reserved
  <2> QED BY <1>11, <1>12, <2>1, <2>4, <2>5, <2>6, <2>7 DEF Exact
<1>15. down' \in BOOLEAN /\ buf' \in [Clients -> Seq(Users \cup {Everyone})]
  BY <1>2, <1>3 DEF TypeOK
<1> QED BY <1>2, <1>10, <1>11, <1>12, <1>13, <1>14, <1>15, Buffers, SenderKeeps

\* Appending to a sequence.
LEMMA Appended ==
    ASSUME NEW S, NEW q \in Seq(S), NEW x \in S
    PROVE  /\ Append(q, x) \in Seq(S) /\ Len(Append(q, x)) = Len(q) + 1 /\ Len(q) \in Nat
           /\ \A k \in 1..Len(q) : Append(q, x)[k] = q[k]
           /\ Append(q, x)[Len(q) + 1] = x
OBVIOUS

\* A call tries the connection it has read, which is none it has tried.
LEMMA SendDeliverKeeps ==
    ASSUME IInv, NEW s \in Senders, SendDeliver(s)
    PROVE  IInv'
<1>1. PICK u, v, i : u = Head(call[s].todo) /\ v = call[s].tgt /\ i = call[s].i
  OBVIOUS
<1>2. /\ call[s].pc = "send" /\ v \in open
      /\ buf' = [buf EXCEPT ![v] = Enqueued(@, u)]
      /\ call' = [call EXCEPT ![s].pc = "load", ![s].i = @ + 1]
      /\ track' = [track EXCEPT ![s].tried = Append(@, v)]
      /\ UNCHANGED <<hubVars, conn, open>> /\ down' = down
      /\ heap' = heap /\ slice' = slice /\ hub' = hub
  BY <1>1 DEF SendDeliver, hubVars
<1>3. /\ TypeOK /\ Placed(s) /\ Exact(s) /\ u \in Users /\ Covers(u, call[s].arr, call[s].len)
      /\ call[s].todo # <<>> /\ i \in 1..(call[s].len + 1) /\ i <= call[s].len
      /\ v # NoClient => UserOf[v] = u
      /\ u \in Left(s)
  BY <1>1, <1>2, CallTypes DEF IInv, Placed, Iterating
<1>4. v \in Clients /\ UserOf[v] = u
  BY <1>2, <1>3, HubAssumption DEF TypeOK
<1>5. i \in Nat /\ call[s].len \in Nat /\ i \in 1..call[s].len /\ i + 1 \in 1..(call[s].len + 1)
  BY <1>1, <1>3, CallTypes
<1>6. /\ buf' \in [Clients -> Seq(Users \cup {Everyone})]
      /\ \A d \in Clients : Len(buf'[d]) <= SendCap /\ Addressed(d, buf'[d])
  <2>1. /\ Enqueued(buf[v], u) \in Seq(Users \cup {Everyone}) /\ Len(Enqueued(buf[v], u)) <= SendCap
        /\ Addressed(v, Enqueued(buf[v], u))
    BY <1>4, Buffers, Queued
  <2>2. buf \in [Clients -> Seq(Users \cup {Everyone})]
    BY <1>3 DEF TypeOK
  <2> QED BY <1>2, <1>4, <2>1, <2>2, Buffers
<1>7. PICK c, t : c = [call[s] EXCEPT !.pc = "load", !.i = i + 1] /\ t = [track[s] EXCEPT !.tried = Append(track[s].tried, v)]
  OBVIOUS
<1>8. call[s] \in CallRec /\ track[s] \in TrackRec
  BY <1>3 DEF TypeOK, CallRec, TrackRec, Cells
<1>9. /\ c \in CallRec /\ c.pc = "load" /\ c.i = i + 1
      /\ c.todo = call[s].todo /\ c.arr = call[s].arr /\ c.len = call[s].len
  <2>1. i + 1 \in Nat
    BY <1>5
  <2> QED BY <1>7, <1>8, <2>1 DEF CallRec
<1>10. /\ t \in TrackRec /\ t.want = track[s].want /\ t.tried = Append(track[s].tried, v)
       /\ t.disturbed = track[s].disturbed
  <2>1. track[s].tried \in Seq(Clients) /\ Append(track[s].tried, v) \in Seq(Clients)
    BY <1>4, <1>8, Appended DEF TrackRec
  <2> QED BY <1>7, <1>8, <2>1 DEF TrackRec
<1>11. /\ call' = [call EXCEPT ![s] = c] /\ call'[s] = c
       /\ track' = [track EXCEPT ![s] = t] /\ track'[s] = t
  BY <1>1, <1>2, <1>3, <1>7 DEF TypeOK
<1>12. Placed(s)'
  BY <1>1, <1>2, <1>3, <1>5, <1>9, <1>11 DEF Placed, Iterating, Covers
<1>13. Exact(s)'
  <2>1. Distinct(call[s].todo)
    BY <1>2, <1>3 DEF Exact
  <2>2. SUFFICES ASSUME ~track[s].disturbed
                 PROVE  Done(s, Before(s))' /\ Passed(s)' /\ Covered(s)' /\ Reserved(s)'
    BY <1>9, <1>10, <1>11, <2>1 DEF Exact
  <2>3. Done(s, Before(s)) /\ Passed(s) /\ Covered(s) /\ Reserved(s)
    BY <1>2, <1>3, <2>2 DEF Exact, Iterating
  <2>4. PICK old, n, b : old = track[s].tried /\ n = Len(old) /\ b = Before(s)
    OBVIOUS
  <2>5. /\ old \in Seq(Clients) /\ n \in Nat /\ t.tried = Append(old, v) /\ Len(t.tried) = n + 1
        /\ \A k \in 1..n : t.tried[k] = old[k]
        /\ t.tried[n + 1] = v
    BY <1>4, <1>8, <1>10, <2>4, Appended DEF TrackRec
  <2>6. b = n + 1 - i /\ b >= 0 /\ b \in Nat /\ b <= n /\ b + i = n + 1
    <3>1. b = n + 1 - i
      BY <1>1, <2>4 DEF Before
    <3>2. b >= 0
      BY <2>3, <2>4 DEF Passed
    <3>3. n \in Nat /\ i \in Nat /\ i >= 1
      BY <1>3, <1>5, <2>5
    <3> QED BY <3>1, <3>2, <3>3
  <2>7. Before(s)' = b /\ Left(s)' = Left(s)
    <3>1. Before(s)' = n + 1 + 1 - (i + 1)
      BY <1>9, <1>11, <2>5 DEF Before
    <3>2. Left(s)' = Left(s)
      BY <1>9, <1>11 DEF Left
    <3>3. n + 1 + 1 - (i + 1) = n + 1 - i
      BY <1>5, <2>5
    <3> QED BY <2>6, <3>1, <3>2, <3>3
  <2>8. \A j : Cell(s, j)' = Cell(s, j)
    BY <1>2, <1>9, <1>11 DEF Cell
  <2>9. /\ Distinct(old) /\ \A j \in 1..b : UserOf[old[j]] \notin Left(s)
        /\ \A j \in 1..(i - 1) : old[b + j] = Cell(s, j)
        /\ track[s].want = {old[j] : j \in 1..b} \cup {Cell(s, j) : j \in 1..call[s].len}
        /\ v = Cell(s, i)
        /\ \A j \in 1..call[s].len : Cell(s, j) # NoClient
        /\ \A j, k \in 1..call[s].len : Cell(s, j) = Cell(s, k) => j = k
    BY <1>1, <1>2, <2>3, <2>4 DEF Done, Passed, Covered
  <2>10. \A k \in 1..n : old[k] # v
    <3> SUFFICES ASSUME NEW k \in 1..n, old[k] = v PROVE FALSE
      OBVIOUS
    <3>1. CASE k <= b
      <4>1. k \in 1..b
        BY <2>5, <2>6, <3>1
      <4> QED BY <1>3, <1>4, <2>9, <4>1
    <3>2. CASE k > b
      <4>1. k - b \in 1..(i - 1) /\ b + (k - b) = k /\ k - b \in 1..call[s].len /\ k - b # i
        <5>1. k \in Nat /\ k <= n /\ n \in Nat /\ i \in Nat /\ call[s].len \in Nat /\ i <= call[s].len
          BY <1>5, <2>5
        <5>2. b \in Nat /\ b + i = n + 1
          BY <2>6
        <5> QED BY <3>2, <5>1, <5>2
      <4>2. Cell(s, k - b) = Cell(s, i)
        BY <2>9, <4>1
      <4> QED BY <1>5, <2>9, <4>1, <4>2
    <3> QED BY <2>5, <2>6, <3>1, <3>2
  <2>11. Distinct(t.tried)
    <3> SUFFICES ASSUME NEW j \in 1..(n + 1), NEW k \in 1..(n + 1), t.tried[j] = t.tried[k] PROVE j = k
      BY <2>5 DEF Distinct
    <3>1. (j \in 1..n \/ j = n + 1) /\ (k \in 1..n \/ k = n + 1)
      BY <2>5
    <3> QED BY <2>4, <2>5, <2>9, <2>10, <3>1 DEF Distinct
  <2>12. \A j \in 1..b : j \in 1..n /\ t.tried[j] = old[j]
    BY <2>5, <2>6
  <2>13. Done(s, Before(s))'
    BY <1>11, <2>7, <2>9, <2>11, <2>12 DEF Done
  <2>14. Passed(s)'
    <3>1. \A j \in 1..i : t.tried[b + j] = Cell(s, j)
      <4> SUFFICES ASSUME NEW j \in 1..i PROVE t.tried[b + j] = Cell(s, j)
        OBVIOUS
      <4>1. CASE j = i
        BY <2>5, <2>6, <2>9, <4>1
      <4>2. CASE j # i
        <5>1. j \in 1..(i - 1) /\ b + j \in 1..n
          BY <1>5, <2>5, <2>6, <4>2
        <5> QED BY <2>5, <2>9, <5>1
      <4> QED BY <4>1, <4>2
    <3>2. {t.tried[j] : j \in 1..b} = {old[j] : j \in 1..b}
      BY <2>12
    <3>3. {Cell(s, j)' : j \in 1..call[s].len} = {Cell(s, j) : j \in 1..call[s].len}
      BY <2>8
    <3>4. (i + 1) - 1 = i
      BY <1>5
    <3>5. \A j \in 1..(c.i - 1) : t.tried[b + j] = Cell(s, j)'
      <4>1. c.i - 1 = i
        <5>1. c.i = i + 1
          BY <1>9
        <5>2. c.i - 1 = (i + 1) - 1
          BY <5>1
        <5> QED BY <3>4, <5>2
      <4> SUFFICES ASSUME NEW j \in 1..i PROVE t.tried[b + j] = Cell(s, j)'
        BY <4>1
      <4>2. t.tried[b + j] = Cell(s, j)
        BY <3>1
      <4>3. Cell(s, j)' = Cell(s, j)
        BY <2>8
      <4> QED BY <4>2, <4>3
    <3>6. t.want = {t.tried[j] : j \in 1..b} \cup {Cell(s, j)' : j \in 1..c.len}
      BY <1>9, <1>10, <2>9, <3>2, <3>3
    <3> QED BY <1>11, <2>6, <2>7, <3>5, <3>6 DEF Passed
  <2>15. Covered(s)'
    BY <1>9, <1>11, <2>8, <2>9 DEF Covered
  <2>16. Reserved(s)'
    BY <1>2, <1>9, <1>11, <2>3 DEF Reserved
  <2> QED BY <2>13, <2>14, <2>15, <2>16
<1>14. down' \in BOOLEAN
  BY <1>2, <1>3 DEF TypeOK
<1> QED BY <1>2, <1>6, <1>9, <1>10, <1>11, <1>12, <1>13, <1>14, SenderKeeps

\* A closed channel ends the call.
LEMMA SendPanicKeeps ==
    ASSUME IInv, NEW s \in Senders, SendPanic(s)
    PROVE  IInv'
<1>1. /\ call' = [call EXCEPT ![s] = CallIdle] /\ track' = [track EXCEPT ![s] = NoTrack]
      /\ UNCHANGED <<hubVars, conn, open>> /\ buf' = buf /\ down' \in BOOLEAN
  BY DEF SendPanic
<1>2. TypeOK
  BY DEF IInv
<1>3. /\ CallIdle \in CallRec /\ CallIdle.pc = "idle" /\ NoTrack \in TrackRec
  BY DEF CallIdle, CallRec, NoTrack, TrackRec, Cells
<1>4. call'[s] = CallIdle /\ track'[s] = NoTrack
  BY <1>1, <1>2 DEF TypeOK
<1>5. Placed(s)' /\ Exact(s)'
  BY <1>3, <1>4 DEF Placed, Exact, Iterating
<1>6. buf' \in [Clients -> Seq(Users \cup {Everyone})]
  BY <1>1, <1>2 DEF TypeOK
<1> QED BY <1>1, <1>3, <1>5, <1>6, Buffers, SenderKeeps

\* At the end of the loop an undisturbed call has tried what it wanted to.
LEMMA TriedAll ==
    ASSUME IInv, NEW s \in Senders, call[s].pc = "load", call[s].i > call[s].len, ~track[s].disturbed
    PROVE  LET tried == track[s].tried
               n == Len(tried)
           IN /\ n \in Nat /\ Before(s) \in Nat /\ Before(s) + call[s].len = n
              /\ track[s].want = {tried[k] : k \in 1..n}
              /\ \A k \in 1..n : k <= Before(s) \/ \E j \in 1..call[s].len : tried[k] = Cell(s, j)
<1>1. PICK tried, n, b, len : tried = track[s].tried /\ n = Len(tried) /\ b = Before(s) /\ len = call[s].len
  OBVIOUS
<1>2. TypeOK /\ Placed(s) /\ Passed(s)
  BY DEF IInv, Exact, Iterating
<1>3. n \in Nat /\ len \in Nat /\ call[s].i \in Nat
  BY <1>1, <1>2, CallTypes
<1>4. call[s].i = len + 1
  <2>1. call[s].i \in 1..(len + 1)
    BY <1>1, <1>2 DEF Placed, Iterating
  <2> QED BY <1>1, <1>3, <2>1
<1>5. b = n + 1 - (len + 1) /\ b >= 0
  BY <1>1, <1>2, <1>4 DEF Before, Passed
<1>6. b \in Nat /\ b + len = n
  BY <1>3, <1>5
<1>7. (len + 1) - 1 = len
  BY <1>3
<1>8. /\ \A j \in 1..len : tried[b + j] = Cell(s, j)
      /\ track[s].want = {tried[j] : j \in 1..b} \cup {Cell(s, j) : j \in 1..len}
  <2>1. /\ \A j \in 1..(call[s].i - 1) : track[s].tried[Before(s) + j] = Cell(s, j)
        /\ track[s].want = {track[s].tried[j] : j \in 1..Before(s)} \cup {Cell(s, j) : j \in 1..call[s].len}
    BY <1>2 DEF Passed
  <2>2. call[s].i - 1 = len
    <3>1. call[s].i - 1 = (len + 1) - 1
      BY <1>4
    <3> QED BY <1>7, <3>1
  <2>3. \A j \in 1..len : track[s].tried[Before(s) + j] = Cell(s, j)
    BY <2>1, <2>2
  <2> QED BY <1>1, <2>1, <2>3
<1>9. \A k \in 1..n : k <= b \/ \E j \in 1..len : tried[k] = Cell(s, j)
  <2> SUFFICES ASSUME NEW k \in 1..n, ~(k <= b) PROVE \E j \in 1..len : tried[k] = Cell(s, j)
    OBVIOUS
  <2>1. k - b \in 1..len /\ b + (k - b) = k
    BY <1>3, <1>6
  <2> QED BY <1>8, <2>1
<1>10. \A x : x \in track[s].want <=> \E k \in 1..n : x = tried[k]
  <2> SUFFICES ASSUME NEW x PROVE x \in track[s].want <=> \E k \in 1..n : x = tried[k]
    OBVIOUS
  <2>1. ASSUME x \in track[s].want PROVE \E k \in 1..n : x = tried[k]
    <3>1. CASE \E j \in 1..b : x = tried[j]
      <4>1. \A j \in 1..b : j \in 1..n
        BY <1>3, <1>6
      <4> QED BY <3>1, <4>1
    <3>2. CASE \E j \in 1..len : x = Cell(s, j)
      <4>1. PICK j \in 1..len : x = Cell(s, j)
        BY <3>2
      <4>2. b + j \in 1..n
        BY <1>3, <1>6
      <4> QED BY <1>8, <4>1, <4>2
    <3> QED BY <1>8, <2>1, <3>1, <3>2
  <2>2. ASSUME NEW k \in 1..n, x = tried[k] PROVE x \in track[s].want
    <3>1. CASE k <= b
      <4>1. k \in 1..b
        BY <1>3, <1>6, <3>1
      <4> QED BY <1>8, <2>2, <4>1
    <3>2. CASE ~(k <= b)
      BY <1>8, <1>9, <2>2, <3>2
    <3> QED BY <3>1, <3>2
  <2> QED BY <2>1, <2>2
<1>11. track[s].want = {tried[k] : k \in 1..n}
  BY <1>10
<1> QED BY <1>1, <1>3, <1>6, <1>9, <1>11

\* A call that goes on with the next user is done with this one.
LEMMA SendReturnKeeps ==
    ASSUME IInv, NEW s \in Senders, SendReturn(s)
    PROVE  IInv'
<1>1. PICK todo, rest : todo = call[s].todo /\ rest = Tail(todo)
  OBVIOUS
<1>2. /\ call[s].pc = "load" /\ call[s].i > call[s].len
      /\ call' = [call EXCEPT ![s] = IF rest = <<>> THEN CallIdle
                                     ELSE [CallIdle EXCEPT !.pc = "snap", !.todo = rest]]
      /\ track' = [track EXCEPT ![s] = IF rest = <<>> THEN NoTrack ELSE @]
      /\ UNCHANGED <<hubVars, conn, open>> /\ buf' = buf /\ down' = down
  BY <1>1 DEF SendReturn
<1>3. TypeOK /\ Placed(s) /\ Exact(s) /\ todo \in Seq(Users) /\ todo # <<>> /\ Distinct(todo)
  BY <1>1, <1>2, CallTypes DEF IInv, Placed, Exact
<1>4. /\ rest \in Seq(Users) /\ Len(todo) \in Nat /\ Len(rest) = Len(todo) - 1 /\ Len(rest) \in Nat
      /\ \A k \in 1..Len(rest) : rest[k] = todo[k + 1]
      /\ Head(todo) = todo[1]
  BY <1>1, <1>3
<1>5. \A k \in 1..Len(rest) : k + 1 \in 1..Len(todo) /\ k + 1 # 1
  BY <1>4
<1>6. 1 \in 1..Len(todo)
  BY <1>3
<1>7. down' \in BOOLEAN /\ buf' \in [Clients -> Seq(Users \cup {Everyone})]
  BY <1>2, <1>3 DEF TypeOK
<1>8. track[s] \in TrackRec
  BY <1>3 DEF TypeOK, TrackRec
<1>9. CASE rest = <<>>
  <2>1. call' = [call EXCEPT ![s] = CallIdle] /\ track' = [track EXCEPT ![s] = NoTrack]
    BY <1>2, <1>9
  <2>2. /\ CallIdle \in CallRec /\ CallIdle.pc = "idle" /\ NoTrack \in TrackRec
    BY DEF CallIdle, CallRec, NoTrack, TrackRec, Cells
  <2>3. call'[s] = CallIdle /\ track'[s] = NoTrack
    BY <1>3, <2>1 DEF TypeOK
  <2>4. Placed(s)' /\ Exact(s)'
    BY <2>2, <2>3 DEF Placed, Exact, Iterating
  <2> QED BY <1>2, <1>7, <2>1, <2>2, <2>4, Buffers, SenderKeeps
<1>10. CASE rest # <<>>
  <2>1. PICK c : c = [CallIdle EXCEPT !.pc = "snap", !.todo = rest]
    OBVIOUS
  <2>2. c \in CallRec /\ c.pc = "snap" /\ c.todo = rest
    BY <1>4, <2>1 DEF CallIdle, CallRec, Cells
  <2>3. /\ call' = [call EXCEPT ![s] = c] /\ call'[s] = c
        /\ track' = [track EXCEPT ![s] = track[s]] /\ track'[s] = track[s]
    BY <1>2, <1>3, <1>10, <2>1 DEF TypeOK
  <2>4. Placed(s)'
    BY <1>10, <2>2, <2>3 DEF Placed, Iterating
  <2>5. Distinct(rest)
    <3> SUFFICES ASSUME NEW j \in 1..Len(rest), NEW k \in 1..Len(rest), rest[j] = rest[k] PROVE j = k
      BY DEF Distinct
    <3>1. j + 1 = k + 1
      BY <1>3, <1>4, <1>5 DEF Distinct
    <3> QED BY <1>4, <3>1
  <2>6. Left(s) = {todo[k] : k \in 1..Len(todo)} /\ Left(s)' = {rest[k] : k \in 1..Len(rest)}
    BY <1>1, <2>2, <2>3 DEF Left
  <2>7. Left(s)' \subseteq Left(s) /\ Head(todo) \notin Left(s)'
    <3>1. Left(s)' \subseteq Left(s)
      BY <1>4, <1>5, <2>6
    <3>2. \A k \in 1..Len(rest) : rest[k] # Head(todo)
      BY <1>3, <1>4, <1>5, <1>6 DEF Distinct
    <3> QED BY <2>6, <3>1, <3>2
  <2>8. ASSUME ~track[s].disturbed
        PROVE  /\ Done(s, Len(track[s].tried))'
               /\ track[s].want = {track[s].tried[k] : k \in 1..Len(track[s].tried)}
    <3>1. PICK tried, n, b, len : tried = track[s].tried /\ n = Len(tried) /\ b = Before(s) /\ len = call[s].len
      OBVIOUS
    <3>2. /\ n \in Nat /\ b \in Nat
          /\ track[s].want = {tried[k] : k \in 1..n}
          /\ \A k \in 1..n : k <= b \/ \E j \in 1..len : tried[k] = Cell(s, j)
      BY <1>2, <2>8, <3>1, TriedAll
    <3>3. Done(s, b) /\ \A j \in 1..len : Cell(s, j) # NoClient
      BY <1>2, <1>3, <2>8, <3>1 DEF Exact, Iterating, Covered
    <3>4. \A k \in 1..n : UserOf[tried[k]] \notin Left(s)'
      <4> SUFFICES ASSUME NEW k \in 1..n PROVE UserOf[tried[k]] \notin Left(s)'
        OBVIOUS
      <4>1. CASE k <= b
        <5>1. k \in 1..b
          BY <3>2, <4>1
        <5> QED BY <2>7, <3>1, <3>3, <5>1 DEF Done
      <4>2. CASE \E j \in 1..len : tried[k] = Cell(s, j)
        <5>1. PICK j \in 1..len : tried[k] = Cell(s, j)
          BY <4>2
        <5>2. PICK u, a : u = Head(call[s].todo) /\ a = call[s].arr
          OBVIOUS
        <5>3. u \in Users /\ Covers(u, a, len) /\ len \in Nat /\ a \in Nat
          BY <1>1, <1>2, <1>3, <3>1, <5>2, CallTypes DEF Placed, Iterating
        <5>4. a \in 1..Len(heap[u]) /\ len \in 1..Len(heap[u][a])
          BY <5>3 DEF Covers
        <5>5. j \in 1..Len(heap[u][a])
          BY <1>3, <5>3, <5>4, HeapTypes
        <5>6. heap[u][a][j] # NoClient => UserOf[heap[u][a][j]] = u
          BY <5>3, <5>4, <5>5 DEF IInv, OwnCells
        <5>7. UserOf[tried[k]] = Head(todo)
          BY <1>1, <3>3, <5>1, <5>2, <5>6 DEF Cell
        <5> QED BY <2>7, <5>7
      <4> QED BY <3>2, <4>1, <4>2
    <3>5. Distinct(tried)
      BY <3>1, <3>3 DEF Done
    <3> QED BY <2>3, <3>1, <3>2, <3>4, <3>5 DEF Done
  <2>9. Exact(s)'
    BY <2>2, <2>3, <2>5, <2>8 DEF Exact, Iterating
  <2> QED BY <1>2, <1>7, <1>8, <2>2, <2>3, <2>4, <2>9, Buffers, SenderKeeps
<1> QED BY <1>9, <1>10

\* An empty hub, at the start and after a restart, satisfies the invariant.
LEMMA InitIInv == Init => IInv
<1> SUFFICES ASSUME Init PROVE IInv
  OBVIOUS
<1>1. /\ HubIdle = [pc |-> "idle", cl |-> NoClient, i |-> 0]
      /\ CallIdle \in CallRec /\ CallIdle.pc = "idle" /\ NoTrack \in TrackRec
      /\ NoSlice.arr = 0 /\ NoSlice.len = 0 /\ NoSlice \in [arr : Nat, len : Nat]
  BY DEF HubIdle, CallIdle, CallRec, NoTrack, TrackRec, Cells, NoSlice
<1>2. TypeOK
  <2>1. \A c \in Clients : buf[c] = <<>> /\ Len(buf[c]) <= SendCap
    BY HubAssumption DEF Init
  <2>2. /\ call \in [Senders -> CallRec] /\ track \in [Senders -> TrackRec]
        /\ slice \in [Users -> [arr : Nat, len : Nat]]
        /\ hub \in [pc : {"idle", "lock", "shift"}, cl : Cells, i : Nat]
    BY <1>1 DEF Init, Cells
  <2>3. buf \in [Clients -> Seq(Users \cup {Everyone})]
    <3>1. \A S : <<>> \in Seq(S)
      OBVIOUS
    <3> QED BY <3>1 DEF Init
  <2>4. heap \in [Users -> Seq(Seq(Cells))]
    <3>1. \A S : <<>> \in Seq(S)
      OBVIOUS
    <3> QED BY <3>1 DEF Init
  <2>5. /\ conn \in [Clients -> {"none", "registering", "up", "leaving", "gone"}]
        /\ clients \subseteq Clients /\ open \subseteq Clients /\ down \in BOOLEAN
    BY DEF Init
  <2> QED BY <2>1, <2>2, <2>3, <2>4, <2>5 DEF TypeOK, CallRec, TrackRec, Cells
<1>3. /\ hub.pc = "idle"
      /\ \A u \in Users : slice[u].arr = 0 /\ slice[u].len = 0 /\ heap[u] = <<>>
      /\ \A s \in Senders : call[s].pc = "idle" /\ track[s] = NoTrack
      /\ clients = {}
  BY <1>1 DEF Init
<1>4. Headers /\ OwnCells
  <2>1. \A u \in Users : Len(heap[u]) = 0
    BY <1>3
  <2> QED BY <1>3, <2>1 DEF Headers, OwnCells, Covers
<1>5. Lives /\ Shifting
  BY <1>3 DEF Lives, Shifting, Init
<1>6. \A u \in Users : Listed(u)
  <2> SUFFICES ASSUME NEW u \in Users PROVE Listed(u)
    OBVIOUS
  <2>1. Due(u) = {} /\ Fixed(u) = {}
    BY <1>3 DEF Due, Fixed
  <2> QED BY <2>1 DEF Listed
<1>7. \A s \in Senders : Placed(s) /\ Exact(s)
  BY <1>3 DEF Placed, Exact, Iterating
<1>8. NoCrossDelivery
  <2>1. \A c \in Clients : Len(buf[c]) = 0
    BY DEF Init
  <2> QED BY <2>1 DEF NoCrossDelivery
<1> QED BY <1>2, <1>4, <1>5, <1>6, <1>7, <1>8 DEF IInv

\* A step in which nothing happens keeps the invariant.
LEMMA StutterKeeps ==
    ASSUME IInv, UNCHANGED vars
    PROVE  IInv'
<1>1. UNCHANGED <<hubVars, call, track>>
  BY DEF vars, hubVars
<1>2. TypeOK /\ Lives /\ NoCrossDelivery
  BY DEF IInv
<1>3. /\ conn' = conn /\ clients' = clients /\ open' = open /\ buf' = buf /\ heap' = heap
      /\ slice' = slice /\ hub' = hub /\ call' = call /\ track' = track /\ down' = down
  BY DEF vars
<1>4. TypeOK' /\ Lives' /\ NoCrossDelivery'
  BY <1>2, <1>3 DEF TypeOK, Lives, NoCrossDelivery
<1> QED BY <1>1, <1>4, LoopAndCallsStay DEF IInv

\* A restart leaves the state of a new process.
LEMMA RestartIsInit == Restart => Init'
BY DEF Restart, Init

\* The steps of the connections, the loop and the calls keep the invariant.
LEMMA StepKeeps ==
    ASSUME IInv, [Next]_vars, ~Restart
    PROVE  IInv'
<1>1. CASE \E c \in Clients : ClientStep(c)
  <2>1. PICK c \in Clients : ClientStep(c)
    BY <1>1
  <2> QED BY <2>1, UpgradeKeeps, ReadPumpExitKeeps, WritePumpKeeps DEF ClientStep
<1>2. CASE HubStep
  BY <1>2, HubRegisterKeeps, HubUnregisterKeeps, HubLockKeeps, HubShiftKeeps, HubRemovedKeeps,
     HubBroadcastKeeps DEF HubStep
<1>3. CASE \E s \in Senders : SenderStep(s)
  <2>1. PICK s \in Senders : SenderStep(s)
    BY <1>3
  <2> QED BY <2>1, SendStartKeeps, SendSnapshotKeeps, SendLoadKeeps, SendDeliverKeeps,
             SendPanicKeeps, SendReturnKeeps DEF SenderStep
<1>4. CASE UNCHANGED vars
  BY <1>4, StutterKeeps
<1> QED BY <1>1, <1>2, <1>3, <1>4 DEF Next

\* The whole of the invariant holds in every reachable state.
THEOREM Invariance == Spec => []IInv
<1>1. IInv /\ [Next]_vars /\ ~Restart => IInv'
  BY StepKeeps
<1>2. IInv /\ [Next]_vars => IInv'
  BY <1>1, InitIInv, RestartIsInit, PTL
<1> QED BY InitIInv, <1>2, PTL DEF Spec

\* The state of the hub stays what its types say (Hub, Client.send, SendToUser).
THEOREM TypeCorrect == Spec => []TypeOK
<1>1. IInv => TypeOK
  BY DEF IInv
<1> QED BY <1>1, Invariance, PTL

\* SendToUser hands a message to connections of its user only, whatever the loop
\* does to the array meanwhile.
THEOREM OnlyToItsUser == Spec => []NoCrossDelivery
<1>1. IInv => NoCrossDelivery
  BY DEF IInv
<1> QED BY <1>1, Invariance, PTL

\* As many elements as positions, when no two positions hold the same.
LEMMA Counted ==
    ASSUME NEW n \in Nat, NEW q, \A j, k \in 1..n : q[j] = q[k] => j = k
    PROVE  Cardinality({q[k] : k \in 1..n}) = n
<1>1. PICK g : g = [k \in 1..n |-> q[k]]
  OBVIOUS
<1>2. g \in [1..n -> {q[k] : k \in 1..n}]
  BY <1>1
<1>3. \A j, k \in 1..n : g[j] = g[k] => j = k
  BY <1>1
<1>4. \A x \in {q[k] : k \in 1..n} : \E k \in 1..n : g[k] = x
  BY <1>1
<1>5. ExistsBijection(1..n, {q[k] : k \in 1..n})
  BY <1>2, <1>3, <1>4 DEF ExistsBijection, Bijection, Injection, Surjection, IsInjective
<1> QED BY <1>5, FS_CountingElements

\* Between two events of the loop, userClients lists each registered client of a
\* user once, and the registered clients are those with an open channel that have
\* left the Register channel (Run, removeUserClient).
THEOREM IndexIsRight == Spec => []IndexMatchesRegistry
<1>1. IInv => IndexMatchesRegistry
  <2> SUFFICES ASSUME IInv, hub.pc = "idle"
               PROVE  /\ \A u \in Users : /\ Indexed(u) = {c \in clients : UserOf[c] = u}
                                          /\ slice[u].len = Cardinality(Indexed(u))
                      /\ clients = {c \in open : conn[c] # "registering"}
    BY DEF IndexMatchesRegistry
  <2>1. TypeOK /\ Lives /\ \A u \in Users : Listed(u)
    BY DEF IInv
  <2>2. ASSUME NEW u \in Users
        PROVE  /\ Indexed(u) = {c \in clients : UserOf[c] = u}
               /\ slice[u].len = Cardinality(Indexed(u))
    <3>1. PICK q, n : q = heap[u][slice[u].arr] /\ n = slice[u].len
      OBVIOUS
    <3>2. n \in Nat
      BY <2>1, <3>1, HeapTypes
    <3>3. Fixed(u) = 1..n /\ Due(u) = {c \in clients : UserOf[c] = u}
      BY <2>1, <3>1 DEF Fixed, Due, TypeOK
    <3>4. /\ \A k \in 1..n : q[k] \in Due(u)
          /\ \A c \in Due(u) : \E k \in 1..n : q[k] = c
          /\ \A j, k \in 1..n : q[j] = q[k] => j = k
      <4>1. Listed(u)
        BY <2>1
      <4> QED BY <3>1, <3>3, <4>1 DEF Listed
    <3>5. Indexed(u) = {q[k] : k \in 1..n}
      BY <3>1 DEF Indexed, View
    <3>6. Indexed(u) = {c \in clients : UserOf[c] = u}
      BY <3>3, <3>4, <3>5
    <3>7. Cardinality({q[k] : k \in 1..n}) = n
      BY <3>2, <3>4, Counted
    <3> QED BY <3>1, <3>5, <3>6, <3>7
  <2>3. clients = {c \in open : conn[c] # "registering"}
    BY <2>1 DEF Lives
  <2> QED BY <2>2, <2>3
<1> QED BY <1>1, Invariance, PTL

\* A SendToUser no removal has disturbed tries each connection that was in the
\* index when it looked exactly once, whatever Register appends meanwhile.
THEOREM UndisturbedExact == Spec => []UndisturbedCallIsExact
<1>1. IInv => UndisturbedCallIsExact
  <2> SUFFICES ASSUME IInv, NEW s \in Senders,
                      call[s].pc = "load", call[s].i > call[s].len, ~track[s].disturbed
               PROVE  /\ track[s].want = {track[s].tried[k] : k \in 1..Len(track[s].tried)}
                      /\ Len(track[s].tried) = Cardinality(track[s].want)
    BY DEF UndisturbedCallIsExact
  <2>1. PICK tried, n : tried = track[s].tried /\ n = Len(tried)
    OBVIOUS
  <2>2. n \in Nat /\ track[s].want = {tried[k] : k \in 1..n}
    BY <2>1, TriedAll
  <2>3. \A j, k \in 1..n : tried[j] = tried[k] => j = k
    BY <2>1 DEF IInv, Exact, Iterating, Done, Distinct
  <2>4. Cardinality({tried[k] : k \in 1..n}) = n
    BY <2>2, <2>3, Counted
  <2> QED BY <2>1, <2>2, <2>4
<1> QED BY <1>1, Invariance, PTL

=============================================================================
