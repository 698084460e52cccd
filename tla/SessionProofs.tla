--------------------------- MODULE SessionProofs ---------------------------
(***************************************************************************)
(* Proofs about Session, for any sessions, users, token generations and    *)
(* any number of requests at a time.  What the two properties say about a  *)
(* session with no request at work on it does not survive a step by        *)
(* itself: the invariant says of each request what it still has to do.     *)
(* Every key that exists holds the current token (CopiesRight) and the id  *)
(* key follows it, unless a request is about to write the id key or to     *)
(* delete the access key (IdKeyFollows); a revoked session is cached, or a *)
(* copy of it held, only while a logout is at work (Withdrawn); and a      *)
(* request has the generation and the user that the row has (HoldsRow).    *)
(* The row of a session may go with its device: its keys stay as they      *)
(* were, and the row is then what it would have been.                      *)
(*                                                                         *)
(* The second part is about Http, the requests that such a session lets    *)
(* in: its counters, its answers and its routes (HttpInv).                 *)
(***************************************************************************)
EXTENDS Session, Http, FiniteSetTheorems, TLAPS

\* The operations that run by themselves.
Sole == {"refresh", "revokeAll", "switch"}

Call == [op : {None, "create", "find", "revoke"} \cup Sole,
         pc : {"idle", "setAccess", "setId", "commit", "slide", "revokeId", "revokeRow",
               "revokeAccess", "oldAccess", "oldId", "updateRow", "updateUser", "deleteKeys",
               "deleteAccess", "deleteId"},
         s : Sessions \cup {0}, g : 0..MaxGen, user : Users \cup {None},
         todo : SUBSET (Sessions \cup Gens)]

\* The steps of each operation.
Shape(c) ==
    /\ c \in Call
    /\ c.op = None => c.pc = "idle"
    /\ c.op = "create" => c.pc \in {"setAccess", "setId", "commit"}
    /\ c.op = "find" => c.pc \in {"setAccess", "setId", "slide"}
    /\ c.op = "revoke" => c.pc \in {"revokeId", "revokeRow", "revokeAccess"}
    /\ c.op = "refresh" => c.pc \in {"oldAccess", "oldId", "updateRow", "setAccess", "setId"}
    /\ c.op = "switch" => c.pc \in {"updateUser", "setAccess", "setId"}
    /\ c.op = "revokeAll" => /\ c.pc \in {"deleteKeys", "deleteAccess", "deleteId"}
                             /\ c.todo \subseteq Sessions
    /\ c.op \notin {None, "revokeAll"} \/ c.pc = "deleteAccess" => c.s \in Sessions /\ c.g \in Gens
    /\ c.pc = "deleteId" => c.s \in Sessions

RunAlone == \A r \in Calls : call[r].op \in Sole =>
                call[r].op \in Unrouted /\ \A q \in Calls \ {r} : call[q].op = None

\* Request r works on session s.
At(r, s) == call[r].s = s /\ call[r].op \notin {None, "revokeAll"}

CopiesRight(s) ==
    \A g \in Cached(s) :
        \/ /\ db[s].st # "none" /\ g = db[s].gen
           /\ \/ access[<<s, g>>] = db[s].user
              \/ \E r \in Calls : At(r, s) /\ call[r].op = "switch" /\ call[r].pc = "setAccess"
        \/ \E r \in Calls : /\ At(r, s) /\ call[r].op = "create" /\ call[r].pc # "setAccess"
                            /\ g = call[r].g /\ access[<<s, g>>] = call[r].user

IdKeyFollows(s) ==
    \A g \in Cached(s) :
        \/ idKey[s] = g
        \/ \E r \in Calls : At(r, s) /\ call[r].pc \in {"setId", "revokeRow", "revokeAccess"}

Withdrawn(s) ==
    db[s].st = "revoked" /\ (Cached(s) # {} \/ \E r \in Calls : At(r, s) /\ call[r].pc = "setAccess")
        => \E r \in Calls : At(r, s) /\ call[r].op = "revoke"

Lapsed(s) == db[s].expired => Cached(s) = {} /\ \A r \in Calls : ~At(r, s)

HoldsRow(r, s) ==
    At(r, s) =>
        /\ call[r].op \in {"find", "revoke", "switch"} => db[s].st # "none" /\ call[r].g = db[s].gen
        /\ call[r].op \in {"find", "switch"} /\ call[r].pc \in {"setAccess", "setId"} =>
              call[r].user = db[s].user
        /\ call[r].op \in {"refresh", "switch"} => db[s].st = "active"
        /\ call[r].op = "refresh" =>
              /\ call[r].user = db[s].user
              /\ call[r].g = IF call[r].pc \in {"setAccess", "setId"} THEN db[s].gen ELSE db[s].gen + 1
              /\ call[r].pc = "oldAccess" => Cached(s) \subseteq call[r].todo
              /\ call[r].pc \in {"oldId", "updateRow", "setAccess"} => Cached(s) = {}
        /\ call[r].op = "create" =>
              db[s].st = "none" /\ call[r].g = 1 /\ \A q \in Calls \ {r} : ~At(q, s)

\* RevokeAll leaves no key of the sessions it has dealt with; it does not find those
\* whose row is gone.
Deletes(r, s) ==
    call[r].op = "revokeAll" =>
        /\ call[r].pc = "deleteAccess" /\ call[r].s = s => Cached(s) \subseteq {call[r].g}
        /\ call[r].pc = "deleteId" /\ call[r].s = s => Cached(s) = {}
        /\ \/ s \in call[r].todo \/ s \in deleted \/ Cached(s) = {}
           \/ call[r].pc = "deleteAccess" /\ call[r].s = s

Sound(s) == /\ CopiesRight(s) /\ IdKeyFollows(s) /\ Withdrawn(s) /\ Lapsed(s)
            /\ \A r \in Calls : HoldsRow(r, s) /\ Deletes(r, s)

CallsOK == RunAlone /\ \A r \in Calls : Shape(call[r])

IInv == TypeOK /\ CallsOK /\ \A s \in Sessions \ (raced \cup failed) : Sound(s)

-----------------------------------------------------------------------------
\* Types, the steps of the operations, and which run alone

\* The row, the keys and the histories have their types after every step that
\* writes one row, one access key or one id key.
LEMMA RowTyped ==
    ASSUME TypeOK, NEW s \in Sessions,
           NEW row \in [st : {"none", "active", "revoked"}, gen : 0..MaxGen,
                        user : Users \cup {None}, expired : BOOLEAN]
    PROVE  [db EXCEPT ![s] = row] \in
               [Sessions -> [st : {"none", "active", "revoked"}, gen : 0..MaxGen,
                             user : Users \cup {None}, expired : BOOLEAN]]
BY DEF TypeOK

\* A request that is over.
LEMMA ReturnedShape == Shape(Returned) /\ Returned.op = None
<1>1. Returned \in Call
  BY SessionAssumption DEF Returned, Call, None, Sole
<1>2. Returned.op = None /\ Returned.pc = "idle"
  BY DEF Returned, None
<1> QED BY <1>1, <1>2 DEF Shape, None

\* A request that goes on with its operation, or is over.
LEMMA CallGoesOn ==
    ASSUME TypeOK, CallsOK, NEW r \in Calls, NEW c, Shape(c), c.op \in {None, call[r].op},
           call' = [call EXCEPT ![r] = c]
    PROVE  CallsOK' /\ DOMAIN call' = Calls /\ call'[r] = c
           /\ \A q \in Calls \ {r} : call'[q] = call[q]
<1>1. DOMAIN call = Calls
  BY DEF TypeOK
<1>2. DOMAIN call' = Calls /\ call'[r] = c /\ \A q \in Calls \ {r} : call'[q] = call[q]
  BY <1>1
<1>3. \A q \in Calls : Shape(call'[q])
  BY <1>2 DEF CallsOK
<1>4. RunAlone'
  BY <1>2 DEF CallsOK, RunAlone, Sole, None
<1> QED BY <1>2, <1>3, <1>4 DEF CallsOK, Shape

\* Goto: the operation and its data stay.
LEMMA GotoGoesOn ==
    ASSUME TypeOK, CallsOK, NEW r \in Calls, NEW pc, Goto(r, pc), call[r].op # None,
           Shape([call[r] EXCEPT !.pc = pc])
    PROVE  /\ CallsOK' /\ DOMAIN call' = Calls
           /\ call'[r] = [call[r] EXCEPT !.pc = pc]
           /\ \A q \in Calls \ {r} : call'[q] = call[q]
           /\ call'[r].pc = pc /\ call'[r].op = call[r].op /\ call'[r].s = call[r].s
           /\ call'[r].g = call[r].g /\ call'[r].user = call[r].user /\ call'[r].todo = call[r].todo
<1> DEFINE c == [call[r] EXCEPT !.pc = pc]
<1>1. call[r] \in Call /\ DOMAIN call = Calls
  BY DEF TypeOK, CallsOK, Shape
<1>2. call' = [call EXCEPT ![r] = c]
  BY <1>1 DEF Goto
<1>3. /\ c.pc = pc /\ c.op = call[r].op /\ c.s = call[r].s
      /\ c.g = call[r].g /\ c.user = call[r].user /\ c.todo = call[r].todo
  BY <1>1 DEF Call
<1>4. Shape(c)
  OBVIOUS
<1>5. [call[r] EXCEPT !.pc = pc] = c
  OBVIOUS
<1> HIDE DEF c
<1>6. CallsOK' /\ DOMAIN call' = Calls /\ call'[r] = c
      /\ \A q \in Calls \ {r} : call'[q] = call[q]
  BY <1>2, <1>3, <1>4, CallGoesOn
<1> QED BY <1>3, <1>5, <1>6

\* Return: the request is over.
LEMMA ReturnGoesOn ==
    ASSUME TypeOK, CallsOK, NEW r \in Calls, Return(r)
    PROVE  /\ CallsOK' /\ DOMAIN call' = Calls /\ call'[r] = Returned
           /\ \A q \in Calls \ {r} : call'[q] = call[q]
BY ReturnedShape, CallGoesOn DEF Return

\* A request starts: no operation that runs alone is in progress, and if it is
\* one itself, no other is.
LEMMA CallStarts ==
    ASSUME TypeOK, CallsOK, NEW r \in Calls, NEW c, Shape(c), c.op # None,
           IF c.op \in Sole THEN StartsAlone(c.op) ELSE Starts(r),
           call' = [call EXCEPT ![r] = c]
    PROVE  /\ CallsOK' /\ DOMAIN call' = Calls /\ call'[r] = c
           /\ call[r].op = None
           /\ \A q \in Calls \ {r} : call'[q] = call[q]
           /\ \A q \in Calls : call[q].op \notin Sole
           /\ c.op \in Sole => \A q \in Calls : call[q].op = None
<1>1. DOMAIN call = Calls
  BY DEF TypeOK
<1>2. DOMAIN call' = Calls /\ call'[r] = c /\ \A q \in Calls \ {r} : call'[q] = call[q]
  BY <1>1
<1>3. \A q \in Calls : Shape(call'[q])
  BY <1>2 DEF CallsOK
<1>4. \A q \in Calls : call[q].pc = "idle" => call[q].op = None
  BY DEF CallsOK, Shape, Call, Sole
<1>5. \A q \in Calls : call[q].op \notin Sole
  BY <1>4 DEF CallsOK, RunAlone, Starts, StartsAlone, Quiet, Sole, None
<1>6. call[r].op = None /\ (c.op \in Sole => \A q \in Calls : call[q].op = None)
  BY <1>4 DEF Starts, StartsAlone, Quiet
<1>7. RunAlone'
  BY <1>2, <1>5, <1>6 DEF RunAlone, StartsAlone
<1> QED BY <1>2, <1>3, <1>5, <1>6, <1>7 DEF CallsOK, Shape

-----------------------------------------------------------------------------
\* What a step leaves as it is

\* Sessions the step and its request have nothing to do with.
LEMMA Elsewhere ==
    ASSUME NEW s \in Sessions, Sound(s), NEW r \in Calls,
           \A q \in Calls \ {r} : call'[q] = call[q], ~At(r, s), ~At(r, s)', Deletes(r, s)',
           db'[s] = db[s], idKey'[s] = idKey[s], \A g \in Gens : access'[<<s, g>>] = access[<<s, g>>],
           s \in deleted => s \in deleted'
    PROVE  Sound(s)'
<1>1. Cached(s)' = Cached(s) /\ Cached(s) \subseteq Gens
  BY DEF Cached
<1>2. \A q \in Calls : At(q, s)' <=> At(q, s)
  BY DEF At
<1>3. \A q \in Calls : At(q, s) => call'[q] = call[q]
  OBVIOUS
<1>4. CopiesRight(s)'
  BY <1>1, <1>2, <1>3 DEF Sound, CopiesRight
<1>5. IdKeyFollows(s)' /\ Withdrawn(s)' /\ Lapsed(s)'
  BY <1>1, <1>2, <1>3 DEF Sound, IdKeyFollows, Withdrawn, Lapsed
<1>6. ASSUME NEW q \in Calls PROVE HoldsRow(q, s)'
  BY <1>1, <1>2, <1>3 DEF Sound, HoldsRow
<1>7. ASSUME NEW q \in Calls PROVE Deletes(q, s)'
  BY <1>1 DEF Sound, Deletes
<1> QED BY <1>4, <1>5, <1>6, <1>7 DEF Sound

\* The steps of the operations that work on one session.
LEMMA WhichSession ==
    ASSUME IInv, NEW r \in Calls,
           call[r].pc \notin {"idle", "deleteKeys", "deleteAccess", "deleteId"}
    PROVE  /\ Shape(call[r])
           /\ \E s \in Sessions, g \in Gens : call[r].s = s /\ call[r].g = g /\ At(r, s)
<1>1. Shape(call[r])
  BY DEF IInv, CallsOK
<1>2. call[r].op \notin {None, "revokeAll"}
  BY <1>1 DEF Shape
<1>3. call[r].s \in Sessions /\ call[r].g \in Gens /\ At(r, call[r].s)
  BY <1>1, <1>2 DEF Shape, At
<1> QED BY <1>1, <1>3

\* A request at work on a session: it is not a revocation of all sessions, and
\* none is in progress beside it; an operation that runs alone is alone.
LEMMA AtWork ==
    ASSUME TypeOK, CallsOK, NEW s \in Sessions, NEW r \in Calls, At(r, s)
    PROVE  /\ call[r].op # None /\ call[r].op # "revokeAll" /\ call[r].s = s
           /\ \A q \in Calls : call[q].op # "revokeAll"
           /\ \A q \in Calls \ {r} : At(q, s) =>
                 /\ call[r].op \notin Sole /\ call[q].op \notin Sole
           /\ call[r] \in Call /\ call[r].g \in Gens
  BY DEF TypeOK, CallsOK, RunAlone, Shape, At, Sole, None

\* The steps on which a request at work on session s writes that session only,
\* and only its own data.
Works(r, s) ==
    /\ At(r, s) \/ call[r].op = None
    /\ At(r, s)' \/ call'[r].op = None
    /\ \A q \in Calls \ {r} : call'[q] = call[q]
    /\ \A t \in Sessions \ {s} : /\ db'[t] = db[t] /\ idKey'[t] = idKey[t]
                                 /\ \A g \in Gens : access'[<<t, g>>] = access[<<t, g>>]
                                 /\ t \in deleted => t \in deleted'
    /\ \A t \in Sessions : t \in raced \cup failed => t \in raced' \cup failed'

\* Then only what it says of that session has to be shown.
LEMMA WorksKeeps ==
    ASSUME IInv, TypeOK', CallsOK', NEW r \in Calls, NEW s \in Sessions, Works(r, s),
           s \notin raced' \cup failed' => Sound(s)'
    PROVE  IInv'
<1> SUFFICES ASSUME NEW t \in Sessions, t \notin raced' \cup failed' PROVE Sound(t)'
  BY DEF IInv
<1>1. CASE t = s
  BY <1>1
<1>2. CASE t # s
  <2>1. Sound(t) /\ ~At(r, t) /\ ~At(r, t)' /\ Deletes(r, t)'
    BY <1>2 DEF IInv, Works, At, Deletes, None
  <2> QED BY <1>2, <2>1, Elsewhere DEF Works
<1> QED BY <1>1, <1>2

\* A request that goes to the next step of its operation.
LEMMA GotoWorks ==
    ASSUME IInv, NEW r \in Calls, NEW s \in Sessions, At(r, s), NEW pc, Goto(r, pc),
           Shape([call[r] EXCEPT !.pc = pc])
    PROVE  /\ CallsOK' /\ DOMAIN call' = Calls /\ At(r, s)' /\ call'[r].op # "revokeAll"
           /\ \A q \in Calls \ {r} : call'[q] = call[q]
           /\ call'[r].pc = pc /\ call'[r].op = call[r].op /\ call'[r].s = call[r].s
           /\ call'[r].g = call[r].g /\ call'[r].user = call[r].user /\ call'[r].todo = call[r].todo
<1>1. call[r].op # None
  BY DEF At
<1> QED BY <1>1, GotoGoesOn DEF IInv, At

\* A request that returns is at work on no session any more.
LEMMA ReturnWorks ==
    ASSUME IInv, NEW r \in Calls, NEW s \in Sessions, At(r, s), Return(r)
    PROVE  /\ CallsOK' /\ DOMAIN call' = Calls /\ ~At(r, s)' /\ call'[r].op = None
           /\ call'[r] = Returned /\ call'[r].op # "revokeAll"
           /\ \A q \in Calls \ {r} : call'[q] = call[q]
<1>1. Returned.op = None /\ None # "revokeAll"
  BY ReturnedShape DEF None
<1> QED BY <1>1, ReturnGoesOn DEF IInv, At

\* The other requests at work on the session do not notice it, unless it writes
\* what they have read of the row.
LEMMA OthersHold ==
    ASSUME IInv, NEW r \in Calls, NEW s \in Sessions, Works(r, s), Sound(s), HoldsRow(r, s)',
           ~At(r, s) => \A q \in Calls : /\ call[q].op \notin Sole
                                         /\ At(q, s) => call[q].op # "create",
           call[r].op \in {None, "find", "revoke"} /\ (\E q \in Calls \ {r} : At(q, s)) =>
               /\ db'[s].st # "none" /\ db'[s].gen = db[s].gen /\ db'[s].user = db[s].user
    PROVE  \A q \in Calls : HoldsRow(q, s)' /\ Deletes(q, s)'
<1> SUFFICES ASSUME NEW q \in Calls PROVE HoldsRow(q, s)' /\ Deletes(q, s)'
  OBVIOUS
<1>1. CASE q = r
  BY <1>1 DEF Works, At, Deletes, None
<1>2. CASE q # r
  <2>1. call'[q] = call[q] /\ HoldsRow(q, s) /\ Deletes(q, s) /\ Shape(call[r]) /\ Shape(call[q])
    BY <1>2 DEF Works, Sound, IInv, CallsOK
  <2>2. At(q, s)' <=> At(q, s)
    BY <2>1 DEF At
  <2>3. CASE At(q, s)
    <3>1. call[q].op \in {"find", "revoke"}
      <4>1. CASE At(r, s)
        <5>1. call[q].op \notin Sole /\ HoldsRow(q, s)
          BY <1>2, <2>1, <2>3, <4>1, AtWork DEF IInv
        <5>2. call[q].op # "create"
          BY <1>2, <2>3, <4>1, <5>1 DEF HoldsRow
        <5> QED BY <2>1, <2>3, <5>1, <5>2 DEF Shape, Call, At
      <4>2. CASE ~At(r, s)
        BY <2>1, <2>3, <4>2 DEF Shape, Call, At
      <4> QED BY <4>1, <4>2
    <3>2. db'[s].st # "none" /\ db'[s].gen = db[s].gen /\ db'[s].user = db[s].user
      <4>1. CASE At(r, s)
        <5>1. call[r].op \notin Sole /\ HoldsRow(r, s)
          BY <1>2, <2>3, <4>1, AtWork DEF IInv, Sound
        <5>2. call[r].op # "create"
          BY <1>2, <2>3, <4>1, <5>1 DEF HoldsRow
        <5>3. call[r].op \in {"find", "revoke"}
          BY <2>1, <4>1, <5>1, <5>2 DEF Shape, Call, At
        <5> QED BY <1>2, <2>3, <5>3
      <4>2. CASE ~At(r, s)
        BY <1>2, <2>3, <4>2 DEF Works
      <4> QED BY <4>1, <4>2
    <3>3. HoldsRow(q, s)'
      BY <2>1, <2>3, <3>1, <3>2 DEF HoldsRow
    <3>4. Deletes(q, s)'
      BY <2>1, <3>1 DEF Deletes
    <3> QED BY <3>3, <3>4
  <2>4. CASE ~At(q, s)
    <3>1. HoldsRow(q, s)'
      BY <2>2, <2>4 DEF HoldsRow
    <3>2. call[q].op # "revokeAll"
      <4>1. CASE At(r, s)
        BY <4>1, AtWork DEF IInv
      <4>2. CASE ~At(r, s)
        BY <4>2 DEF Sole
      <4> QED BY <4>1, <4>2
    <3>3. Deletes(q, s)'
      BY <2>1, <3>2 DEF Deletes
    <3> QED BY <3>1, <3>3
  <2> QED BY <2>3, <2>4
<1> QED BY <1>1, <1>2

-----------------------------------------------------------------------------
\* setCacheEntries

LEMMA SetAccessKeeps ==
    ASSUME IInv, NEW r \in Calls, SetAccess(r)
    PROVE  IInv'
<1>1. /\ call[r].pc = "setAccess" /\ Goto(r, "setId")
      /\ access' = [access EXCEPT ![<<call[r].s, call[r].g>>] = call[r].user]
      /\ db' = db /\ idKey' = idKey /\ raced' = raced /\ failed' = failed /\ deleted' = deleted
  BY DEF SetAccess
<1>2. PICK s \in Sessions, g \in Gens : Shape(call[r]) /\ call[r].s = s /\ call[r].g = g /\ At(r, s)
  BY <1>1, WhichSession
<1>3. Shape([call[r] EXCEPT !.pc = "setId"]) /\ call[r].user \in Users \cup {None}
  BY <1>1, <1>2 DEF Shape, Call, Sole, None
<1>4. /\ CallsOK' /\ DOMAIN call' = Calls /\ At(r, s)' /\ call'[r].op # "revokeAll"
      /\ \A q \in Calls \ {r} : call'[q] = call[q]
      /\ call'[r].pc = "setId" /\ call'[r].op = call[r].op /\ call'[r].s = call[r].s
      /\ call'[r].g = call[r].g /\ call'[r].user = call[r].user /\ call'[r].todo = call[r].todo
  BY <1>1, <1>2, <1>3, GotoWorks
<1>5. TypeOK'
  BY <1>1, <1>2, <1>3, <1>4 DEF IInv, TypeOK
<1>6. /\ access'[<<s, g>>] = call[r].user
      /\ \A t \in Sessions, h \in Gens : <<t, h>> # <<s, g>> => access'[<<t, h>>] = access[<<t, h>>]
  BY <1>1, <1>2 DEF IInv, TypeOK
<1>7. Works(r, s)
  BY <1>1, <1>2, <1>4, <1>6 DEF Works
<1>8. ASSUME s \notin raced' \cup failed' PROVE Sound(s)'
  <2>1. Sound(s)
    BY <1>1, <1>2, <1>8 DEF IInv
  <2>2. /\ \A q \in Calls : call[q].op # "revokeAll"
        /\ \A q \in Calls \ {r} : At(q, s) => call[r].op \notin Sole /\ call[q].op \notin Sole
    BY <1>2, AtWork DEF IInv
  <2>3. HoldsRow(r, s) /\ CopiesRight(s)
    BY <2>1 DEF Sound
  <2>4. Cached(s)' \subseteq Cached(s) \cup {g}
    BY <1>6 DEF Cached
  <2>5. ASSUME NEW q \in Calls PROVE At(q, s)' <=> At(q, s)
    BY <1>2, <1>4 DEF At
  <2>6. call[r].op \in {"find", "create", "refresh", "switch"}
    BY <1>1, <1>2 DEF Shape, Call, Sole, At
  <2>7. CopiesRight(s)'
    <3> SUFFICES ASSUME NEW h \in Cached(s)'
                 PROVE  \/ /\ db[s].st # "none" /\ h = db[s].gen
                           /\ \/ access'[<<s, h>>] = db[s].user
                              \/ \E q \in Calls : /\ At(q, s)' /\ call'[q].op = "switch"
                                                  /\ call'[q].pc = "setAccess"
                        \/ \E q \in Calls : /\ At(q, s)' /\ call'[q].op = "create" /\ call'[q].pc # "setAccess"
                                            /\ h = call'[q].g /\ access'[<<s, h>>] = call'[q].user
      BY <1>1 DEF CopiesRight
    <3>1. CASE h = g /\ call[r].op = "create"
      BY <1>2, <1>4, <1>6, <3>1
    <3>2. CASE h = g /\ call[r].op # "create"
      BY <1>1, <1>2, <1>6, <2>3, <2>6, <3>2 DEF HoldsRow
    <3>3. CASE h # g
      <4>1. h \in Cached(s) /\ h \in Gens /\ access'[<<s, h>>] = access[<<s, h>>]
        BY <1>6, <2>4, <3>3 DEF Cached
      <4>2. CASE call[r].op = "create"
        BY <1>1, <1>2, <2>3, <3>3, <4>1, <4>2 DEF HoldsRow, CopiesRight
      <4>3. CASE call[r].op # "create"
        <5>1. h # db[s].gen /\ g = db[s].gen
          BY <1>1, <1>2, <2>3, <2>6, <3>3, <4>3 DEF HoldsRow
        <5>2. PICK q \in Calls : At(q, s) /\ call[q].op = "create"
          BY <2>3, <4>1, <5>1 DEF CopiesRight
        <5>3. HoldsRow(q, s) /\ q # r
          BY <2>1, <4>3, <5>2 DEF Sound
        <5> QED BY <1>2, <5>2, <5>3 DEF HoldsRow
      <4> QED BY <4>2, <4>3
    <3> QED BY <2>6, <3>1, <3>2, <3>3
  <2>8. IdKeyFollows(s)'
    BY <1>1, <1>2, <1>4 DEF IdKeyFollows
  <2>9. Withdrawn(s)'
    <3>1. Withdrawn(s)
      BY <2>1 DEF Sound
    <3>2. \A q \in Calls : call[q].op = "revoke" /\ At(q, s) => call'[q].op = "revoke" /\ At(q, s)'
      BY <1>4, <2>5
    <3> QED BY <1>1, <1>2, <3>1, <3>2 DEF Withdrawn
  <2>10. Lapsed(s)'
    <3>1. ~db'[s].expired
      BY <1>1, <1>2, <2>1 DEF Sound, Lapsed
    <3> QED BY <3>1 DEF Lapsed
  <2>11. ASSUME NEW q \in Calls PROVE HoldsRow(q, s)' /\ Deletes(q, s)'
    <3>1. Deletes(q, s)'
      BY <1>4, <2>2 DEF Deletes
    <3>2. CASE q = r
      BY <1>1, <1>2, <1>4, <2>3, <2>5, <3>1, <3>2 DEF HoldsRow
    <3>3. CASE q # r
      <4>1. HoldsRow(q, s) /\ call'[q] = call[q]
        BY <1>4, <2>1, <3>3 DEF Sound
      <4>2. At(q, s) => call[q].op # "refresh"
        BY <2>2, <3>3 DEF Sole
      <4> QED BY <1>1, <2>5, <3>1, <4>1, <4>2 DEF HoldsRow
    <3> QED BY <3>1, <3>2, <3>3
  <2> QED BY <2>7, <2>8, <2>9, <2>10, <2>11 DEF Sound
<1> QED BY <1>4, <1>5, <1>7, <1>8, WorksKeeps

Rows == [Sessions -> [st : {"none", "active", "revoked"}, gen : 0..MaxGen,
                      user : Users \cup {None}, expired : BOOLEAN]]

\* An UPDATE of one column of a session's row.
LEMMA UpdateExpired ==
    ASSUME IInv, NEW s \in Sessions, NEW x \in BOOLEAN, db' = [db EXCEPT ![s].expired = x]
    PROVE  /\ db' \in Rows /\ \A t \in Sessions \ {s} : db'[t] = db[t]
           /\ db'[s].st = db[s].st /\ db'[s].gen = db[s].gen
           /\ db'[s].user = db[s].user /\ db'[s].expired = x
<1> DEFINE row == [db[s] EXCEPT !.expired = x]
<1>1. db \in Rows /\ db' = [db EXCEPT ![s] = row]
  BY DEF IInv, TypeOK, Rows
<1>2. /\ row.st = db[s].st /\ row.gen = db[s].gen /\ row.user = db[s].user /\ row.expired = x
      /\ row \in [st : {"none", "active", "revoked"}, gen : 0..MaxGen,
                  user : Users \cup {None}, expired : BOOLEAN]
  BY <1>1 DEF Rows
<1> HIDE DEF row
<1> QED BY <1>1, <1>2 DEF Rows

\* What setting the status of a row does.
LEMMA UpdateStatus ==
    ASSUME IInv, NEW s \in Sessions, NEW x \in {"none", "active", "revoked"},
           db' = [db EXCEPT ![s].st = x]
    PROVE  /\ db' \in Rows /\ \A t \in Sessions \ {s} : db'[t] = db[t]
           /\ db'[s].st = x /\ db'[s].gen = db[s].gen
           /\ db'[s].user = db[s].user /\ db'[s].expired = db[s].expired
<1> DEFINE row == [db[s] EXCEPT !.st = x]
<1>1. db \in Rows /\ db' = [db EXCEPT ![s] = row]
  BY DEF IInv, TypeOK, Rows
<1>2. /\ row.st = x /\ row.gen = db[s].gen /\ row.user = db[s].user /\ row.expired = db[s].expired
      /\ row \in [st : {"none", "active", "revoked"}, gen : 0..MaxGen,
                  user : Users \cup {None}, expired : BOOLEAN]
  BY <1>1 DEF Rows
<1> HIDE DEF row
<1> QED BY <1>1, <1>2 DEF Rows

\* A request that has the row's generation, or will make it the row's, finds
\* only that one cached.
LEMMA OneGeneration ==
    ASSUME NEW r \in Calls, NEW s \in Sessions, Sound(s), At(r, s), Shape(call[r]),
           call[r].op = "refresh" => call[r].pc \in {"setAccess", "setId"}
    PROVE  \A h \in Cached(s) :
              /\ h = call[r].g
              /\ call[r].op = "create" => call[r].pc # "setAccess" /\ access[<<s, h>>] = call[r].user
              /\ call[r].op # "create" => /\ db[s].st # "none" /\ h = db[s].gen
                                          /\ \A q \in Calls : At(q, s) => call[q].op # "create"
<1> SUFFICES ASSUME NEW h \in Cached(s)
             PROVE  /\ h = call[r].g
                    /\ call[r].op = "create" => call[r].pc # "setAccess" /\ access[<<s, h>>] = call[r].user
                    /\ call[r].op # "create" => /\ db[s].st # "none" /\ h = db[s].gen
                                                /\ \A q \in Calls : At(q, s) => call[q].op # "create"
  OBVIOUS
<1>1. HoldsRow(r, s) /\ CopiesRight(s) /\ \A q \in Calls : HoldsRow(q, s)
  BY DEF Sound
<1>2. CASE call[r].op = "create"
  BY <1>1, <1>2 DEF HoldsRow, CopiesRight
<1>3. CASE call[r].op # "create"
  <2>1. \A q \in Calls : At(q, s) => call[q].op # "create"
    BY <1>1, <1>3 DEF HoldsRow
  <2>2. db[s].st # "none" /\ h = db[s].gen
    BY <1>1, <2>1 DEF CopiesRight
  <2>3. call[r].g = db[s].gen
    BY <1>1, <1>3 DEF HoldsRow, Shape, Call, Sole, At
  <2> QED BY <1>3, <2>1, <2>2, <2>3
<1> QED BY <1>2, <1>3

\* The id key: it is written last, after the access key it leads to.
LEMMA SetIdKeeps ==
    ASSUME IInv, NEW r \in Calls, SetId(r)
    PROVE  IInv'
<1>1. /\ call[r].pc = "setId"
      /\ idKey' = [idKey EXCEPT ![call[r].s] = call[r].g]
      /\ db' = db /\ access' = access /\ raced' = raced /\ failed' = failed /\ deleted' = deleted
  BY DEF SetId
<1>2. PICK s \in Sessions, g \in Gens : Shape(call[r]) /\ call[r].s = s /\ call[r].g = g /\ At(r, s)
  BY <1>1, WhichSession
<1>3. /\ CallsOK' /\ DOMAIN call' = Calls
      /\ \A q \in Calls \ {r} : call'[q] = call[q]
      /\ \/ ~At(r, s)' /\ call'[r].op = None /\ call[r].op # "create"
         \/ /\ At(r, s)' /\ call'[r].pc \in {"slide", "commit"} /\ call'[r].op = call[r].op
            /\ call'[r].s = call[r].s /\ call'[r].g = call[r].g /\ call'[r].user = call[r].user
            /\ call[r].op \in {"find", "create"}
            /\ call[r].op = "find" <=> call'[r].pc = "slide"
  <2>1. CASE call[r].op = "find"
    <3>1. Goto(r, "slide") /\ Shape([call[r] EXCEPT !.pc = "slide"])
      BY <1>1, <1>2, <2>1 DEF SetId, Shape, Call, Sole, None
    <3> QED BY <1>2, <2>1, <3>1, GotoWorks
  <2>2. CASE call[r].op = "create"
    <3>1. Goto(r, "commit") /\ Shape([call[r] EXCEPT !.pc = "commit"])
      BY <1>1, <1>2, <2>2 DEF SetId, Shape, Call, Sole, None
    <3> QED BY <1>2, <2>2, <3>1, GotoWorks
  <2>3. CASE call[r].op \notin {"find", "create"}
    <3>1. Return(r)
      BY <2>3 DEF SetId
    <3> QED BY <1>2, <2>3, <3>1, ReturnWorks
  <2> QED BY <2>1, <2>2, <2>3
<1>4. idKey'[s] = g /\ \A t \in Sessions \ {s} : idKey'[t] = idKey[t]
  BY <1>1, <1>2 DEF IInv, TypeOK
<1>5. TypeOK'
  <2>1. g \in 0..MaxGen
    BY SessionAssumption DEF Gens
  <2> QED BY <1>1, <1>2, <1>3, <2>1 DEF IInv, TypeOK
<1>6. Works(r, s)
  <2>1. At(r, s)' \/ call'[r].op = None
    BY <1>3
  <2> QED BY <1>1, <1>2, <1>3, <1>4, <2>1 DEF Works
<1>7. ASSUME s \notin raced' \cup failed' PROVE Sound(s)'
  <2>1. Sound(s)
    BY <1>1, <1>2, <1>7 DEF IInv
  <2>2. Cached(s)' = Cached(s)
    BY <1>1 DEF Cached
  <2>3. \A h \in Cached(s) :
           /\ h = g
           /\ call[r].op = "create" => access[<<s, h>>] = call[r].user
           /\ call[r].op # "create" => /\ db[s].st # "none" /\ h = db[s].gen
                                       /\ \A q \in Calls : At(q, s) => call[q].op # "create"
    BY <1>1, <1>2, <2>1, OneGeneration
  <2>4. \A q \in Calls \ {r} : At(q, s)' <=> At(q, s)
    BY <1>3 DEF At
  <2>5. CopiesRight(s)'
    <3>1. CopiesRight(s)
      BY <2>1 DEF Sound
    <3>2. CASE call[r].op = "create"
      <4>1. At(r, s)' /\ call'[r].pc # "setAccess" /\ call'[r].op = "create"
            /\ call'[r].g = g /\ call'[r].user = call[r].user
        BY <1>2, <1>3, <3>2
      <4> QED BY <1>1, <2>2, <2>3, <3>2, <4>1 DEF CopiesRight
    <3>3. CASE call[r].op # "create"
      <4>1. \A h \in Cached(s) :
               \/ access[<<s, h>>] = db[s].user
               \/ \E q \in Calls \ {r} : At(q, s) /\ call[q].op = "switch" /\ call[q].pc = "setAccess"
        BY <1>1, <2>3, <3>1, <3>3 DEF CopiesRight
      <4> QED BY <1>1, <1>3, <2>2, <2>3, <2>4, <3>3, <4>1 DEF CopiesRight
    <3> QED BY <3>2, <3>3
  <2>6. IdKeyFollows(s)'
    BY <1>4, <2>2, <2>3 DEF IdKeyFollows
  <2>7. Withdrawn(s)'
    <3>1. Withdrawn(s)
      BY <2>1 DEF Sound
    <3>2. \A q \in Calls : call[q].op = "revoke" /\ At(q, s) => q # r
      BY <1>1, <1>2 DEF Shape
    <3>3. ~(At(r, s)' /\ call'[r].pc = "setAccess")
      BY <1>3
    <3>4. \A q \in Calls : At(q, s)' /\ call'[q].pc = "setAccess" => q \in Calls \ {r}
      BY <3>3
    <3> QED BY <1>1, <1>3, <2>2, <2>4, <3>1, <3>2, <3>4 DEF Withdrawn
  <2>8. Lapsed(s)'
    BY <1>1, <1>2, <2>1 DEF Sound, Lapsed
  <2>9. HoldsRow(r, s)'
    <3>1. HoldsRow(r, s)
      BY <2>1 DEF Sound
    <3>2. CASE ~At(r, s)'
      BY <3>2 DEF HoldsRow
    <3>3. CASE At(r, s)'
      <4>1. call'[r].op = call[r].op /\ call[r].op \in {"find", "create"} /\ call'[r].pc # "setAccess"
            /\ call'[r].pc # "setId" /\ call'[r].g = call[r].g /\ call[r].pc = "setId"
        BY <1>1, <1>2, <1>3, <3>3
      <4> QED BY <1>1, <1>2, <2>4, <3>1, <4>1 DEF HoldsRow
    <3> QED BY <3>2, <3>3
  <2>10. \A q \in Calls : HoldsRow(q, s)' /\ Deletes(q, s)'
    <3>1. (\E q \in Calls \ {r} : At(q, s)) /\ call[r].op \in {"find", "revoke"} => db[s].st # "none"
      BY <1>2, <2>1 DEF Sound, HoldsRow
    <3> QED BY <1>1, <1>2, <1>6, <2>1, <2>9, <3>1, OthersHold DEF At
  <2> QED BY <2>5, <2>6, <2>7, <2>8, <2>10 DEF Sound
<1> QED BY <1>3, <1>5, <1>6, <1>7, WorksKeeps

\* The row of a login becomes visible with the keys it has written.
LEMMA LoginCommitKeeps ==
    ASSUME IInv, NEW r \in Calls, LoginCommit(r)
    PROVE  IInv'
<1> DEFINE row(u) == [st |-> "active", gen |-> 1, user |-> u, expired |-> FALSE]
<1>1. /\ call[r].pc = "commit" /\ Return(r)
      /\ db' = [db EXCEPT ![call[r].s] = row(call[r].user)]
      /\ access' = access /\ idKey' = idKey /\ raced' = raced /\ failed' = failed /\ deleted' = deleted
  BY DEF LoginCommit
<1>2. PICK s \in Sessions, g \in Gens : Shape(call[r]) /\ call[r].s = s /\ call[r].g = g /\ At(r, s)
  BY <1>1, WhichSession
<1>3. /\ CallsOK' /\ DOMAIN call' = Calls /\ ~At(r, s)' /\ call'[r].op = None
      /\ \A q \in Calls \ {r} : call'[q] = call[q]
  BY <1>1, <1>2, ReturnWorks
<1>4. row(call[r].user) \in [st : {"none", "active", "revoked"}, gen : 0..MaxGen,
                             user : Users \cup {None}, expired : BOOLEAN]
  BY <1>2, SessionAssumption DEF Shape, Call
<1>5. /\ db'[s].st = "active" /\ db'[s].gen = 1 /\ db'[s].user = call[r].user /\ ~db'[s].expired
      /\ \A t \in Sessions \ {s} : db'[t] = db[t]
  BY <1>1, <1>2 DEF IInv, TypeOK
<1>6. TypeOK'
  BY <1>1, <1>2, <1>3, <1>4, RowTyped DEF IInv, TypeOK
<1>7. Works(r, s)
  BY <1>1, <1>2, <1>3, <1>5 DEF Works
<1>8. ASSUME s \notin raced' \cup failed' PROVE Sound(s)'
  <2>1. Sound(s) /\ call[r].op = "create" /\ Cached(s)' = Cached(s)
    BY <1>1, <1>2, <1>8 DEF IInv, Shape, Call, Sole, Cached, At
  <2>2. call[r].g = 1 /\ \A q \in Calls \ {r} : ~At(q, s)
    BY <1>2, <2>1 DEF Sound, HoldsRow
  <2>3. \A q \in Calls : ~At(q, s)'
    BY <1>3, <2>2 DEF At
  <2>4. \A h \in Cached(s) : h = 1 /\ access[<<s, h>>] = call[r].user
    BY <1>1, <1>2, <2>1, <2>2, OneGeneration
  <2>5. CopiesRight(s)'
    BY <1>1, <1>5, <2>1, <2>4 DEF CopiesRight
  <2>6. IdKeyFollows(s)'
    BY <1>1, <1>2, <2>1, <2>2 DEF Sound, IdKeyFollows
  <2>7. Withdrawn(s)' /\ Lapsed(s)'
    BY <1>5 DEF Withdrawn, Lapsed
  <2>8. HoldsRow(r, s)'
    BY <2>3 DEF HoldsRow
  <2>9. \A q \in Calls : HoldsRow(q, s)' /\ Deletes(q, s)'
    BY <1>2, <1>7, <2>1, <2>2, <2>8, OthersHold DEF At, None
  <2> QED BY <2>5, <2>6, <2>7, <2>9 DEF Sound
<1> QED BY <1>3, <1>6, <1>7, <1>8, WorksKeeps

\* The goroutine of FindByToken: a row with a request at work has not lapsed.
LEMMA SlideKeeps ==
    ASSUME IInv, NEW r \in Calls, Slide(r)
    PROVE  IInv'
<1>1. /\ call[r].pc = "slide" /\ Return(r)
      /\ db' = [db EXCEPT ![call[r].s].expired = FALSE]
      /\ access' = access /\ idKey' = idKey /\ raced' = raced /\ failed' = failed /\ deleted' = deleted
  BY DEF Slide
<1>2. PICK s \in Sessions, g \in Gens : Shape(call[r]) /\ call[r].s = s /\ call[r].g = g /\ At(r, s)
  BY <1>1, WhichSession
<1>3. /\ CallsOK' /\ DOMAIN call' = Calls /\ ~At(r, s)' /\ call'[r].op = None
      /\ \A q \in Calls \ {r} : call'[q] = call[q]
  BY <1>1, <1>2, ReturnWorks
<1>4. /\ db'[s].st = db[s].st /\ db'[s].gen = db[s].gen /\ db'[s].user = db[s].user /\ ~db'[s].expired
      /\ \A t \in Sessions \ {s} : db'[t] = db[t]
      /\ db' \in [Sessions -> [st : {"none", "active", "revoked"}, gen : 0..MaxGen,
                               user : Users \cup {None}, expired : BOOLEAN]]
  BY <1>1, <1>2, UpdateExpired DEF Rows
<1>5. TypeOK'
  BY <1>1, <1>3, <1>4 DEF IInv, TypeOK
<1>6. Works(r, s)
  BY <1>1, <1>2, <1>3, <1>4 DEF Works
<1>7. ASSUME s \notin raced' \cup failed' PROVE Sound(s)'
  <2>1. Sound(s) /\ call[r].op = "find" /\ Cached(s)' = Cached(s)
    BY <1>1, <1>2, <1>7 DEF IInv, Shape, Call, Sole, Cached, At
  <2>2. \A h \in Cached(s) : /\ db[s].st # "none" /\ h = db[s].gen
                             /\ \A q \in Calls : At(q, s) => call[q].op # "create"
    BY <1>2, <2>1, OneGeneration
  <2>3. \A q \in Calls \ {r} : At(q, s)' <=> At(q, s)
    BY <1>3 DEF At
  <2>4. CopiesRight(s)'
    BY <1>1, <1>3, <1>4, <2>1, <2>2, <2>3 DEF Sound, CopiesRight
  <2>5. IdKeyFollows(s)'
    BY <1>1, <1>3, <2>1, <2>3 DEF Sound, IdKeyFollows
  <2>6. Withdrawn(s)'
    <3>1. Withdrawn(s) /\ \A q \in Calls : call[q].op = "revoke" => q # r
      BY <2>1 DEF Sound
    <3> QED BY <1>3, <1>4, <2>1, <2>3, <3>1 DEF Withdrawn
  <2>7. Lapsed(s)'
    BY <1>4 DEF Lapsed
  <2>8. HoldsRow(r, s)'
    BY <1>3 DEF HoldsRow
  <2>9. \A q \in Calls : HoldsRow(q, s)' /\ Deletes(q, s)'
    <3>1. db[s].st # "none"
      BY <1>2, <2>1 DEF Sound, HoldsRow
    <3> QED BY <1>2, <1>4, <1>6, <2>1, <2>8, <3>1, OthersHold
  <2> QED BY <2>4, <2>5, <2>6, <2>7, <2>9 DEF Sound
<1> QED BY <1>3, <1>5, <1>6, <1>7, WorksKeeps

-----------------------------------------------------------------------------
\* Requests start

\* A session a request has just begun to work on, its row and keys as they were.
LEMMA StartKeeps ==
    ASSUME IInv, NEW r \in Calls, NEW s \in Sessions, NEW c, Shape(c),
           c.op \in {"find", "revoke", "refresh", "switch"}, c.s = s,
           IF c.op \in Sole THEN StartsAlone(c.op) ELSE Starts(r),
           call' = [call EXCEPT ![r] = c], UNCHANGED <<db, access, idKey, raced, failed, deleted>>,
           Sound(s) =>
               /\ db[s].st # "none" /\ ~db[s].expired
               /\ db[s].st = "revoked" => \E q \in Calls : At(q, s) /\ call[q].op = "revoke"
               /\ c.pc \notin {"setId", "revokeRow", "revokeAccess"}
               /\ c.op \in {"find", "revoke", "switch"} => c.g = db[s].gen
               /\ c.op = "find" => c.user = db[s].user
               /\ c.op = "switch" => c.pc \notin {"setAccess", "setId"}
               /\ c.op = "refresh" => /\ c.user = db[s].user /\ c.g = db[s].gen + 1
                                      /\ c.pc \in {"oldAccess", "oldId", "updateRow"}
                                      /\ c.pc = "oldAccess" => Cached(s) \subseteq c.todo
                                      /\ c.pc # "oldAccess" => Cached(s) = {}
    PROVE  IInv'
<1>1. c.op # None /\ c.op # "revokeAll"
  BY DEF None
<1>2. /\ CallsOK' /\ DOMAIN call' = Calls /\ call'[r] = c /\ call[r].op = None
      /\ \A q \in Calls \ {r} : call'[q] = call[q]
      /\ \A q \in Calls : call[q].op \notin Sole
      /\ c.op \in Sole => \A q \in Calls : call[q].op = None
  BY <1>1, CallStarts DEF IInv
<1>3. TypeOK'
  BY <1>2 DEF IInv, TypeOK
<1>4. At(r, s)' /\ ~At(r, s)
  BY <1>1, <1>2 DEF At
<1>5. Works(r, s)
  BY <1>2, <1>4 DEF Works
<1>6. ASSUME s \notin raced' \cup failed' PROVE Sound(s)'
  <2>1. Sound(s) /\ Cached(s)' = Cached(s)
    BY <1>6 DEF IInv, Cached
  <2>2. \A q \in Calls \ {r} : At(q, s)' <=> At(q, s)
    BY <1>2 DEF At
  <2>3. \A q \in Calls : At(q, s) => q # r /\ call[q].op # "create"
    BY <1>4, <2>1 DEF Sound, HoldsRow
  <2>4. CopiesRight(s)'
    BY <1>2, <2>1, <2>2, <2>3 DEF Sound, CopiesRight
  <2>5. IdKeyFollows(s)'
    BY <1>2, <2>1, <2>2, <2>3 DEF Sound, IdKeyFollows
  <2>6. Withdrawn(s)'
    BY <1>2, <2>1, <2>2, <2>3 DEF Withdrawn
  <2>7. Lapsed(s)'
    BY <2>1 DEF Lapsed
  <2>8. HoldsRow(r, s)'
    <3>1. c.op \in {"refresh", "switch"} => db[s].st = "active"
      <4>1. c.op \in {"refresh", "switch"} => \A q \in Calls : ~At(q, s)
        BY <1>2 DEF At, Sole
      <4>2. db[s].st \in {"none", "active", "revoked"}
        BY DEF IInv, TypeOK
      <4> QED BY <2>1, <4>1, <4>2
    <3> QED BY <1>2, <2>1, <3>1 DEF HoldsRow
  <2>9. \A q \in Calls : HoldsRow(q, s)' /\ Deletes(q, s)'
    <3>1. ~At(r, s) => \A q \in Calls : call[q].op \notin Sole /\ (At(q, s) => call[q].op # "create")
      BY <1>2, <2>3
    <3> QED BY <1>5, <2>1, <2>8, <3>1, OthersHold
  <2> QED BY <2>4, <2>5, <2>6, <2>7, <2>9 DEF Sound
<1> QED BY <1>2, <1>3, <1>5, <1>6, WorksKeeps

\* A token that exists is the current one, of the user in the row, while no
\* operation that runs alone is in progress.
LEMMA UsableTokens ==
    ASSUME IInv, NEW s \in Sessions, NEW g \in Gens, Usable(s, g), Sound(s),
           \A q \in Calls : call[q].op \notin Sole
    PROVE  /\ db[s].st # "none" /\ ~db[s].expired
           /\ db[s].st = "revoked" => \E q \in Calls : At(q, s) /\ call[q].op = "revoke"
           /\ g = db[s].gen /\ access[<<s, g>>] = db[s].user
<1>1. db[s].st # "none" /\ g \in Cached(s)
  BY DEF Usable, Cached
<1>2. \A q \in Calls : At(q, s) => call[q].op # "create"
  BY <1>1 DEF Sound, HoldsRow
<1>3. g = db[s].gen /\ access[<<s, g>>] = db[s].user
  BY <1>1, <1>2 DEF Sound, CopiesRight, Sole
<1>4. ~db[s].expired
  BY <1>1 DEF Sound, Lapsed
<1>5. db[s].st = "revoked" => \E q \in Calls : At(q, s) /\ call[q].op = "revoke"
  BY <1>1 DEF Sound, Withdrawn
<1> QED BY <1>1, <1>3, <1>4, <1>5

\* While a request may start, or every one is over, no operation runs alone.
LEMMA NoneAlone ==
    ASSUME IInv, NEW r \in Calls, Starts(r) \/ Quiet
    PROVE  \A q \in Calls : call[q].op \notin Sole
<1>1. \A q \in Calls : call[q].pc = "idle" => call[q].op = None
  BY DEF IInv, CallsOK, Shape, Call, Sole
<1> QED BY <1>1 DEF IInv, CallsOK, RunAlone, Starts, Quiet, Sole, None

\* A lookup starts with the user that the key it found holds.
LEMMA FindKeeps ==
    ASSUME IInv, NEW r \in Calls, NEW s \in Sessions, NEW g \in Gens, Find(r, s, g)
    PROVE  IInv'
<1> DEFINE c == [op |-> "find", pc |-> "setAccess", s |-> s, g |-> g,
                 user |-> access[<<s, g>>], todo |-> {}]
<1>1. /\ call' = [call EXCEPT ![r] = c] /\ UNCHANGED <<db, access, idKey, raced, failed, deleted>>
      /\ Starts(r) /\ Usable(s, g)
  BY DEF Find
<1>2. c.op = "find" /\ c.pc = "setAccess" /\ c.s = s /\ c.g = g /\ c.user = access[<<s, g>>]
  OBVIOUS
<1>3. Shape(c)
  <2>1. access[<<s, g>>] \in Users \cup {None} /\ g \in 0..MaxGen
    BY SessionAssumption DEF IInv, TypeOK, Gens
  <2>2. c \in Call
    BY <2>1 DEF Call, Sole
  <2> QED BY <2>2 DEF Shape, None
<1> HIDE DEF c
<1>4. Sound(s) => /\ db[s].st # "none" /\ ~db[s].expired
                  /\ db[s].st = "revoked" => \E q \in Calls : At(q, s) /\ call[q].op = "revoke"
                  /\ g = db[s].gen /\ access[<<s, g>>] = db[s].user
  BY <1>1, NoneAlone, UsableTokens
<1>5. c.op \notin Sole
  BY <1>2 DEF Sole
<1> QED BY <1>1, <1>2, <1>3, <1>4, <1>5, StartKeeps

\* A logout starts with the generation the session has.
LEMMA RevokeGetKeeps ==
    ASSUME IInv, NEW r \in Calls, NEW s \in Sessions, NEW g \in Gens, RevokeGet(r, s, g)
    PROVE  IInv'
<1> DEFINE c == [op |-> "revoke", pc |-> "revokeId", s |-> s, g |-> g,
                 user |-> None, todo |-> {}]
<1>1. /\ call' = [call EXCEPT ![r] = c] /\ UNCHANGED <<db, access, idKey, raced, failed, deleted>>
      /\ Starts(r) /\ Usable(s, g)
  BY DEF RevokeGet
<1>2. c.op = "revoke" /\ c.pc = "revokeId" /\ c.s = s /\ c.g = g
  OBVIOUS
<1>3. Shape(c)
  <2>1. g \in 0..MaxGen
    BY SessionAssumption DEF Gens
  <2>2. c \in Call
    BY <2>1 DEF Call, Sole
  <2> QED BY <2>2 DEF Shape, None
<1> HIDE DEF c
<1>4. Sound(s) => /\ db[s].st # "none" /\ ~db[s].expired
                  /\ db[s].st = "revoked" => \E q \in Calls : At(q, s) /\ call[q].op = "revoke"
                  /\ g = db[s].gen
  BY <1>1, NoneAlone, UsableTokens
<1>5. c.op \notin Sole
  BY <1>2 DEF Sole
<1> QED BY <1>1, <1>2, <1>3, <1>4, <1>5, StartKeeps

\* A switch of the user starts alone, with the generation the session has.
LEMMA SwitchGetKeeps ==
    ASSUME IInv, NEW r \in Calls, NEW s \in Sessions, NEW g \in Gens, NEW u \in Users,
           SwitchGet(r, s, g, u)
    PROVE  IInv'
<1> DEFINE c == [op |-> "switch", pc |-> "updateUser", s |-> s, g |-> g,
                 user |-> u, todo |-> {}]
<1>1. /\ call' = [call EXCEPT ![r] = c] /\ UNCHANGED <<db, access, idKey, raced, failed, deleted>>
      /\ StartsAlone("switch") /\ Usable(s, g)
  BY DEF SwitchGet
<1>2. c.op = "switch" /\ c.pc = "updateUser" /\ c.s = s /\ c.g = g
  OBVIOUS
<1>3. Shape(c)
  <2>1. g \in 0..MaxGen
    BY SessionAssumption DEF Gens
  <2>2. c \in Call
    BY <2>1 DEF Call, Sole
  <2> QED BY <2>2 DEF Shape, None
<1> HIDE DEF c
<1>4. Sound(s) => /\ db[s].st # "none" /\ ~db[s].expired
                  /\ db[s].st = "revoked" => \E q \in Calls : At(q, s) /\ call[q].op = "revoke"
                  /\ g = db[s].gen
  BY <1>1, NoneAlone, UsableTokens DEF StartsAlone
<1>5. c.op \in Sole
  BY <1>2 DEF Sole
<1> QED BY <1>1, <1>2, <1>3, <1>4, <1>5, StartKeeps

\* A refresh starts alone, with the next generation and the cached one to delete.
LEMMA RefreshFindKeeps ==
    ASSUME IInv, NEW r \in Calls, NEW s \in Sessions, RefreshFind(r, s)
    PROVE  IInv'
<1> DEFINE c == [op |-> "refresh", s |-> s, user |-> db[s].user, todo |-> {idKey[s]} \ {0},
                 g |-> db[s].gen + 1, pc |-> IF idKey[s] = 0 THEN "updateRow" ELSE "oldAccess"]
<1>1. /\ call' = [call EXCEPT ![r] = c] /\ UNCHANGED <<db, access, idKey, raced, failed, deleted>>
      /\ StartsAlone("refresh") /\ db[s].gen < MaxGen /\ db[s].st = "active" /\ ~db[s].expired
  BY DEF RefreshFind
<1>2. /\ c.op = "refresh" /\ c.s = s /\ c.user = db[s].user /\ c.g = db[s].gen + 1
      /\ c.todo = {idKey[s]} \ {0} /\ c.pc = IF idKey[s] = 0 THEN "updateRow" ELSE "oldAccess"
  OBVIOUS
<1>3. db[s].gen \in 0..MaxGen /\ db[s].user \in Users \cup {None} /\ idKey[s] \in 0..MaxGen
  BY DEF IInv, TypeOK
<1>4. Shape(c)
  <2>1. db[s].gen + 1 \in 0..MaxGen /\ db[s].gen + 1 \in Gens
    BY <1>1, <1>3, SessionAssumption DEF Gens
  <2>2. {idKey[s]} \ {0} \subseteq Sessions \cup Gens
    BY <1>3, SessionAssumption DEF Gens
  <2>3. c \in Call
    BY <1>3, <2>1, <2>2 DEF Call, Sole
  <2> QED BY <2>1, <2>3 DEF Shape, None
<1> HIDE DEF c
<1>5. c.op \in Sole
  BY <1>2 DEF Sole
<1>6. Sound(s) => /\ c.pc = "oldAccess" => Cached(s) \subseteq c.todo
                  /\ c.pc # "oldAccess" => Cached(s) = {}
  <2>1. \A q \in Calls : ~At(q, s)
    <3>1. \A q \in Calls : call[q].op = None
      BY <1>1 DEF StartsAlone, Quiet, IInv, CallsOK, Shape, Call, Sole
    <3> QED BY <3>1 DEF At
  <2>2. Cached(s) \subseteq Gens /\ 0 \notin Gens
    BY DEF Cached, Gens
  <2>3. Sound(s) => Cached(s) \subseteq {idKey[s]}
    BY <2>1 DEF Sound, IdKeyFollows
  <2> QED BY <1>2, <2>2, <2>3
<1> QED BY <1>1, <1>2, <1>4, <1>5, <1>6, StartKeeps

\* A login makes a session that has no row, no key and no request at work.
LEMMA CreateKeeps ==
    ASSUME IInv, NEW r \in Calls, NEW s \in Sessions, Create(r, s)
    PROVE  IInv'
<1> DEFINE c == [op |-> "create", pc |-> "setAccess", s |-> s, g |-> 1,
                 user |-> Primary, todo |-> {}]
<1>1. /\ call' = [call EXCEPT ![r] = c] /\ Starts(r) /\ Unused(s)
      /\ db' = [db EXCEPT ![s] = NoRow]
      /\ deleted' = deleted \ {s} /\ raced' = raced \ {s} /\ failed' = failed \ {s}
      /\ access' = access /\ idKey' = idKey
  BY DEF Create
<1>2. c.op = "create" /\ c.pc = "setAccess" /\ c.s = s /\ c.g = 1
  OBVIOUS
<1>3. Shape(c)
  <2>1. c \in Call
    BY SessionAssumption DEF Call, Sole
  <2>2. 1 \in Gens
    BY SessionAssumption DEF Gens
  <2> QED BY <2>1, <2>2 DEF Shape, None
<1> HIDE DEF c
<1>4. /\ CallsOK' /\ DOMAIN call' = Calls /\ call'[r] = c /\ call[r].op = None
      /\ \A q \in Calls \ {r} : call'[q] = call[q]
      /\ \A q \in Calls : call[q].op \notin Sole
  <2>1. c.op # None /\ c.op \notin Sole
    BY <1>2 DEF None, Sole
  <2> QED BY <1>1, <1>3, <2>1, CallStarts DEF IInv
<1>5. /\ db' \in Rows /\ db'[s].st = "none" /\ ~db'[s].expired
      /\ \A t \in Sessions \ {s} : db'[t] = db[t]
  <2>1. /\ NoRow.st = "none" /\ ~NoRow.expired
        /\ NoRow \in [st : {"none", "active", "revoked"}, gen : 0..MaxGen,
                      user : Users \cup {None}, expired : BOOLEAN]
    BY SessionAssumption DEF NoRow
  <2> QED BY <1>1, <2>1 DEF IInv, TypeOK, Rows
<1>6. TypeOK'
  BY <1>1, <1>4, <1>5 DEF IInv, TypeOK, Rows
<1>7. Cached(s)' = {} /\ \A q \in Calls : ~At(q, s)
  BY <1>1 DEF Unused, Cached, At
<1>8. At(r, s)' /\ \A q \in Calls \ {r} : ~At(q, s)'
  BY <1>2, <1>4, <1>7 DEF At, None
<1>9. Sound(s)'
  <2>1. CopiesRight(s)' /\ IdKeyFollows(s)'
    BY <1>7 DEF CopiesRight, IdKeyFollows
  <2>2. Withdrawn(s)' /\ Lapsed(s)'
    BY <1>5 DEF Withdrawn, Lapsed
  <2>3. ASSUME NEW q \in Calls PROVE HoldsRow(q, s)' /\ Deletes(q, s)'
    <3>1. CASE q = r
      BY <1>2, <1>4, <1>5, <1>8, <3>1 DEF HoldsRow, Deletes
    <3>2. CASE q # r
      BY <1>4, <1>8, <3>2 DEF HoldsRow, Deletes, Sole
    <3> QED BY <3>1, <3>2
  <2> QED BY <2>1, <2>2, <2>3 DEF Sound
<1>10. ASSUME NEW t \in Sessions, t # s, t \notin raced' \cup failed' PROVE Sound(t)'
  <2>1. Sound(t) /\ ~At(r, t) /\ ~At(r, t)' /\ Deletes(r, t)'
    BY <1>1, <1>2, <1>4, <1>10 DEF IInv, At, Deletes
  <2> QED BY <1>1, <1>4, <1>5, <1>10, <2>1, Elsewhere
<1> QED BY <1>4, <1>6, <1>9, <1>10 DEF IInv

-----------------------------------------------------------------------------
\* Revoke

LEMMA RevokeIdKeeps ==
    ASSUME IInv, NEW r \in Calls, RevokeId(r)
    PROVE  IInv'
<1>1. /\ call[r].pc = "revokeId" /\ Goto(r, "revokeRow")
      /\ idKey' = [idKey EXCEPT ![call[r].s] = 0]
      /\ db' = db /\ access' = access /\ raced' = raced /\ failed' = failed /\ deleted' = deleted
  BY DEF RevokeId
<1>2. PICK s \in Sessions, g \in Gens : Shape(call[r]) /\ call[r].s = s /\ call[r].g = g /\ At(r, s)
  BY <1>1, WhichSession
<1>3. Shape([call[r] EXCEPT !.pc = "revokeRow"]) /\ call[r].op = "revoke"
  BY <1>1, <1>2 DEF Shape, Call, Sole, None
<1>4. /\ CallsOK' /\ DOMAIN call' = Calls /\ At(r, s)' /\ call'[r].op = "revoke"
      /\ \A q \in Calls \ {r} : call'[q] = call[q]
      /\ call'[r].pc = "revokeRow" /\ call'[r].g = call[r].g
  BY <1>1, <1>2, <1>3, GotoWorks
<1>5. \A t \in Sessions \ {s} : idKey'[t] = idKey[t]
  BY <1>1, <1>2 DEF IInv, TypeOK
<1>6. TypeOK'
  BY <1>1, <1>2, <1>4, SessionAssumption DEF IInv, TypeOK
<1>7. Works(r, s)
  BY <1>1, <1>2, <1>4, <1>5 DEF Works
<1>8. ASSUME s \notin raced' \cup failed' PROVE Sound(s)'
  <2>1. Sound(s) /\ Cached(s)' = Cached(s)
    BY <1>1, <1>2, <1>8 DEF IInv, Cached
  <2>2. \A q \in Calls \ {r} : At(q, s)' <=> At(q, s)
    BY <1>4 DEF At
  <2>3. CopiesRight(s)'
    BY <1>1, <1>2, <1>3, <1>4, <2>1, <2>2 DEF Sound, CopiesRight
  <2>4. IdKeyFollows(s)'
    BY <1>4 DEF IdKeyFollows
  <2>5. Withdrawn(s)'
    BY <1>4 DEF Withdrawn
  <2>6. Lapsed(s)'
    BY <1>1, <1>2, <2>1 DEF Sound, Lapsed
  <2>7. HoldsRow(r, s)'
    BY <1>1, <1>2, <1>3, <1>4, <2>1 DEF Sound, HoldsRow
  <2>8. \A q \in Calls : HoldsRow(q, s)' /\ Deletes(q, s)'
    <3>1. db[s].st # "none"
      BY <1>2, <1>3, <2>1 DEF Sound, HoldsRow
    <3> QED BY <1>1, <1>2, <1>7, <2>1, <2>7, <3>1, OthersHold
  <2> QED BY <2>3, <2>4, <2>5, <2>6, <2>8 DEF Sound
<1> QED BY <1>4, <1>6, <1>7, <1>8, WorksKeeps

\* A logout revokes the row: the keys that are left are its own to delete.
LEMMA RevokeRowKeeps ==
    ASSUME IInv, NEW r \in Calls, RevokeRow(r)
    PROVE  IInv'
<1>1. /\ call[r].pc = "revokeRow" /\ Goto(r, "revokeAccess")
      /\ db' = [db EXCEPT ![call[r].s].st = "revoked"]
      /\ idKey' = idKey /\ access' = access /\ raced' = raced /\ failed' = failed /\ deleted' = deleted
  BY DEF RevokeRow
<1>2. PICK s \in Sessions, g \in Gens : Shape(call[r]) /\ call[r].s = s /\ call[r].g = g /\ At(r, s)
  BY <1>1, WhichSession
<1>3. Shape([call[r] EXCEPT !.pc = "revokeAccess"]) /\ call[r].op = "revoke"
  BY <1>1, <1>2 DEF Shape, Call, Sole, None
<1>4. /\ CallsOK' /\ DOMAIN call' = Calls /\ At(r, s)' /\ call'[r].op = "revoke"
      /\ \A q \in Calls \ {r} : call'[q] = call[q]
      /\ call'[r].pc = "revokeAccess" /\ call'[r].g = call[r].g
  BY <1>1, <1>2, <1>3, GotoWorks
<1>5. /\ db' \in Rows /\ (\A t \in Sessions \ {s} : db'[t] = db[t])
      /\ db'[s].st = "revoked" /\ db'[s].gen = db[s].gen
      /\ db'[s].user = db[s].user /\ db'[s].expired = db[s].expired
  BY <1>1, <1>2, UpdateStatus
<1>6. TypeOK'
  BY <1>1, <1>4, <1>5 DEF IInv, TypeOK, Rows
<1>7. Works(r, s)
  BY <1>1, <1>2, <1>4, <1>5 DEF Works
<1>8. ASSUME s \notin raced' \cup failed' PROVE Sound(s)'
  <2>1. Sound(s) /\ Cached(s)' = Cached(s)
    BY <1>1, <1>2, <1>8 DEF IInv, Cached
  <2>2. \A q \in Calls \ {r} : At(q, s)' <=> At(q, s)
    BY <1>4 DEF At
  <2>3. db[s].st # "none" /\ call[r].g = db[s].gen
    BY <1>2, <1>3, <2>1 DEF Sound, HoldsRow
  <2>4. CopiesRight(s)'
    BY <1>1, <1>2, <1>3, <1>4, <1>5, <2>1, <2>2 DEF Sound, CopiesRight
  <2>5. IdKeyFollows(s)'
    BY <1>4 DEF IdKeyFollows
  <2>6. Withdrawn(s)'
    BY <1>4 DEF Withdrawn
  <2>7. Lapsed(s)'
    BY <1>2, <1>5, <2>1 DEF Sound, Lapsed
  <2>8. HoldsRow(r, s)'
    BY <1>4, <1>5, <2>3 DEF HoldsRow
  <2>9. \A q \in Calls : HoldsRow(q, s)' /\ Deletes(q, s)'
    BY <1>2, <1>5, <1>7, <2>1, <2>8, OthersHold
  <2> QED BY <2>4, <2>5, <2>6, <2>7, <2>9 DEF Sound
<1> QED BY <1>4, <1>6, <1>7, <1>8, WorksKeeps

\* The access key is deleted last: it is the current one, so none is left, and
\* unless the session is raced no copy of it is held.
LEMMA RevokeAccessKeeps ==
    ASSUME IInv, NEW r \in Calls, RevokeAccess(r)
    PROVE  IInv'
<1>1. /\ call[r].pc = "revokeAccess" /\ Return(r)
      /\ access' = [access EXCEPT ![<<call[r].s, call[r].g>>] = None]
      /\ raced' = IF CopyHeld(r, call[r].s) THEN raced \cup {call[r].s} ELSE raced
      /\ db' = db /\ idKey' = idKey /\ failed' = failed /\ deleted' = deleted
  BY DEF RevokeAccess
<1>2. PICK s \in Sessions, g \in Gens : Shape(call[r]) /\ call[r].s = s /\ call[r].g = g /\ At(r, s)
  BY <1>1, WhichSession
<1>3. call[r].op = "revoke"
  BY <1>1, <1>2 DEF Shape, Call, Sole, None
<1>4. /\ CallsOK' /\ DOMAIN call' = Calls /\ ~At(r, s)' /\ call'[r].op = None
      /\ \A q \in Calls \ {r} : call'[q] = call[q]
  BY <1>1, <1>2, ReturnWorks
<1>5. /\ access'[<<s, g>>] = None
      /\ \A t \in Sessions, h \in Gens : <<t, h>> # <<s, g>> => access'[<<t, h>>] = access[<<t, h>>]
  BY <1>1, <1>2 DEF IInv, TypeOK
<1>6. TypeOK'
  BY <1>1, <1>2, <1>4 DEF IInv, TypeOK
<1>7. Works(r, s)
  BY <1>1, <1>2, <1>4, <1>5 DEF Works
<1>8. ASSUME s \notin raced' \cup failed' PROVE Sound(s)'
  <2>1. Sound(s) /\ ~CopyHeld(r, s)
    BY <1>1, <1>2, <1>8 DEF IInv
  <2>2. \A q \in Calls \ {r} : At(q, s)' <=> At(q, s)
    BY <1>4 DEF At
  <2>3. Cached(s)' = {}
    <3>1. \A h \in Cached(s) : h = g
      BY <1>2, <1>3, <2>1, OneGeneration
    <3> QED BY <1>5, <3>1 DEF Cached
  <2>4. CopiesRight(s)' /\ IdKeyFollows(s)'
    BY <2>3 DEF CopiesRight, IdKeyFollows
  <2>5. Withdrawn(s)'
    <3>1. \A q \in Calls \ {r} : At(q, s) => call[q].pc # "setAccess"
      BY <2>1 DEF CopyHeld, At
    <3>2. \A q \in Calls : At(q, s)' => q \in Calls \ {r}
      BY <1>4
    <3> QED BY <1>4, <2>2, <2>3, <3>1, <3>2 DEF Withdrawn
  <2>6. Lapsed(s)'
    BY <1>1, <1>2, <2>1 DEF Sound, Lapsed
  <2>7. HoldsRow(r, s)'
    BY <1>4 DEF HoldsRow
  <2>8. \A q \in Calls : HoldsRow(q, s)' /\ Deletes(q, s)'
    <3>1. db[s].st # "none"
      BY <1>2, <1>3, <2>1 DEF Sound, HoldsRow
    <3> QED BY <1>1, <1>2, <1>7, <2>1, <2>7, <3>1, OthersHold
  <2> QED BY <2>4, <2>5, <2>6, <2>8 DEF Sound
<1> QED BY <1>4, <1>6, <1>7, <1>8, WorksKeeps

-----------------------------------------------------------------------------
\* Refresh and SwitchUser: by themselves

\* A step of one of them on the session it works on.
LEMMA SoleStep ==
    ASSUME IInv, TypeOK', CallsOK', NEW r \in Calls, NEW s \in Sessions, Works(r, s), At(r, s),
           call[r].op \in {"refresh", "switch"}, At(r, s)', call'[r].op = call[r].op,
           Sound(s) => HoldsRow(r, s)' /\ ~db'[s].expired /\ CopiesRight(s)' /\ IdKeyFollows(s)'
    PROVE  IInv'
<1>1. ASSUME s \notin raced' \cup failed' PROVE Sound(s)'
  <2>1. Sound(s)
    BY <1>1 DEF IInv, Works
  <2>2. HoldsRow(r, s)' /\ ~db'[s].expired /\ CopiesRight(s)' /\ IdKeyFollows(s)'
    BY <2>1
  <2>3. Withdrawn(s)' /\ Lapsed(s)'
    BY <2>2 DEF HoldsRow, Withdrawn, Lapsed
  <2>4. \A q \in Calls : HoldsRow(q, s)' /\ Deletes(q, s)'
    BY <2>1, <2>2, OthersHold DEF None
  <2> QED BY <2>2, <2>3, <2>4 DEF Sound
<1> QED BY <1>1, WorksKeeps

\* A refresh deletes the access key of the old token.
LEMMA RefreshOldAccessKeeps ==
    ASSUME IInv, NEW r \in Calls, RefreshOldAccess(r)
    PROVE  IInv'
<1>1. /\ call[r].pc = "oldAccess" /\ Goto(r, "oldId")
      /\ access' = [t \in Sessions \X Gens |->
            IF t[1] = call[r].s /\ t[2] \in call[r].todo THEN None ELSE access[t]]
      /\ db' = db /\ idKey' = idKey /\ raced' = raced /\ failed' = failed /\ deleted' = deleted
  BY DEF RefreshOldAccess
<1>2. PICK s \in Sessions, g \in Gens : Shape(call[r]) /\ call[r].s = s /\ call[r].g = g /\ At(r, s)
  BY <1>1, WhichSession
<1>3. Shape([call[r] EXCEPT !.pc = "oldId"]) /\ call[r].op = "refresh"
  BY <1>1, <1>2 DEF Shape, Call, Sole, None
<1>4. /\ CallsOK' /\ DOMAIN call' = Calls /\ At(r, s)' /\ call'[r].op = "refresh"
      /\ \A q \in Calls \ {r} : call'[q] = call[q]
      /\ call'[r].pc = "oldId" /\ call'[r].g = call[r].g /\ call'[r].user = call[r].user
  BY <1>1, <1>2, <1>3, GotoWorks
<1>5. /\ \A h \in Gens : access'[<<s, h>>] = IF h \in call[r].todo THEN None ELSE access[<<s, h>>]
      /\ \A t \in Sessions \ {s}, h \in Gens : access'[<<t, h>>] = access[<<t, h>>]
  BY <1>1, <1>2
<1>6. TypeOK'
  BY <1>1, <1>4 DEF IInv, TypeOK
<1>7. Works(r, s)
  BY <1>1, <1>2, <1>4, <1>5 DEF Works
<1>8. ASSUME Sound(s) PROVE HoldsRow(r, s)' /\ ~db'[s].expired /\ CopiesRight(s)' /\ IdKeyFollows(s)'
  <2>1. HoldsRow(r, s) /\ ~db[s].expired
    BY <1>2, <1>8 DEF Sound, Lapsed
  <2>2. Cached(s)' = {}
    BY <1>1, <1>2, <1>3, <1>5, <2>1 DEF HoldsRow, Cached
  <2>3. HoldsRow(r, s)'
    BY <1>1, <1>2, <1>3, <1>4, <2>1, <2>2 DEF HoldsRow
  <2> QED BY <1>1, <2>1, <2>2, <2>3 DEF CopiesRight, IdKeyFollows
<1> QED BY <1>2, <1>3, <1>4, <1>6, <1>7, <1>8, SoleStep

\* A refresh deletes the id key.
LEMMA RefreshOldIdKeeps ==
    ASSUME IInv, NEW r \in Calls, RefreshOldId(r)
    PROVE  IInv'
<1>1. /\ call[r].pc = "oldId" /\ Goto(r, "updateRow")
      /\ idKey' = [idKey EXCEPT ![call[r].s] = 0]
      /\ db' = db /\ access' = access /\ raced' = raced /\ failed' = failed /\ deleted' = deleted
  BY DEF RefreshOldId
<1>2. PICK s \in Sessions, g \in Gens : Shape(call[r]) /\ call[r].s = s /\ call[r].g = g /\ At(r, s)
  BY <1>1, WhichSession
<1>3. Shape([call[r] EXCEPT !.pc = "updateRow"]) /\ call[r].op = "refresh"
  BY <1>1, <1>2 DEF Shape, Call, Sole, None
<1>4. /\ CallsOK' /\ DOMAIN call' = Calls /\ At(r, s)' /\ call'[r].op = "refresh"
      /\ \A q \in Calls \ {r} : call'[q] = call[q]
      /\ call'[r].pc = "updateRow" /\ call'[r].g = call[r].g /\ call'[r].user = call[r].user
  BY <1>1, <1>2, <1>3, GotoWorks
<1>5. \A t \in Sessions \ {s} : idKey'[t] = idKey[t]
  BY <1>1, <1>2 DEF IInv, TypeOK
<1>6. TypeOK'
  BY <1>1, <1>2, <1>4, SessionAssumption DEF IInv, TypeOK
<1>7. Works(r, s)
  BY <1>1, <1>2, <1>4, <1>5 DEF Works
<1>8. ASSUME Sound(s) PROVE HoldsRow(r, s)' /\ ~db'[s].expired /\ CopiesRight(s)' /\ IdKeyFollows(s)'
  <2>1. HoldsRow(r, s) /\ ~db[s].expired
    BY <1>2, <1>8 DEF Sound, Lapsed
  <2>2. Cached(s)' = {}
    BY <1>1, <1>2, <1>3, <2>1 DEF HoldsRow, Cached
  <2>3. HoldsRow(r, s)'
    BY <1>1, <1>2, <1>3, <1>4, <2>1, <2>2 DEF HoldsRow
  <2> QED BY <1>1, <2>1, <2>2, <2>3 DEF CopiesRight, IdKeyFollows
<1> QED BY <1>2, <1>3, <1>4, <1>6, <1>7, <1>8, SoleStep

\* A refresh stores the new token in the row, when no key of the old one is left.
LEMMA UpdateRefreshTokenKeeps ==
    ASSUME IInv, NEW r \in Calls, UpdateRefreshToken(r)
    PROVE  IInv'
<1>1. /\ call[r].pc = "updateRow" /\ Goto(r, "setAccess")
      /\ db' = [db EXCEPT ![call[r].s].gen = call[r].g, ![call[r].s].expired = FALSE]
      /\ idKey' = idKey /\ access' = access /\ raced' = raced /\ failed' = failed /\ deleted' = deleted
  BY DEF UpdateRefreshToken
<1>2. PICK s \in Sessions, g \in Gens : Shape(call[r]) /\ call[r].s = s /\ call[r].g = g /\ At(r, s)
  BY <1>1, WhichSession
<1>3. Shape([call[r] EXCEPT !.pc = "setAccess"]) /\ call[r].op = "refresh"
  BY <1>1, <1>2 DEF Shape, Call, Sole, None
<1>4. /\ CallsOK' /\ DOMAIN call' = Calls /\ At(r, s)' /\ call'[r].op = "refresh"
      /\ \A q \in Calls \ {r} : call'[q] = call[q]
      /\ call'[r].pc = "setAccess" /\ call'[r].g = call[r].g /\ call'[r].user = call[r].user
  BY <1>1, <1>2, <1>3, GotoWorks
<1>5. /\ db' \in Rows /\ (\A t \in Sessions \ {s} : db'[t] = db[t])
      /\ db'[s].st = db[s].st /\ db'[s].gen = g
      /\ db'[s].user = db[s].user /\ ~db'[s].expired
  <2> DEFINE row == [db[s] EXCEPT !.gen = g, !.expired = FALSE]
  <2>1. db \in Rows /\ db' = [db EXCEPT ![s] = row]
    BY <1>1, <1>2 DEF IInv, TypeOK, Rows
  <2>2. /\ row.st = db[s].st /\ row.gen = g /\ row.user = db[s].user /\ row.expired = FALSE
        /\ row \in [st : {"none", "active", "revoked"}, gen : 0..MaxGen,
                    user : Users \cup {None}, expired : BOOLEAN]
    <3>1. g \in 0..MaxGen
      BY SessionAssumption DEF Gens
    <3> QED BY <2>1, <3>1 DEF Rows
  <2> HIDE DEF row
  <2> QED BY <2>1, <2>2 DEF Rows
<1>6. TypeOK'
  BY <1>1, <1>4, <1>5 DEF IInv, TypeOK, Rows
<1>7. Works(r, s)
  BY <1>1, <1>2, <1>4, <1>5 DEF Works
<1>8. ASSUME Sound(s) PROVE HoldsRow(r, s)' /\ ~db'[s].expired /\ CopiesRight(s)' /\ IdKeyFollows(s)'
  <2>1. HoldsRow(r, s)
    BY <1>8 DEF Sound
  <2>2. Cached(s)' = {}
    BY <1>1, <1>2, <1>3, <2>1 DEF HoldsRow, Cached
  <2>3. HoldsRow(r, s)'
    BY <1>1, <1>2, <1>3, <1>4, <1>5, <2>1, <2>2 DEF HoldsRow
  <2> QED BY <1>5, <2>2, <2>3 DEF CopiesRight, IdKeyFollows
<1> QED BY <1>2, <1>3, <1>4, <1>6, <1>7, <1>8, SoleStep

\* A switch stores the user in the row; the key follows in its next step.
LEMMA UpdateUserIDKeeps ==
    ASSUME IInv, NEW r \in Calls, UpdateUserID(r)
    PROVE  IInv'
<1>1. /\ call[r].pc = "updateUser" /\ Goto(r, "setAccess")
      /\ db' = [db EXCEPT ![call[r].s].user = call[r].user]
      /\ idKey' = idKey /\ access' = access /\ raced' = raced /\ failed' = failed /\ deleted' = deleted
  BY DEF UpdateUserID
<1>2. PICK s \in Sessions, g \in Gens : Shape(call[r]) /\ call[r].s = s /\ call[r].g = g /\ At(r, s)
  BY <1>1, WhichSession
<1>3. /\ Shape([call[r] EXCEPT !.pc = "setAccess"]) /\ call[r].op = "switch"
      /\ call[r].user \in Users \cup {None}
  BY <1>1, <1>2 DEF Shape, Call, Sole, None
<1>4. /\ CallsOK' /\ DOMAIN call' = Calls /\ At(r, s)' /\ call'[r].op = "switch"
      /\ \A q \in Calls \ {r} : call'[q] = call[q]
      /\ call'[r].pc = "setAccess" /\ call'[r].g = call[r].g /\ call'[r].user = call[r].user
  BY <1>1, <1>2, <1>3, GotoWorks
<1>5. /\ db' \in Rows /\ (\A t \in Sessions \ {s} : db'[t] = db[t])
      /\ db'[s].st = db[s].st /\ db'[s].gen = db[s].gen
      /\ db'[s].user = call[r].user /\ db'[s].expired = db[s].expired
  <2> DEFINE row == [db[s] EXCEPT !.user = call[r].user]
  <2>1. db \in Rows /\ db' = [db EXCEPT ![s] = row]
    BY <1>1, <1>2 DEF IInv, TypeOK, Rows
  <2>2. /\ row.st = db[s].st /\ row.gen = db[s].gen /\ row.user = call[r].user
        /\ row.expired = db[s].expired
        /\ row \in [st : {"none", "active", "revoked"}, gen : 0..MaxGen,
                    user : Users \cup {None}, expired : BOOLEAN]
    BY <1>3, <2>1 DEF Rows
  <2> HIDE DEF row
  <2> QED BY <2>1, <2>2 DEF Rows
<1>6. TypeOK'
  BY <1>1, <1>4, <1>5 DEF IInv, TypeOK, Rows
<1>7. Works(r, s)
  BY <1>1, <1>2, <1>4, <1>5 DEF Works
<1>8. ASSUME Sound(s) PROVE HoldsRow(r, s)' /\ ~db'[s].expired /\ CopiesRight(s)' /\ IdKeyFollows(s)'
  <2>1. HoldsRow(r, s) /\ ~db[s].expired /\ Cached(s)' = Cached(s)
    BY <1>1, <1>2, <1>8 DEF Sound, Lapsed, Cached
  <2>2. \A h \in Cached(s) : db[s].st # "none" /\ h = db[s].gen
    BY <1>2, <1>3, <1>8, OneGeneration
  <2>3. CopiesRight(s)'
    BY <1>4, <1>5, <2>1, <2>2 DEF CopiesRight
  <2>4. HoldsRow(r, s)'
    BY <1>1, <1>2, <1>3, <1>4, <1>5, <2>1 DEF HoldsRow
  <2>5. IdKeyFollows(s)'
    <3>1. \A q \in Calls \ {r} : At(q, s)' <=> At(q, s)
      BY <1>4 DEF At
    <3> QED BY <1>1, <1>4, <1>8, <2>1, <3>1 DEF Sound, IdKeyFollows
  <2> QED BY <1>5, <2>1, <2>3, <2>4, <2>5
<1> QED BY <1>2, <1>3, <1>4, <1>6, <1>7, <1>8, SoleStep

-----------------------------------------------------------------------------
\* The rows of a device's sessions go: nothing the invariant speaks of does, but a
\* revocation of all sessions need not deal with them.
LEMMA DeleteDeviceKeeps ==
    ASSUME IInv, NEW r \in Calls, NEW gone \in SUBSET Sessions, DeleteDevice(r, gone)
    PROVE  IInv'
<1>1. /\ deleted' = deleted \cup gone
      /\ db' = db /\ access' = access /\ idKey' = idKey /\ call' = call
      /\ raced' = raced /\ failed' = failed
  BY DEF DeleteDevice
<1>2. TypeOK' /\ CallsOK'
  BY <1>1 DEF IInv, TypeOK, CallsOK, RunAlone
<1>3. ASSUME NEW t \in Sessions, t \notin raced' \cup failed' PROVE Sound(t)'
  <2>1. Sound(t) /\ Cached(t)' = Cached(t)
    BY <1>1, <1>3 DEF IInv, Cached
  <2>2. \A q \in Calls : At(q, t)' <=> At(q, t)
    BY <1>1 DEF At
  <2>3. CopiesRight(t)' /\ IdKeyFollows(t)'
    BY <1>1, <2>1, <2>2 DEF Sound, CopiesRight, IdKeyFollows
  <2>4. Withdrawn(t)' /\ Lapsed(t)'
    BY <1>1, <2>1, <2>2 DEF Sound, Withdrawn, Lapsed
  <2>5. ASSUME NEW q \in Calls PROVE HoldsRow(q, t)' /\ Deletes(q, t)'
    <3>1. HoldsRow(q, t) /\ Deletes(q, t)
      BY <2>1 DEF Sound
    <3>2. HoldsRow(q, t)'
      BY <1>1, <2>1, <2>2, <3>1 DEF HoldsRow
    <3>3. Deletes(q, t)'
      BY <1>1, <2>1, <3>1 DEF Deletes
    <3> QED BY <3>2, <3>3
  <2> QED BY <2>3, <2>4, <2>5 DEF Sound
<1> QED BY <1>2, <1>3 DEF IInv

-----------------------------------------------------------------------------
\* A command or statement fails

\* Nothing is claimed any more of the session; a revocation of all sessions has
\* dealt with the others as before.
LEMMA StepFailsKeeps ==
    ASSUME IInv, NEW r \in Calls, StepFails(r)
    PROVE  IInv'
<1>1. /\ call[r].s \in Failing /\ failed' = failed \cup {call[r].s}
      /\ db' = db /\ access' = access /\ idKey' = idKey /\ raced' = raced /\ deleted' = deleted
      /\ call[r].s \in Sessions /\ Shape(call[r])
  BY SessionAssumption DEF StepFails, IInv, CallsOK
<1>2. PICK c : /\ call' = [call EXCEPT ![r] = c] /\ Shape(c) /\ c.op \in {None, call[r].op}
               /\ c.op = None \/ c.s = call[r].s
               /\ c.op # None => c.todo = call[r].todo
               /\ c.op = "revokeAll" => c.pc # "deleteAccess"
  <2>1. CASE call[r].pc \in Reported /\ Return(r)
    BY <2>1, ReturnedShape DEF Return, None
  <2>2. ASSUME NEW p \in {"revokeId", "revokeRow", "oldAccess", "oldId", "deleteAccess", "deleteId"},
               call[r].pc = p, Goto(r, Ignored[p])
        PROVE  /\ call' = [call EXCEPT ![r] = [call[r] EXCEPT !.pc = Ignored[p]]]
               /\ Shape([call[r] EXCEPT !.pc = Ignored[p]])
               /\ [call[r] EXCEPT !.pc = Ignored[p]].op = call[r].op
               /\ [call[r] EXCEPT !.pc = Ignored[p]].s = call[r].s
               /\ [call[r] EXCEPT !.pc = Ignored[p]].todo = call[r].todo
               /\ [call[r] EXCEPT !.pc = Ignored[p]].pc # "deleteAccess"
    <3>1. call' = [call EXCEPT ![r] = [call[r] EXCEPT !.pc = Ignored[p]]]
      BY <2>2 DEF Goto, IInv, TypeOK
    <3>2. Ignored[p] = CASE p = "revokeId" -> "revokeRow"
                         [] p = "revokeRow" -> "revokeAccess"
                         [] p = "oldAccess" -> "oldId"
                         [] p = "oldId" -> "updateRow"
                         [] p = "deleteAccess" -> "deleteId"
                         [] OTHER -> "deleteKeys"
      BY DEF Ignored
    <3>3. call[r] \in Call
      BY <1>1 DEF Shape
    <3>4. Shape([call[r] EXCEPT !.pc = Ignored[p]])
      BY <1>1, <2>2, <3>2, <3>3 DEF Shape, Call, Sole, None
    <3> QED BY <3>1, <3>2, <3>3, <3>4 DEF Call
  <2>3. CASE call[r].pc \in DOMAIN Ignored /\ Goto(r, Ignored[call[r].pc])
    <3>1. call[r].pc \in {"revokeId", "revokeRow", "oldAccess", "oldId", "deleteAccess", "deleteId"}
      BY <2>3 DEF Ignored
    <3> QED BY <2>2, <2>3, <3>1
  <2> QED BY <2>1, <2>3 DEF StepFails
<1>3. /\ CallsOK' /\ DOMAIN call' = Calls /\ call'[r] = c
      /\ \A q \in Calls \ {r} : call'[q] = call[q]
  BY <1>2, CallGoesOn DEF IInv
<1>4. TypeOK'
  BY <1>1, <1>3 DEF IInv, TypeOK
<1>5. ASSUME NEW t \in Sessions, t \notin raced' \cup failed' PROVE Sound(t)'
  <2>1. Sound(t) /\ t # call[r].s
    BY <1>1, <1>5 DEF IInv
  <2>2. ~At(r, t) /\ ~At(r, t)' /\ Cached(t)' = Cached(t)
    BY <1>1, <1>2, <1>3, <2>1 DEF At, Cached
  <2>3. Deletes(r, t)'
    <3>1. CASE c.op # "revokeAll"
      BY <1>3, <3>1 DEF Deletes
    <3>2. CASE c.op = "revokeAll"
      <4>1. call[r].op = "revokeAll" /\ c.s = call[r].s /\ c.todo = call[r].todo
            /\ c.pc # "deleteAccess"
        BY <1>2, <3>2 DEF None
      <4>2. t \in call[r].todo \/ t \in deleted \/ Cached(t) = {}
        BY <2>1, <4>1 DEF Sound, Deletes
      <4> QED BY <1>1, <1>3, <2>1, <2>2, <4>1, <4>2 DEF Deletes
    <3> QED BY <3>1, <3>2
  <2> QED BY <1>1, <1>3, <2>1, <2>2, <2>3, Elsewhere
<1> QED BY <1>3, <1>4, <1>5 DEF IInv

-----------------------------------------------------------------------------
\* Time

LEMMA ExpireAccessKeeps ==
    ASSUME IInv, NEW s \in Sessions, NEW g \in Gens, ExpireAccess(s, g)
    PROVE  IInv'
<1>1. /\ access' = [access EXCEPT ![<<s, g>>] = None]
      /\ db' = db /\ idKey' = idKey /\ call' = call /\ raced' = raced /\ failed' = failed /\ deleted' = deleted
  BY DEF ExpireAccess
<1>2. \A t \in Sessions, h \in Gens : access'[<<t, h>>] \in {None, access[<<t, h>>]}
  BY <1>1 DEF IInv, TypeOK
<1>3. TypeOK' /\ CallsOK'
  BY <1>1 DEF IInv, TypeOK, CallsOK, RunAlone
<1>4. ASSUME NEW t \in Sessions, t \notin raced' \cup failed' PROVE Sound(t)'
  <2>1. Sound(t)
    BY <1>1, <1>4 DEF IInv
  <2>2. \A h \in Cached(t)' : h \in Cached(t) /\ access'[<<t, h>>] = access[<<t, h>>]
    BY <1>2 DEF Cached
  <2>3. \A q \in Calls : At(q, t)' <=> At(q, t)
    BY <1>1 DEF At
  <2>4. CopiesRight(t)'
    BY <1>1, <2>1, <2>2, <2>3 DEF Sound, CopiesRight
  <2>5. IdKeyFollows(t)'
    BY <1>1, <2>1, <2>2, <2>3 DEF Sound, IdKeyFollows
  <2>6. Withdrawn(t)' /\ Lapsed(t)'
    BY <1>1, <2>1, <2>2, <2>3 DEF Sound, Withdrawn, Lapsed
  <2>7. ASSUME NEW q \in Calls PROVE HoldsRow(q, t)' /\ Deletes(q, t)'
    <3>1. HoldsRow(q, t) /\ Deletes(q, t)
      BY <2>1 DEF Sound
    <3>2. HoldsRow(q, t)'
      BY <1>1, <2>2, <2>3, <3>1 DEF HoldsRow
    <3>3. Deletes(q, t)'
      BY <1>1, <2>2, <3>1 DEF Deletes
    <3> QED BY <3>2, <3>3
  <2> QED BY <2>4, <2>5, <2>6, <2>7 DEF Sound
<1> QED BY <1>3, <1>4 DEF IInv

\* The id key outlives the access key it leads to.
LEMMA ExpireIdKeeps ==
    ASSUME IInv, NEW s \in Sessions, ExpireId(s)
    PROVE  IInv'
<1>1. /\ idKey' = [idKey EXCEPT ![s] = 0] /\ (access[<<s, idKey[s]>>] = None \/ s \in failed)
      /\ db' = db /\ access' = access /\ call' = call /\ raced' = raced /\ failed' = failed /\ deleted' = deleted
  BY DEF ExpireId
<1>2. \A t \in Sessions : idKey'[t] = IF t = s THEN 0 ELSE idKey[t]
  BY <1>1 DEF IInv, TypeOK
<1>3. TypeOK' /\ CallsOK'
  BY <1>1, SessionAssumption DEF IInv, TypeOK, CallsOK, RunAlone
<1>4. ASSUME NEW t \in Sessions, t \notin raced' \cup failed' PROVE Sound(t)'
  <2>1. Sound(t) /\ Cached(t)' = Cached(t)
    BY <1>1, <1>4 DEF IInv, Cached
  <2>2. \A q \in Calls : At(q, t)' <=> At(q, t)
    BY <1>1 DEF At
  <2>3. \A h \in Cached(t) : idKey[t] = h => idKey'[t] = h
    BY <1>1, <1>2, <1>4 DEF Cached
  <2>4. CopiesRight(t)' /\ Withdrawn(t)' /\ Lapsed(t)'
    BY <1>1, <2>1, <2>2 DEF Sound, CopiesRight, Withdrawn, Lapsed
  <2>5. IdKeyFollows(t)'
    BY <1>1, <2>1, <2>2, <2>3 DEF Sound, IdKeyFollows
  <2>6. ASSUME NEW q \in Calls PROVE HoldsRow(q, t)' /\ Deletes(q, t)'
    BY <1>1, <2>1, <2>2 DEF Sound, HoldsRow, Deletes
  <2> QED BY <2>4, <2>5, <2>6 DEF Sound
<1> QED BY <1>3, <1>4 DEF IInv

\* A row expires when no request is at work on it; a key left cached means a write failed.
LEMMA ExpireRowKeeps ==
    ASSUME IInv, NEW s \in Sessions, ExpireRow(s)
    PROVE  IInv'
<1>1. /\ db' = [db EXCEPT ![s].expired = TRUE] /\ (Cached(s) = {} \/ s \in failed)
      /\ \A r \in Calls : call[r].s # s
      /\ idKey' = idKey /\ access' = access /\ call' = call /\ raced' = raced /\ failed' = failed /\ deleted' = deleted
  BY DEF ExpireRow
<1>2. /\ db' \in Rows
      /\ \A t \in Sessions : /\ db'[t].st = db[t].st /\ db'[t].gen = db[t].gen
                             /\ db'[t].user = db[t].user
                             /\ t # s => db'[t].expired = db[t].expired
  BY <1>1, UpdateExpired
<1>3. TypeOK' /\ CallsOK'
  BY <1>1, <1>2 DEF IInv, TypeOK, CallsOK, RunAlone, Rows
<1>4. ASSUME NEW t \in Sessions, t \notin raced' \cup failed' PROVE Sound(t)'
  <2>1. Sound(t) /\ Cached(t)' = Cached(t)
    BY <1>1, <1>4 DEF IInv, Cached
  <2>2. \A q \in Calls : At(q, t)' <=> At(q, t)
    BY <1>1 DEF At
  <2>3. CopiesRight(t)' /\ IdKeyFollows(t)'
    BY <1>1, <1>2, <2>1, <2>2 DEF Sound, CopiesRight, IdKeyFollows
  <2>4. Withdrawn(t)'
    BY <1>1, <1>2, <2>1, <2>2 DEF Sound, Withdrawn
  <2>5. Lapsed(t)'
    <3>1. CASE t = s
      <4>1. \A q \in Calls : ~At(q, s)
        BY <1>1 DEF At
      <4> QED BY <1>1, <1>4, <2>1, <2>2, <3>1, <4>1 DEF Lapsed
    <3>2. CASE t # s
      BY <1>1, <1>2, <2>1, <2>2, <3>2 DEF Sound, Lapsed
    <3> QED BY <3>1, <3>2
  <2>6. ASSUME NEW q \in Calls PROVE HoldsRow(q, t)' /\ Deletes(q, t)'
    <3>1. HoldsRow(q, t) /\ Deletes(q, t)
      BY <2>1 DEF Sound
    <3>2. HoldsRow(q, t)'
      BY <1>1, <1>2, <2>1, <2>2, <3>1 DEF HoldsRow
    <3>3. Deletes(q, t)'
      BY <1>1, <2>1, <3>1 DEF Deletes
    <3> QED BY <3>2, <3>3
  <2> QED BY <2>3, <2>4, <2>5, <2>6 DEF Sound
<1> QED BY <1>3, <1>4 DEF IInv

-----------------------------------------------------------------------------
\* RevokeAll: no request is at work on a session

Mirrors(s) ==
    /\ \A h \in Cached(s) : /\ db[s].st \notin {"none", "revoked"} /\ h = db[s].gen
                            /\ access[<<s, h>>] = db[s].user /\ idKey[s] = h
    /\ db[s].expired => Cached(s) = {}

\* Then the keys mirror the row.
LEMMA MirrorsAlone ==
    ASSUME NEW s \in Sessions, \A q \in Calls : ~At(q, s), Sound(s)
    PROVE  Mirrors(s) /\ \A q \in Calls : Deletes(q, s)
BY DEF Sound, Mirrors, CopiesRight, IdKeyFollows, Withdrawn, Lapsed

\* A step of the revocation, by what it leaves of each session.
LEMMA RevokeAllStep ==
    ASSUME IInv, TypeOK', CallsOK', NEW r \in Calls,
           \A q \in Calls \ {r} : call[q].op = None, \A q \in Calls \ {r} : call'[q] = call[q],
           call[r].op \in {None, "revokeAll"}, call'[r].op \in {None, "revokeAll"},
           raced' = raced, failed' = failed,
           \A t \in Sessions : Mirrors(t) /\ Deletes(r, t) => Mirrors(t)' /\ Deletes(r, t)'
    PROVE  IInv'
<1> SUFFICES ASSUME NEW t \in Sessions, t \notin raced' \cup failed' PROVE Sound(t)'
  BY DEF IInv
<1>1. \A q \in Calls : ~At(q, t) /\ ~At(q, t)'
  BY DEF At
<1>2. Mirrors(t) /\ Deletes(r, t)
  BY <1>1, MirrorsAlone DEF IInv
<1>3. Mirrors(t)' /\ Deletes(r, t)'
  BY <1>2
<1>4. ASSUME NEW q \in Calls PROVE Deletes(q, t)'
  BY <1>3 DEF Deletes, None
<1>5. CopiesRight(t)' /\ IdKeyFollows(t)' /\ Withdrawn(t)' /\ Lapsed(t)'
  BY <1>1, <1>3 DEF Mirrors, CopiesRight, IdKeyFollows, Withdrawn, Lapsed
<1>6. \A q \in Calls : HoldsRow(q, t)'
  BY <1>1 DEF HoldsRow
<1> QED BY <1>4, <1>5, <1>6 DEF Sound

\* A revocation in progress is the only request.
LEMMA RevokesAlone ==
    ASSUME IInv, NEW r \in Calls, call[r].pc \in {"deleteKeys", "deleteAccess", "deleteId"}
    PROVE  /\ Shape(call[r]) /\ call[r].op = "revokeAll"
           /\ \A q \in Calls \ {r} : call[q].op = None
<1>1. Shape(call[r]) /\ RunAlone
  BY DEF IInv, CallsOK
<1>2. call[r].op = "revokeAll"
  BY <1>1 DEF Shape, Call, Sole
<1> QED BY <1>1, <1>2 DEF RunAlone, Sole

\* The logout of every session starts alone, with the sessions it found.
LEMMA RevokeAllFindKeeps ==
    ASSUME IInv, NEW r \in Calls, RevokeAllFind(r)
    PROVE  IInv'
<1> DEFINE c == [Returned EXCEPT !.op = "revokeAll", !.pc = "deleteKeys",
                   !.todo = {s \in Sessions \ deleted : db[s].st = "active" /\ ~db[s].expired}]
<1>1. /\ call' = [call EXCEPT ![r] = c] /\ StartsAlone("revokeAll")
      /\ UNCHANGED <<db, access, idKey, raced, failed, deleted>>
  BY DEF RevokeAllFind
<1>2. /\ c.op = "revokeAll" /\ c.pc = "deleteKeys"
      /\ c.todo = {s \in Sessions \ deleted : db[s].st = "active" /\ ~db[s].expired}
  BY DEF Returned
<1>3. Shape(c)
  <2>1. c.todo \in SUBSET (Sessions \cup Gens)
    BY <1>2
  <2>2. c \in Call
    BY <2>1, ReturnedShape DEF Shape, Call, Returned, Sole
  <2> QED BY <1>2, <2>2 DEF Shape, None
<1> HIDE DEF c
<1>4. /\ CallsOK' /\ DOMAIN call' = Calls /\ call'[r] = c /\ call[r].op = None
      /\ \A q \in Calls \ {r} : call'[q] = call[q]
      /\ \A q \in Calls : call[q].op = None
  <2>1. c.op \in Sole /\ c.op # None
    BY <1>2 DEF Sole, None
  <2> QED BY <1>1, <1>2, <1>3, <2>1, CallStarts DEF IInv
<1>5. TypeOK'
  BY <1>1, <1>4 DEF IInv, TypeOK
<1>6. ASSUME NEW t \in Sessions, Mirrors(t) PROVE Mirrors(t)' /\ Deletes(r, t)'
  <2>1. Mirrors(t)' /\ Cached(t)' = Cached(t)
    BY <1>1, <1>6 DEF Mirrors, Cached
  <2>2. t \in c.todo \/ t \in deleted' \/ Cached(t) = {}
    <3>1. db[t].st \in {"none", "active", "revoked"}
      BY DEF IInv, TypeOK
    <3> QED BY <1>1, <1>2, <1>6, <3>1 DEF Mirrors
  <2> QED BY <1>2, <1>4, <2>1, <2>2 DEF Deletes
<1> QED BY <1>1, <1>2, <1>4, <1>5, <1>6, RevokeAllStep

\* The id key leads to the one key there is, or there is none.
LEMMA DeleteBySessionIDKeeps ==
    ASSUME IInv, NEW r \in Calls, DeleteBySessionID(r)
    PROVE  IInv'
<1>1. call[r].pc = "deleteKeys" /\ UNCHANGED <<db, access, idKey, raced, failed, deleted>>
  BY DEF DeleteBySessionID
<1>2. /\ Shape(call[r]) /\ call[r].op = "revokeAll"
      /\ \A q \in Calls \ {r} : call[q].op = None
  BY <1>1, RevokesAlone
<1>3. PICK s \in Sessions :
         /\ s \in call[r].todo
         /\ call' = [call EXCEPT ![r].pc = IF idKey[s] = 0 THEN "deleteId" ELSE "deleteAccess",
                                 ![r].s = s, ![r].g = idKey[s], ![r].todo = @ \ {s}]
  BY <1>2 DEF DeleteBySessionID, Shape
<1> DEFINE pc == IF idKey[s] = 0 THEN "deleteId" ELSE "deleteAccess"
           c == [call[r] EXCEPT !.pc = pc, !.s = s, !.g = idKey[s], !.todo = call[r].todo \ {s}]
<1>4. call[r] \in Call /\ idKey[s] \in 0..MaxGen
  BY <1>2 DEF Shape, IInv, TypeOK
<1>5. call' = [call EXCEPT ![r] = c]
  BY <1>3, <1>4 DEF IInv, TypeOK, Call
<1>6. /\ c.op = "revokeAll" /\ c.s = s /\ c.g = idKey[s] /\ c.todo = call[r].todo \ {s}
      /\ idKey[s] = 0 => c.pc = "deleteId"
      /\ idKey[s] # 0 => c.pc = "deleteAccess" /\ idKey[s] \in Gens
  BY <1>2, <1>4, SessionAssumption DEF Call, Gens
<1>7. Shape(c)
  <2>1. c \in Call
    BY <1>4 DEF Call
  <2> HIDE DEF c, pc
  <2> QED BY <1>2, <1>6, <2>1 DEF Shape, None
<1> HIDE DEF c, pc
<1>8. /\ CallsOK' /\ DOMAIN call' = Calls /\ call'[r] = c
      /\ \A q \in Calls \ {r} : call'[q] = call[q]
  BY <1>2, <1>5, <1>6, <1>7, CallGoesOn DEF IInv
<1>9. TypeOK'
  BY <1>1, <1>8 DEF IInv, TypeOK
<1>10. ASSUME NEW t \in Sessions, Mirrors(t), Deletes(r, t) PROVE Mirrors(t)' /\ Deletes(r, t)'
  <2>1. Mirrors(t)' /\ Cached(t)' = Cached(t)
    BY <1>1, <1>10 DEF Mirrors, Cached
  <2>2. CASE t = s
    <3>1. Cached(t) \subseteq {idKey[t]} /\ (idKey[t] = 0 => Cached(t) = {})
      BY <1>10 DEF Mirrors, Cached, Gens
    <3> QED BY <1>6, <1>8, <2>1, <2>2, <3>1 DEF Deletes
  <2>3. CASE t # s
    BY <1>1, <1>2, <1>6, <1>8, <1>10, <2>1, <2>3 DEF Deletes
  <2> QED BY <2>2, <2>3
<1> QED BY <1>1, <1>2, <1>6, <1>8, <1>9, <1>10, RevokeAllStep

\* It deletes the access key of the generation it read.
LEMMA DeleteAccessKeeps ==
    ASSUME IInv, NEW r \in Calls, DeleteAccess(r)
    PROVE  IInv'
<1>1. /\ call[r].pc = "deleteAccess" /\ Goto(r, "deleteId")
      /\ access' = [access EXCEPT ![<<call[r].s, call[r].g>>] = None]
      /\ db' = db /\ idKey' = idKey /\ raced' = raced /\ failed' = failed /\ deleted' = deleted
  BY DEF DeleteAccess
<1>2. /\ Shape(call[r]) /\ call[r].op = "revokeAll"
      /\ \A q \in Calls \ {r} : call[q].op = None
  BY <1>1, RevokesAlone
<1>3. PICK s \in Sessions, g \in Gens : call[r].s = s /\ call[r].g = g
  BY <1>1, <1>2 DEF Shape
<1>4. Shape([call[r] EXCEPT !.pc = "deleteId"]) /\ call[r].op # None
  BY <1>1, <1>2 DEF Shape, Call, Sole, None
<1>5. /\ CallsOK' /\ DOMAIN call' = Calls
      /\ \A q \in Calls \ {r} : call'[q] = call[q]
      /\ call'[r].pc = "deleteId" /\ call'[r].op = call[r].op /\ call'[r].s = call[r].s
      /\ call'[r].todo = call[r].todo
  BY <1>1, <1>4, GotoGoesOn DEF IInv
<1>6. /\ access'[<<s, g>>] = None
      /\ \A t \in Sessions, h \in Gens : <<t, h>> # <<s, g>> => access'[<<t, h>>] = access[<<t, h>>]
  BY <1>1, <1>3 DEF IInv, TypeOK
<1>7. TypeOK'
  BY <1>1, <1>3, <1>5 DEF IInv, TypeOK
<1>8. ASSUME NEW t \in Sessions, Mirrors(t), Deletes(r, t) PROVE Mirrors(t)' /\ Deletes(r, t)'
  <2>1. \A h \in Cached(t)' : h \in Cached(t) /\ access'[<<t, h>>] = access[<<t, h>>]
    BY <1>6 DEF Cached, None
  <2>2. Mirrors(t)'
    BY <1>1, <1>8, <2>1 DEF Mirrors
  <2>3. CASE t = s
    <3>1. Cached(t) \subseteq {g}
      BY <1>1, <1>2, <1>3, <1>8, <2>3 DEF Deletes
    <3>2. Cached(t)' = {}
      BY <1>6, <2>1, <2>3, <3>1 DEF Cached
    <3> QED BY <2>2, <3>2 DEF Deletes
  <2>4. CASE t # s
    BY <1>1, <1>2, <1>3, <1>5, <1>8, <2>1, <2>2, <2>4 DEF Deletes
  <2> QED BY <2>3, <2>4
<1> QED BY <1>1, <1>2, <1>5, <1>7, <1>8, RevokeAllStep

\* It deletes the id key.
LEMMA DeleteIdKeeps ==
    ASSUME IInv, NEW r \in Calls, DeleteId(r)
    PROVE  IInv'
<1>1. /\ call[r].pc = "deleteId" /\ Goto(r, "deleteKeys")
      /\ idKey' = [idKey EXCEPT ![call[r].s] = 0]
      /\ db' = db /\ access' = access /\ raced' = raced /\ failed' = failed /\ deleted' = deleted
  BY DEF DeleteId
<1>2. /\ Shape(call[r]) /\ call[r].op = "revokeAll"
      /\ \A q \in Calls \ {r} : call[q].op = None
  BY <1>1, RevokesAlone
<1>3. PICK s \in Sessions : call[r].s = s
  BY <1>1, <1>2 DEF Shape
<1>4. Shape([call[r] EXCEPT !.pc = "deleteKeys"]) /\ call[r].op # None
  BY <1>1, <1>2 DEF Shape, Call, Sole, None
<1>5. /\ CallsOK' /\ DOMAIN call' = Calls
      /\ \A q \in Calls \ {r} : call'[q] = call[q]
      /\ call'[r].pc = "deleteKeys" /\ call'[r].op = call[r].op /\ call'[r].s = call[r].s
      /\ call'[r].todo = call[r].todo
  BY <1>1, <1>4, GotoGoesOn DEF IInv
<1>6. \A t \in Sessions \ {s} : idKey'[t] = idKey[t]
  BY <1>1, <1>3 DEF IInv, TypeOK
<1>7. TypeOK'
  BY <1>1, <1>3, <1>5, SessionAssumption DEF IInv, TypeOK
<1>8. ASSUME NEW t \in Sessions, Mirrors(t), Deletes(r, t) PROVE Mirrors(t)' /\ Deletes(r, t)'
  <2>1. Cached(t)' = Cached(t) /\ (t = s => Cached(t) = {})
    BY <1>1, <1>2, <1>3, <1>8 DEF Deletes, Cached
  <2>2. Mirrors(t)'
    BY <1>1, <1>6, <1>8, <2>1 DEF Mirrors
  <2>3. Deletes(r, t)'
    BY <1>1, <1>2, <1>5, <1>8, <2>1 DEF Deletes
  <2> QED BY <2>2, <2>3
<1> QED BY <1>1, <1>2, <1>5, <1>7, <1>8, RevokeAllStep

\* The rows are revoked when the keys of all of them are gone.
LEMMA RevokeAllRowsKeeps ==
    ASSUME IInv, NEW r \in Calls, RevokeAllRows(r)
    PROVE  IInv'
<1>1. /\ call[r].pc = "deleteKeys" /\ call[r].todo = {} /\ Return(r)
      /\ db' = [s \in Sessions |->
            IF db[s].st = "active" /\ s \notin deleted THEN [db[s] EXCEPT !.st = "revoked"] ELSE db[s]]
      /\ access' = access /\ idKey' = idKey /\ raced' = raced /\ failed' = failed /\ deleted' = deleted
  BY DEF RevokeAllRows
<1>2. /\ call[r].op = "revokeAll"
      /\ \A q \in Calls \ {r} : call[q].op = None
  BY <1>1, RevokesAlone
<1>3. /\ CallsOK' /\ DOMAIN call' = Calls /\ call'[r] = Returned
      /\ \A q \in Calls \ {r} : call'[q] = call[q]
  BY <1>1, ReturnGoesOn DEF IInv
<1>4. TypeOK'
  <2>1. db' \in Rows
    <3>1. db \in Rows
      BY DEF IInv, TypeOK, Rows
    <3>2. \A s \in Sessions : [db[s] EXCEPT !.st = "revoked"] \in
              [st : {"none", "active", "revoked"}, gen : 0..MaxGen, user : Users \cup {None}, expired : BOOLEAN]
      BY <3>1 DEF Rows
    <3> QED BY <1>1, <3>1, <3>2 DEF Rows
  <2> QED BY <1>1, <1>3, <2>1 DEF IInv, TypeOK, Rows
<1>5. ASSUME NEW t \in Sessions, Mirrors(t), Deletes(r, t) PROVE Mirrors(t)' /\ Deletes(r, t)'
  <2>1. Deletes(r, t)'
    BY <1>3, ReturnedShape DEF Deletes, None
  <2>2. CASE t \in deleted
    <3>1. db'[t] = db[t] /\ Cached(t)' = Cached(t)
      BY <1>1, <2>2 DEF Cached
    <3> QED BY <1>1, <1>5, <2>1, <3>1 DEF Mirrors
  <2>3. CASE t \notin deleted
    <3>1. Cached(t)' = {}
      BY <1>1, <1>2, <1>5, <2>3 DEF Deletes, Cached
    <3> QED BY <2>1, <3>1 DEF Mirrors
  <2> QED BY <2>2, <2>3
<1> QED BY <1>1, <1>2, <1>3, <1>4, <1>5, ReturnedShape, RevokeAllStep

-----------------------------------------------------------------------------
\* The invariant

LEMMA InitIInv == Init => IInv
<1> SUFFICES ASSUME Init PROVE IInv
  OBVIOUS
<1> USE SessionAssumption DEF Init
<1>1. NoRow \in [st : {"none", "active", "revoked"}, gen : 0..MaxGen,
                 user : Users \cup {None}, expired : BOOLEAN]
      /\ NoRow.st = "none" /\ ~NoRow.expired
  BY DEF NoRow
<1>2. TypeOK
  BY <1>1 DEF TypeOK
<1>3. CallsOK
  BY ReturnedShape DEF CallsOK, RunAlone, Sole, None
<1>4. ASSUME NEW s \in Sessions PROVE Sound(s)
  <2>1. \A q \in Calls : call[q].op = None
    BY ReturnedShape
  <2>2. Cached(s) = {} /\ \A q \in Calls : ~At(q, s)
    BY <2>1 DEF Cached, At
  <2>3. \A q \in Calls : Deletes(q, s) /\ HoldsRow(q, s)
    BY <2>1, <2>2 DEF Deletes, HoldsRow, None
  <2> QED BY <2>2, <2>3 DEF Sound, CopiesRight, IdKeyFollows, Withdrawn, Lapsed
<1> QED BY <1>2, <1>3, <1>4 DEF IInv

\* Every step keeps the invariant.
LEMMA NextIInv == IInv /\ [Next]_vars => IInv'
<1> SUFFICES ASSUME IInv, [Next]_vars PROVE IInv'
  OBVIOUS
<1>1. CASE UNCHANGED vars
  <2>1. /\ db' = db /\ access' = access /\ idKey' = idKey /\ call' = call
        /\ raced' = raced /\ failed' = failed /\ deleted' = deleted
    BY <1>1 DEF vars
  <2>2. TypeOK' /\ CallsOK'
    BY <2>1 DEF IInv, TypeOK, CallsOK, RunAlone
  <2>3. ASSUME NEW s \in Sessions \ (raced \cup failed) PROVE Sound(s)'
    <3>1. Sound(s) /\ Cached(s)' = Cached(s) /\ \A q \in Calls : At(q, s)' <=> At(q, s)
      BY <2>1 DEF IInv, Cached, At
    <3>2. CopiesRight(s)' /\ IdKeyFollows(s)' /\ Withdrawn(s)' /\ Lapsed(s)'
      BY <2>1, <3>1 DEF Sound, CopiesRight, IdKeyFollows, Withdrawn, Lapsed
    <3>3. \A q \in Calls : HoldsRow(q, s)' /\ Deletes(q, s)'
      BY <2>1, <3>1 DEF Sound, HoldsRow, Deletes
    <3> QED BY <3>2, <3>3 DEF Sound
  <2> QED BY <2>1, <2>2, <2>3 DEF IInv
<1>2. CASE Expire
  BY <1>2, ExpireIdKeeps, ExpireRowKeeps, ExpireAccessKeeps DEF Expire
<1>3. ASSUME NEW r \in Calls, Start(r) PROVE IInv'
  BY <1>3, FindKeeps, RevokeGetKeeps, SwitchGetKeeps, CreateKeeps, RefreshFindKeeps,
     RevokeAllFindKeeps, DeleteDeviceKeeps DEF Start
<1>4. ASSUME NEW r \in Calls, Continue(r) PROVE IInv'
  BY <1>4, SetAccessKeeps, SetIdKeeps, LoginCommitKeeps, SlideKeeps, RevokeIdKeeps,
     RevokeRowKeeps, RevokeAccessKeeps, DeleteBySessionIDKeeps, DeleteAccessKeeps,
     DeleteIdKeeps, RevokeAllRowsKeeps, RefreshOldAccessKeeps, RefreshOldIdKeeps,
     UpdateRefreshTokenKeeps, UpdateUserIDKeeps, StepFailsKeeps DEF Continue
<1> QED BY <1>1, <1>2, <1>3, <1>4 DEF Next

\* What the session manager's calls rely on holds in every reachable state.
THEOREM Invariance == Spec => []IInv
BY InitIInv, NextIInv, PTL DEF Spec

\* The rows, the Redis keys and the histories keep their types.
THEOREM TypeCorrect == Spec => []TypeOK
<1>1. IInv => TypeOK
  BY DEF IInv
<1> QED BY <1>1, Invariance, PTL

\* Revoke and RevokeAll take a session's token away, whatever other requests do
\* meanwhile, unless one wrote back a copy it held or a delete failed.
THEOREM RevokedForGood == Spec => []RevokedUnlessRaced
<1>1. ASSUME IInv, NEW s \in Sessions \ (raced \cup failed), db[s].st = "revoked",
             ~\E r \in Calls : call[r].s = s /\ call[r].op = "revoke"
      PROVE  Cached(s) = {}
  BY <1>1 DEF IInv, Sound, Withdrawn, At
<1>2. IInv => RevokedUnlessRaced
  BY <1>1 DEF RevokedUnlessRaced
<1> QED BY <1>2, Invariance, PTL

\* Between requests, what setCacheEntries wrote is what the rows say, or would say, had
\* they not gone with their device (device_repo.go:132): then the token stays valid until
\* its own logout.
THEOREM CacheIsRight == Spec => []CacheMirrorsRows
<1>1. ASSUME IInv, Quiet, NEW s \in Sessions \ (raced \cup failed), NEW g \in Cached(s)
      PROVE  /\ db[s].st = "active" /\ g = db[s].gen
             /\ access[<<s, g>>] = db[s].user
             /\ idKey[s] = g
  <2>1. \A q \in Calls : call[q].op = None
    BY <1>1 DEF Quiet, IInv, CallsOK, Shape, Call, Sole
  <2>2. \A q \in Calls : ~At(q, s)
    BY <2>1 DEF At
  <2>3. Mirrors(s)
    BY <1>1, <2>2, MirrorsAlone DEF IInv
  <2>4. db[s].st \in {"none", "active", "revoked"}
    BY <1>1 DEF IInv, TypeOK
  <2> QED BY <2>3, <2>4 DEF Mirrors
<1>2. IInv => CacheMirrorsRows
  BY <1>1 DEF CacheMirrorsRows
<1> QED BY <1>2, Invariance, PTL

-----------------------------------------------------------------------------
\* Http.  A counter may only expire when none of the requests it is for is in
\* the window any more (GlobalKey, AddressKey), each request that is about to
\* increment it counts as one; a token logged out for good is not in the cache and
\* no lookup holds it (LoggedOutStays); and a request keeps what it has shown so
\* far (OnItsWay) until it is answered (Truthful).

\* The members of rate_limit:global, and those of them that were let through
\* within the window that ends now.
GlobalKey ==
    /\ Cardinality(through) <= GlobalLimit
    /\ through \subseteq global.stamps
    /\ \A m \in global.stamps : m <= clock
    /\ \A m \in through : m > clock - GlobalWindow /\ m + GlobalWindow <= global.until

\* The requests of an address let through, and those about to increment its counter.
OfAddress(a) == {p \in ipThrough : p[1] = a}
Incrementing(a) == {c \in Requests : req[c].pc = "ipIncr" /\ req[c].ip = a}

AddressKey(a) ==
    /\ Cardinality(OfAddress(a)) <= Get(ip[a])
    /\ Get(ip[a]) + Cardinality(Incrementing(a)) <= IPLimit + Cardinality(Requests)
    /\ \A p \in OfAddress(a) : /\ p[2] <= clock /\ p[2] > clock - IPWindow
                               /\ p[2] + IPWindow <= ip[a].until

Limited == /\ GlobalKey /\ IsFiniteSet(ipThrough)
           /\ \A a \in IPs : AddressKey(a)

\* Who may still come by a session: a token that was logged out for good is not in the
\* cache, and no lookup holds it.
LoggedOutStays ==
    /\ out \subseteq issued /\ cached \subseteq issued
    /\ out \cap cached \subseteq kept

\* A request that is on its way.
OnItsWay(c) ==
    /\ req[c].pc = "global" => req[c].stamp <= clock
    /\ req[c].pc \in {"global", "ipGet", "ipIncr"} => req[c].ip \in IPs
    /\ req[c].late => req[c].tok \in out
    /\ req[c].pc = "slide" \/ req[c].auth => req[c].tok \in issued
    /\ req[c].pc = "slide" => req[c].tok \notin out \ kept
    /\ req[c].pc = "revoke" => req[c].auth
    /\ req[c].auth /\ req[c].late => req[c].tok \in kept

\* A request that was answered.
Truthful(c) ==
    req[c].pc = "answered" =>
        /\ req[c].success <=> req[c].ran = "ok"
        /\ req[c].need /\ req[c].ran # Nothing => req[c].auth

HttpInv == /\ HttpTypeOK /\ Limited /\ LoggedOutStays
           /\ \A c \in Requests : OnItsWay(c) /\ Truthful(c)

-----------------------------------------------------------------------------
\* The routes

\* The statuses that are no success.
Failure == {400, 401, 403, 404, 405, 409, 413, 429, 500, 502}

\* A route: a success if and only if its use case succeeded.
RouteOK == [does : {"other", "login", "logout"}, auth : BOOLEAN,
            bad : SUBSET Failure, ok : SUBSET Success, err : SUBSET Failure]

\* Every route of the server answers a failure with a status that is no success
\* (the error translators of the handlers).
LEMMA RoutesTyped == RegisterRestRoutes \cup {websocket} \subseteq RouteOK
<1> USE DEF Public, Protected, Route, Success, Failure, RouteOK
<1>1. {healthCheck, Stream, websocket} \subseteq RouteOK
  BY DEF healthCheck, Stream, websocket, OllamaError
<1>2. RegisterAuthRoutes \subseteq RouteOK
  BY DEF RegisterAuthRoutes, register, login, logout, accountGetProfile, verifyEmail,
         AccountError
<1>3. RegisterUserRoutes \subseteq RouteOK
  BY DEF RegisterUserRoutes, userGetProfile, updateProfile, uploadAvatar, searchUsers,
         UserError
<1>4. RegisterDeviceRoutes \subseteq RouteOK
  BY DEF RegisterDeviceRoutes, registerDeviceId, listDevices, getDeviceInfo,
         updateDeviceInfo, bindDevice, deleteDevice, DeviceError
<1>5. RegisterChatRoomRoutes \subseteq RouteOK
  BY DEF RegisterChatRoomRoutes, createRoom, joinRoom, getUserChatRooms, getChatRoomDetail,
         getChatRoomMessages, updateMemberStatus, sendMessage, uploadRoomMedia,
         resolveInvitation, getMyRoomInvitation, respondToInvitation, ChatRoomError
<1>6. RegisterE2EERoutes \subseteq RouteOK
  BY DEF RegisterE2EERoutes, uploadIdentityKey, uploadSignedPreKey, uploadOTPPreKeys,
         countOTPPreKeys, getKeyBundle, uploadSenderKey, getSenderKeys,
         getSenderKeyDistributionStatus, createSenderKeyRequest, E2EEError
<1>7. RegisterFriendshipRoutes \subseteq RouteOK
  BY DEF RegisterFriendshipRoutes, getFriends, applyFriend, acceptFriend, getFriendRequests,
         removeFriend, getSentRequests, cancelSentRequest, blockUser, unblockUser,
         FriendshipError
<1>8. RegisterParticipantRoutes \subseteq RouteOK
  BY DEF RegisterParticipantRoutes, createUserParticipant, getUserParticipant,
         ParticipantError
<1> HIDE DEF RouteOK
<1> QED BY <1>1, <1>2, <1>3, <1>4, <1>5, <1>6, <1>7, <1>8 DEF RegisterRestRoutes

\* Login is public and logout is not.
LEMMA LoginAndLogout ==
    login.auth = FALSE /\ logout.auth = TRUE /\ login \in RouteOK /\ logout \in RouteOK
<1>1. login.auth = FALSE /\ logout.auth = TRUE
  BY DEF login, logout, Route
<1>2. login \in RegisterAuthRoutes /\ logout \in RegisterAuthRoutes
  BY DEF RegisterAuthRoutes
<1> QED BY <1>1, <1>2, RoutesTyped DEF RegisterRestRoutes

\* A failure is no success, nor are the limiter's 429 and the middleware's 401.
LEMMA FailuresFail ==
    /\ Failure \cap Success = {}
    /\ {statusFromCode.RATE_LIMIT_EXCEEDED} \subseteq Failure /\ {401} \subseteq Failure
<1>1. statusFromCode.RATE_LIMIT_EXCEEDED = 429
  BY DEF statusFromCode
<1> QED BY <1>1 DEF Success, Failure

-----------------------------------------------------------------------------
\* How requests move

\* One request changes: it has a type again, and the others are as they were.
LEMMA ReqChanges ==
    ASSUME HttpTypeOK, NEW c \in Requests, NEW rec \in Serving, req' = [req EXCEPT ![c] = rec]
    PROVE  /\ req' \in [Requests -> Serving] /\ req'[c] = rec
           /\ \A d \in Requests \ {c} : req'[d] = req[d]
BY DEF HttpTypeOK

\* Proceed changes the place only.
LEMMA ProceedMoves ==
    ASSUME HttpTypeOK, NEW c \in Requests, NEW pc, Proceed(c, pc),
           pc \in {"ipGet", "ipIncr", "auth", "slide", "route", "revoke"}
    PROVE  /\ req' \in [Requests -> Serving] /\ req'[c].pc = pc
           /\ req'[c].ip = req[c].ip /\ req'[c].stamp = req[c].stamp
           /\ req'[c].tok = req[c].tok /\ req'[c].late = req[c].late
           /\ req'[c].auth = req[c].auth
           /\ \A d \in Requests \ {c} : req'[d] = req[d]
<1> DEFINE rec == [req[c] EXCEPT !.pc = pc]
<1>1. req[c] \in Serving /\ DOMAIN req = Requests
  BY DEF HttpTypeOK
<1>2. rec \in Serving
  BY <1>1 DEF Serving
<1>3. req' = [req EXCEPT ![c] = rec]
  BY <1>1 DEF Proceed
<1>4. /\ rec.pc = pc /\ rec.ip = req[c].ip /\ rec.stamp = req[c].stamp
      /\ rec.tok = req[c].tok /\ rec.late = req[c].late /\ rec.auth = req[c].auth
  BY <1>1 DEF Serving
<1> HIDE DEF rec
<1> QED BY <1>2, <1>3, <1>4, ReqChanges

\* An answer keeps what the request came with, and tells the truth if the statuses do.
LEMMA AnswerMoves ==
    ASSUME HttpTypeOK, NEW c \in Requests, NEW need \in BOOLEAN,
           NEW ran \in {Nothing, "ok", "err"}, NEW statuses, Answer(c, need, ran, statuses),
           ran = "ok" => statuses \subseteq Success,
           ran # "ok" => statuses \subseteq Failure
    PROVE  /\ req' \in [Requests -> Serving] /\ req'[c].pc = "answered"
           /\ req'[c].tok = req[c].tok /\ req'[c].late = req[c].late
           /\ req'[c].auth = req[c].auth
           /\ req'[c].need = need /\ req'[c].ran = ran
           /\ req'[c].success <=> ran = "ok"
           /\ \A d \in Requests \ {c} : req'[d] = req[d]
<1>1. PICK success \in {(status \in Success) : status \in statuses} :
          req' = [req EXCEPT ![c].pc = "answered", ![c].ip = Nothing, ![c].stamp = 0,
                             ![c].need = need, ![c].ran = ran, ![c].success = success]
  BY DEF Answer
<1>2. success \in BOOLEAN /\ (success <=> ran = "ok")
  <2>1. PICK status \in statuses : success = (status \in Success)
    BY <1>1
  <2>2. CASE ran = "ok"
    BY <2>1, <2>2
  <2>3. CASE ran # "ok"
    <3>1. status \notin Success
      BY <2>3, FailuresFail
    <3>2. (status \in Success) = FALSE
      BY <3>1
    <3>3. success = FALSE
      BY <2>1, <3>2, Zenon
    <3> QED BY <2>3, <3>3
  <2> QED BY <2>1, <2>2, <2>3
<1> DEFINE rec == [req[c] EXCEPT !.pc = "answered", !.ip = Nothing, !.stamp = 0,
                                 !.need = need, !.ran = ran, !.success = success]
<1>3. req[c] \in Serving /\ DOMAIN req = Requests
  BY DEF HttpTypeOK
<1>4. rec \in Serving
  BY <1>2, <1>3 DEF Serving
<1>5. req' = [req EXCEPT ![c] = rec]
  BY <1>1, <1>3
<1>6. /\ rec.pc = "answered" /\ rec.tok = req[c].tok /\ rec.late = req[c].late
      /\ rec.auth = req[c].auth /\ rec.need = need /\ rec.ran = ran /\ rec.success = success
  BY <1>3 DEF Serving
<1> HIDE DEF rec
<1> QED BY <1>2, <1>4, <1>5, <1>6, ReqChanges

\* A request moves, and what it does to the histories leaves the others right.
LEMMA OthersStay ==
    ASSUME HttpInv, NEW c \in Requests, \A d \in Requests \ {c} : req'[d] = req[d],
           clock \in Nat, clock' = clock, out \subseteq out', kept \subseteq kept',
           issued \subseteq issued',
           \A d \in Requests \ {c} : req[d].pc = "slide" => req[d].tok \notin out' \ kept',
           OnItsWay(c)', Truthful(c)'
    PROVE  \A d \in Requests : OnItsWay(d)' /\ Truthful(d)'
<1> TAKE d \in Requests
<1>1. CASE d = c
  BY <1>1
<1>2. CASE d # c
  <2>1. req'[d] = req[d] /\ OnItsWay(d) /\ Truthful(d)
    BY <1>2 DEF HttpInv
  <2>2. OnItsWay(d)'
    BY <2>1, <1>2 DEF OnItsWay
  <2>3. Truthful(d)'
    BY <2>1 DEF Truthful
  <2> QED BY <2>2, <2>3
<1> QED BY <1>1, <1>2

\* The counters do not notice a request that is not about to increment one.
LEMMA CountersStay ==
    ASSUME Limited, HttpTypeOK, UNCHANGED <<clock, ip, ipThrough>>,
           \A d \in Requests : req'[d].pc = "ipIncr" =>
               req[d].pc = "ipIncr" /\ req'[d].ip = req[d].ip
    PROVE  IsFiniteSet(ipThrough') /\ \A a \in IPs : AddressKey(a)'
<1>1. IsFiniteSet(ipThrough')
  BY DEF Limited
<1>2. ASSUME NEW a \in IPs PROVE AddressKey(a)'
  <2>1. Incrementing(a)' \subseteq Incrementing(a) /\ IsFiniteSet(Incrementing(a))
    BY HttpAssumption, FS_Subset DEF Incrementing
  <2>2. /\ Cardinality(Incrementing(a)') <= Cardinality(Incrementing(a))
        /\ Cardinality(Incrementing(a)') \in Nat /\ Cardinality(Incrementing(a)) \in Nat
    BY <2>1, FS_Subset, FS_CardinalityType
  <2>3. Get(ip[a])' = Get(ip[a]) /\ OfAddress(a)' = OfAddress(a) /\ ip'[a] = ip[a]
    BY DEF Get, Live, OfAddress
  <2>4. Get(ip[a]) \in Nat /\ Cardinality(Requests) \in Nat /\ IPLimit \in Nat
    BY HttpAssumption, FS_CardinalityType DEF Get, HttpTypeOK
  <2>5. AddressKey(a)
    BY DEF Limited
  <2> QED BY <2>2, <2>3, <2>4, <2>5 DEF AddressKey
<1> QED BY <1>1, <1>2

\* Nor does the window.
LEMMA LimitsStay ==
    ASSUME Limited, HttpTypeOK, UNCHANGED <<clock, limits, through, ipThrough>>,
           \A d \in Requests : req'[d].pc = "ipIncr" =>
               req[d].pc = "ipIncr" /\ req'[d].ip = req[d].ip
    PROVE  Limited'
<1>1. GlobalKey' /\ UNCHANGED <<clock, ip, ipThrough>>
  BY DEF Limited, GlobalKey, limits
<1> QED BY <1>1, CountersStay DEF Limited

-----------------------------------------------------------------------------
\* The rate limits

\* Adding requests to a window, and the time of a new one.
LEMMA WindowGrows ==
    ASSUME HttpTypeOK, GlobalKey, NEW stamp \in Nat, stamp <= clock,
           NEW now, now = IncrementSliding(stamp)
    PROVE  /\ now.stamps \subseteq Nat /\ IsFiniteSet(now.stamps)
           /\ now.until = clock + GlobalWindow /\ now.count = Cardinality(now.stamps)
           /\ \A m \in now.stamps : m <= clock
           /\ through \cup InWindow({stamp}, clock) \subseteq now.stamps
           /\ \A m \in through \cup InWindow({stamp}, clock) :
                 m > clock - GlobalWindow /\ m + GlobalWindow <= clock + GlobalWindow
<1> DEFINE held == IF Live(global) THEN global.stamps ELSE {}
<1>0. clock \in Nat /\ GlobalWindow \in Nat /\ global.stamps \subseteq Nat /\ global.until \in Nat
      /\ through \subseteq Nat
  BY HttpAssumption DEF HttpTypeOK
<1>1. /\ now.stamps = InWindow(held, stamp) \cup {stamp} /\ now.until = clock + GlobalWindow
      /\ now.count = Cardinality(now.stamps)
  BY DEF IncrementSliding
<1>2. now.stamps \subseteq Nat /\ \A m \in now.stamps : m <= clock
  BY <1>0, <1>1 DEF InWindow, GlobalKey
<1>3. IsFiniteSet(now.stamps)
  BY <1>0, <1>2, FS_BoundedSetOfNaturals
<1>4. ASSUME NEW m \in through PROVE m \in now.stamps
  <2>1. m \in global.stamps /\ m > clock - GlobalWindow /\ m + GlobalWindow <= global.until
        /\ m \in Nat
    BY <1>0 DEF GlobalKey
  <2>2. Live(global)
    BY <1>0, <2>1 DEF Live
  <2>3. m > stamp - GlobalWindow
    BY <1>0, <2>1
  <2> QED BY <1>1, <2>1, <2>2, <2>3 DEF InWindow
<1>5. \A m \in through \cup InWindow({stamp}, clock) :
          m > clock - GlobalWindow /\ m <= clock /\ m \in Nat
  BY <1>0 DEF GlobalKey, InWindow
<1>6. InWindow({stamp}, clock) \subseteq now.stamps
  BY <1>1 DEF InWindow
<1>7. \A m \in through \cup InWindow({stamp}, clock) : m + GlobalWindow <= clock + GlobalWindow
  BY <1>0, <1>5
<1> QED BY <1>1, <1>2, <1>3, <1>4, <1>5, <1>6, <1>7

\* A request that CheckGlobal counts, whether it lets it through or not, keeps the window
\* within its limit (rate_limiter.go:27).
LEMMA GlobalStep ==
    ASSUME HttpTypeOK, GlobalKey, NEW stamp \in Nat, stamp <= clock, clock' = clock,
           NEW now, now = IncrementSliding(stamp),
           global' = [stamps |-> now.stamps, until |-> now.until],
           \/ through' = through
           \/ now.count <= GlobalLimit /\ through' = through \cup InWindow({stamp}, clock)
    PROVE  GlobalKey' /\ global' \in [stamps : SUBSET Nat, until : Nat] /\ through' \subseteq Nat
<1>1. /\ now.stamps \subseteq Nat /\ IsFiniteSet(now.stamps)
      /\ now.until = clock + GlobalWindow /\ now.count = Cardinality(now.stamps)
      /\ \A m \in now.stamps : m <= clock
      /\ through \cup InWindow({stamp}, clock) \subseteq now.stamps
      /\ \A m \in through \cup InWindow({stamp}, clock) :
            m > clock - GlobalWindow /\ m + GlobalWindow <= clock + GlobalWindow
  BY WindowGrows
<1>2. now.until \in Nat /\ GlobalLimit \in Nat
  BY <1>1, HttpAssumption DEF HttpTypeOK
<1>3. through' \subseteq through \cup InWindow({stamp}, clock)
  OBVIOUS
<1>4. Cardinality(through') <= GlobalLimit
  <2>1. CASE through' = through
    BY <2>1 DEF GlobalKey
  <2>2. CASE now.count <= GlobalLimit /\ through' = through \cup InWindow({stamp}, clock)
    <3>1. Cardinality(through') <= Cardinality(now.stamps) /\ Cardinality(now.stamps) \in Nat
          /\ Cardinality(through') \in Nat
      BY <1>1, <1>3, FS_Subset, FS_CardinalityType
    <3> QED BY <1>1, <1>2, <2>2, <3>1
  <2> QED BY <2>1, <2>2
<1>5. global'.stamps = now.stamps /\ global'.until = clock + GlobalWindow
  BY <1>1
<1>6. GlobalKey'
  BY <1>1, <1>3, <1>4, <1>5 DEF GlobalKey
<1> QED BY <1>1, <1>2, <1>3, <1>6

\* The requests let through within the window are known to a counter that is alive.
LEMMA CounterLive ==
    ASSUME HttpTypeOK, NEW a \in IPs, AddressKey(a), OfAddress(a) # {}
    PROVE  Live(ip[a]) /\ IPWindow > 0
<1>1. PICK p \in OfAddress(a) : TRUE
  OBVIOUS
<1>2. p[2] \in Nat /\ clock \in Nat /\ IPWindow \in Nat /\ ip[a].until \in Nat
  BY HttpAssumption DEF OfAddress, HttpTypeOK
<1>3. p[2] <= clock /\ p[2] > clock - IPWindow /\ p[2] + IPWindow <= ip[a].until
  BY DEF AddressKey
<1> QED BY <1>2, <1>3 DEF Live

\* A request increments the counter of its address, or a part of that: it gets through, or
\* not, and the limit of the address is kept (rate_limiter.go:57).
LEMMA AddressStep ==
    ASSUME HttpTypeOK, Limited, NEW c \in Requests, NEW addr \in IPs,
           req[c].pc = "ipIncr", req[c].ip = addr, req'[c].pc # "ipIncr",
           \A d \in Requests \ {c} : req'[d] = req[d],
           clock' = clock, NEW k \in [count : Nat, until : Nat], ip' = [ip EXCEPT ![addr] = k],
           Get(k) <= Get(ip[addr]) + 1,
           OfAddress(addr) # {} => /\ Get(k) >= Get(ip[addr])
                                   /\ k.until >= ip[addr].until \/ k.until >= clock + IPWindow,
           NEW new, ipThrough' = ipThrough \cup new,
           new # {} => /\ \E n \in Nat : new = {<<addr, clock, n>>}
                       /\ Get(k) = Get(ip[addr]) + 1
                       /\ IPWindow > 0 /\ k.until >= clock + IPWindow
    PROVE  /\ IsFiniteSet(ipThrough') /\ ipThrough' \subseteq IPs \X Nat \X Nat
           /\ \A a \in IPs : AddressKey(a)'
<1>0. /\ clock \in Nat /\ IPWindow \in Nat /\ IPLimit \in Nat /\ Cardinality(Requests) \in Nat
      /\ \A a \in IPs : ip[a] \in [count : Nat, until : Nat]
  BY HttpAssumption, FS_CardinalityType DEF HttpTypeOK
<1>1. new = {} \/ \E n \in Nat : new = {<<addr, clock, n>>}
  OBVIOUS
<1>2. IsFiniteSet(ipThrough') /\ ipThrough' \subseteq IPs \X Nat \X Nat
  <2>1. IsFiniteSet(ipThrough) /\ ipThrough \subseteq IPs \X Nat \X Nat
    BY DEF Limited, HttpTypeOK
  <2>2. CASE new = {}
    BY <2>1, <2>2
  <2>3. ASSUME NEW n \in Nat, new = {<<addr, clock, n>>}
        PROVE  IsFiniteSet(ipThrough') /\ ipThrough' \subseteq IPs \X Nat \X Nat
    <3> DEFINE e == <<addr, clock, n>>
    <3>1. e \in IPs \X Nat \X Nat
      BY <1>0
    <3>2. ipThrough' = ipThrough \cup {e}
      BY <2>3
    <3> HIDE DEF e
    <3>3. IsFiniteSet(ipThrough')
      BY <2>1, <3>2, FS_AddElement
    <3> QED BY <2>1, <3>1, <3>2, <3>3
  <2> QED BY <1>1, <2>2, <2>3
<1>3. ASSUME NEW a \in IPs \ {addr} PROVE AddressKey(a)'
  <2>1. ip'[a] = ip[a] /\ Get(ip[a])' = Get(ip[a])
    BY DEF HttpTypeOK, Get, Live
  <2>2. OfAddress(a)' = OfAddress(a)
    BY <1>1 DEF OfAddress
  <2>3. Incrementing(a)' = Incrementing(a)
    BY DEF Incrementing
  <2> QED BY <2>1, <2>2, <2>3 DEF Limited, AddressKey
<1>4. AddressKey(addr)'
  <2>1. AddressKey(addr)
    BY DEF Limited
  <2>2. ip'[addr] = k /\ Get(ip[addr])' = Get(k)
    BY DEF HttpTypeOK, Get, Live
  <2>3. OfAddress(addr)' = OfAddress(addr) \cup new
    BY <1>1 DEF OfAddress
  <2>4. IsFiniteSet(OfAddress(addr))
    BY FS_Subset DEF Limited, OfAddress
  <2>5. Get(k) \in Nat /\ Get(ip[addr]) \in Nat /\ Cardinality(OfAddress(addr)) \in Nat
    BY <1>0, <2>4, FS_CardinalityType DEF Get
  <2>6. Cardinality(OfAddress(addr)') <= Get(k)
    <3>1. CASE new # {}
      <4>1. PICK n \in Nat : new = {<<addr, clock, n>>}
        BY <3>1
      <4> DEFINE e == <<addr, clock, n>>
      <4>2. OfAddress(addr)' = OfAddress(addr) \cup {e}
        BY <2>3, <4>1
      <4> HIDE DEF e
      <4>3. Cardinality(OfAddress(addr)') =
                IF e \in OfAddress(addr) THEN Cardinality(OfAddress(addr))
                ELSE Cardinality(OfAddress(addr)) + 1
        <5>1. Cardinality(OfAddress(addr) \cup {e}) =
                IF e \in OfAddress(addr) THEN Cardinality(OfAddress(addr))
                ELSE Cardinality(OfAddress(addr)) + 1
          BY <2>4, FS_AddElement, Zenon
        <5> QED BY <4>2, <5>1, Zenon
      <4> QED BY <2>1, <2>5, <3>1, <4>3 DEF AddressKey
    <3>2. CASE new = {} /\ OfAddress(addr) # {}
      <4>1. OfAddress(addr)' = OfAddress(addr)
        BY <2>3, <3>2
      <4> QED BY <2>1, <2>5, <3>2, <4>1 DEF AddressKey
    <3>3. CASE new = {} /\ OfAddress(addr) = {}
      BY <2>3, <2>5, <3>3, FS_EmptySet
    <3> QED BY <3>1, <3>2, <3>3
  <2>7. Get(k) + Cardinality(Incrementing(addr)') <= IPLimit + Cardinality(Requests)
    <3>1. Incrementing(addr)' = Incrementing(addr) \ {c} /\ c \in Incrementing(addr)
      BY DEF Incrementing
    <3>2. IsFiniteSet(Incrementing(addr))
      BY HttpAssumption, FS_Subset DEF Incrementing
    <3>3. Cardinality(Incrementing(addr)') = Cardinality(Incrementing(addr)) - 1
          /\ Cardinality(Incrementing(addr)) \in Nat
      BY <3>1, <3>2, FS_RemoveElement, FS_CardinalityType
    <3> QED BY <1>0, <2>1, <2>5, <3>3 DEF AddressKey
  <2>8. ASSUME NEW p \in OfAddress(addr)'
        PROVE  p[2] <= clock /\ p[2] > clock - IPWindow /\ p[2] + IPWindow <= k.until
    <3>1. CASE p \in OfAddress(addr)
      <4>1. p[2] \in Nat /\ k.until \in Nat /\ ip[addr].until \in Nat
        BY <1>0, <3>1 DEF OfAddress, HttpTypeOK
      <4> QED BY <1>0, <2>1, <3>1, <4>1 DEF AddressKey
    <3>2. CASE p \in new
      <4>1. p[2] = clock /\ k.until \in Nat
        BY <1>1, <3>2
      <4> QED BY <1>0, <3>2, <4>1
    <3> QED BY <2>3, <3>1, <3>2
  <2> QED BY <2>2, <2>6, <2>7, <2>8 DEF AddressKey
<1> QED BY <1>2, <1>3, <1>4

\* CheckIP lets a request pass that finds its address within the limit: as many at most
\* are about to increment the counter as there are requests (rate_limiter.go:43).
LEMMA AddressPass ==
    ASSUME HttpTypeOK, Limited, NEW c \in Requests, Get(ip[req[c].ip]) <= IPLimit,
           \A d \in Requests \ {c} : req'[d] = req[d], req'[c].ip = req[c].ip,
           UNCHANGED <<clock, limits, through, ipThrough>>
    PROVE  Limited'
<1>1. GlobalKey' /\ IsFiniteSet(ipThrough')
  BY DEF Limited, GlobalKey, limits
<1>2. ASSUME NEW a \in IPs PROVE AddressKey(a)'
  <2>1. AddressKey(a)
    BY DEF Limited
  <2>2. Get(ip[a])' = Get(ip[a]) /\ OfAddress(a)' = OfAddress(a) /\ ip'[a] = ip[a]
    BY DEF Get, Live, OfAddress, limits
  <2>3. Get(ip[a]) \in Nat /\ Cardinality(Requests) \in Nat /\ IPLimit \in Nat
    BY HttpAssumption, FS_CardinalityType DEF Get, HttpTypeOK
  <2>4. Get(ip[a]) + Cardinality(Incrementing(a)') <= IPLimit + Cardinality(Requests)
    <3>1. CASE a = req[c].ip
      <4>1. Incrementing(a)' \subseteq Requests
        BY DEF Incrementing
      <4>2. Cardinality(Incrementing(a)') <= Cardinality(Requests)
            /\ Cardinality(Incrementing(a)') \in Nat
        BY <4>1, HttpAssumption, FS_Subset, FS_CardinalityType
      <4> QED BY <2>3, <3>1, <4>2
    <3>2. CASE a # req[c].ip
      <4>1. Incrementing(a)' = Incrementing(a)
        BY <3>2 DEF Incrementing
      <4> QED BY <2>1, <4>1 DEF AddressKey
    <3> QED BY <3>1, <3>2
  <2> QED BY <2>1, <2>2, <2>4 DEF AddressKey
<1> QED BY <1>1, <1>2 DEF Limited

\* Time passes: windows end later, and a key whose TTL runs out has nobody of the window
\* left (rate_limit_cache_repo.go:27, :56).
LEMMA TickStep == HttpInv /\ Tick => HttpInv'
<1> SUFFICES ASSUME HttpInv, Tick PROVE HttpInv'
  OBVIOUS
<1>0. /\ HttpTypeOK /\ Limited /\ clock \in Nat /\ clock' = clock + 1
      /\ through' = InWindow(through, clock') /\ ipThrough' = InIPWindow(ipThrough, clock')
      /\ UNCHANGED <<limits, sessions, req, received, out, kept>>
      /\ IPWindow \in Nat /\ GlobalWindow \in Nat /\ GlobalLimit \in Nat /\ IPLimit \in Nat
      /\ through \subseteq Nat /\ global.stamps \subseteq Nat
  BY HttpAssumption DEF HttpInv, Tick, HttpTypeOK
<1>1. through' \subseteq through /\ \A m \in through' : m > clock' - GlobalWindow
  BY <1>0 DEF InWindow
<1>2. ipThrough' \subseteq ipThrough /\ \A p \in ipThrough' : p[2] > clock' - IPWindow
  BY <1>0 DEF InIPWindow
<1>3. HttpTypeOK'
  <2>1. clock' \in Nat /\ received' \in Nat
    BY <1>0 DEF HttpTypeOK
  <2>4. through' \subseteq Nat
    BY <1>0, <1>1
  <2>2. ipThrough' \subseteq IPs \X Nat \X Nat
    BY <1>0, <1>2 DEF HttpTypeOK
  <2>3. /\ global' = global /\ ip' = ip /\ cached' = cached /\ issued' = issued
        /\ req' = req /\ out' = out /\ kept' = kept
    BY <1>0 DEF limits, sessions
  <2> QED BY <1>0, <2>1, <2>4, <2>2, <2>3 DEF HttpTypeOK
<1>4. GlobalKey'
  <2>1. GlobalKey
    BY <1>0 DEF Limited
  <2>2. IsFiniteSet(through)
    BY <1>0, <2>1, FS_BoundedSetOfNaturals DEF GlobalKey
  <2>3. Cardinality(through') <= Cardinality(through) /\ Cardinality(through') \in Nat
        /\ Cardinality(through) \in Nat
    BY <1>1, <2>2, FS_Subset, FS_CardinalityType
  <2>4. Cardinality(through') <= GlobalLimit
    BY <1>0, <2>1, <2>3 DEF GlobalKey
  <2>5. \A m \in global'.stamps : m <= clock'
    BY <1>0, <2>1 DEF GlobalKey, limits
  <2> QED BY <1>0, <1>1, <2>1, <2>4, <2>5 DEF GlobalKey, limits
<1>5. IsFiniteSet(ipThrough')
  BY <1>0, <1>2, FS_Subset DEF Limited
<1>6. ASSUME NEW a \in IPs PROVE AddressKey(a)'
  <2>1. AddressKey(a) /\ ip' = ip /\ Incrementing(a)' = Incrementing(a)
    BY <1>0 DEF Limited, limits, Incrementing
  <2>2. ip[a].count \in Nat /\ ip[a].until \in Nat
    BY <1>0 DEF HttpTypeOK
  <2>3. Get(ip[a])' <= Get(ip[a]) /\ Get(ip[a])' \in Nat /\ Get(ip[a]) \in Nat
    BY <1>0, <2>1, <2>2 DEF Get, Live
  <2>4. OfAddress(a)' \subseteq OfAddress(a) /\ IsFiniteSet(OfAddress(a))
    BY <1>0, <1>2, FS_Subset DEF OfAddress, Limited
  <2>5. \A p \in OfAddress(a)' : /\ p[2] \in Nat /\ p[2] <= clock' /\ p[2] > clock' - IPWindow
                                 /\ p[2] + IPWindow <= ip'[a].until
    <3>1. \A p \in OfAddress(a) : p[2] \in Nat
      BY <1>0 DEF HttpTypeOK, OfAddress
    <3>2. \A p \in OfAddress(a)' : p[2] > clock' - IPWindow
      BY <1>2 DEF OfAddress
    <3> QED BY <1>0, <2>1, <2>4, <3>1, <3>2 DEF AddressKey
  <2>6. Cardinality(OfAddress(a)') <= Get(ip[a])'
    <3>1. CASE OfAddress(a)' = {}
      BY <2>3, <3>1, FS_EmptySet
    <3>2. CASE OfAddress(a)' # {}
      <4>1. PICK p \in OfAddress(a)' : TRUE
        BY <3>2
      <4>2. clock' < ip'[a].until
        BY <1>0, <2>1, <2>2, <2>5, <4>1
      <4>3. Get(ip[a])' = Get(ip[a])
        BY <1>0, <2>1, <2>2, <4>2 DEF Get, Live
      <4>4. Cardinality(OfAddress(a)') <= Cardinality(OfAddress(a))
            /\ Cardinality(OfAddress(a)') \in Nat /\ Cardinality(OfAddress(a)) \in Nat
        BY <2>4, FS_Subset, FS_CardinalityType
      <4> QED BY <2>1, <2>3, <4>3, <4>4 DEF AddressKey
    <3> QED BY <3>1, <3>2
  <2>7. Cardinality(Incrementing(a)) \in Nat /\ Cardinality(Requests) \in Nat
    BY HttpAssumption, FS_Subset, FS_CardinalityType DEF Incrementing
  <2>8. Get(ip[a])' + Cardinality(Incrementing(a)') <= IPLimit + Cardinality(Requests)
    BY <1>0, <2>1, <2>3, <2>7 DEF AddressKey
  <2> QED BY <2>5, <2>6, <2>8 DEF AddressKey
<1>7. LoggedOutStays'
  BY <1>0 DEF HttpInv, LoggedOutStays, sessions
<1>8. ASSUME NEW d \in Requests PROVE OnItsWay(d)' /\ Truthful(d)'
  <2>1. OnItsWay(d) /\ Truthful(d) /\ req[d].stamp \in Nat
    BY <1>0 DEF HttpInv, HttpTypeOK, Serving
  <2>2. OnItsWay(d)'
    BY <1>0, <2>1 DEF OnItsWay, sessions
  <2> QED BY <1>0, <2>1, <2>2 DEF Truthful
<1> QED BY <1>3, <1>4, <1>5, <1>6, <1>7, <1>8 DEF HttpInv, Limited

-----------------------------------------------------------------------------
\* The steps of a request

\* A request moves without a command of the rate limiter; the histories only grow.
LEMMA SessionsStep ==
    ASSUME HttpInv, NEW c \in Requests, UNCHANGED <<clock, limits, through, ipThrough>>,
           received' \in Nat, req' \in [Requests -> Serving],
           \A d \in Requests \ {c} : req'[d] = req[d], req'[c].pc # "ipIncr",
           cached' \subseteq Tokens, issued' \subseteq Tokens, out' \subseteq Tokens,
           kept' \subseteq Tokens, issued \subseteq issued', out \subseteq out',
           kept \subseteq kept', LoggedOutStays',
           \A d \in Requests \ {c} : req[d].pc = "slide" => req[d].tok \notin out' \ kept',
           OnItsWay(c)', Truthful(c)'
    PROVE  HttpInv'
<1>1. HttpTypeOK /\ Limited /\ clock \in Nat /\ clock' = clock
  BY DEF HttpInv, HttpTypeOK
<1>2. Limited'
  <2>1. \A d \in Requests : req'[d].pc = "ipIncr" =>
            req[d].pc = "ipIncr" /\ req'[d].ip = req[d].ip
    OBVIOUS
  <2> QED BY <1>1, <2>1, LimitsStay
<1>3. \A d \in Requests : OnItsWay(d)' /\ Truthful(d)'
  BY <1>1, OthersStay
<1>4. HttpTypeOK'
  BY <1>1 DEF HttpTypeOK, limits
<1> QED BY <1>2, <1>3, <1>4 DEF HttpInv

\* A request moves and nothing else changes.
LEMMA PlainStep ==
    ASSUME HttpInv, NEW c \in Requests, UNCHANGED <<clock, limits, sessions, history>>,
           received' \in Nat, req' \in [Requests -> Serving],
           \A d \in Requests \ {c} : req'[d] = req[d], req'[c].pc # "ipIncr",
           OnItsWay(c)', Truthful(c)'
    PROVE  HttpInv'
<1>1. /\ UNCHANGED <<clock, limits, through, ipThrough>>
      /\ cached' = cached /\ issued' = issued /\ out' = out /\ kept' = kept
  BY DEF sessions, history
<1>2. cached \subseteq Tokens /\ issued \subseteq Tokens /\ out \subseteq Tokens /\ kept \subseteq Tokens
  BY DEF HttpInv, HttpTypeOK
<1>3. LoggedOutStays'
  BY <1>1 DEF HttpInv, LoggedOutStays
<1>4. \A d \in Requests \ {c} : req[d].pc = "slide" => req[d].tok \notin out \ kept
  BY DEF HttpInv, OnItsWay
<1> QED BY <1>1, <1>2, <1>3, <1>4, SessionsStep

\* A request arrives (rest.go:19, ws.go:44).
LEMMA ReceiveKeeps ==
    ASSUME HttpInv, NEW c \in Requests, NEW tok \in Tokens,
           Connect(c, tok) \/ \E addr \in IPs : Request(c, addr, tok)
    PROVE  HttpInv'
<1>1. HttpTypeOK /\ clock \in Nat /\ received \in Nat /\ out \subseteq Tokens
  BY DEF HttpInv, HttpTypeOK
<1>2. PICK rec : /\ Receive(c, rec)
                 /\ \/ /\ rec = [Idle EXCEPT !.pc = "auth", !.api = FALSE, !.tok = tok,
                                             !.late = tok \in out]
                    \/ \E addr \in IPs :
                         rec = [Idle EXCEPT !.pc = "global", !.ip = addr, !.stamp = clock,
                                            !.tok = tok, !.late = tok \in out]
  BY DEF Connect, Request
<1>3. rec \in Serving
  <2> DEFINE late == tok \in out
  <2>1. late \in BOOLEAN
    OBVIOUS
  <2> HIDE DEF late
  <2>2. CASE rec = [Idle EXCEPT !.pc = "auth", !.api = FALSE, !.tok = tok, !.late = late]
    BY <2>1, <2>2 DEF Idle, Serving
  <2>3. ASSUME NEW addr \in IPs,
               rec = [Idle EXCEPT !.pc = "global", !.ip = addr, !.stamp = clock,
                                  !.tok = tok, !.late = late]
        PROVE  rec \in Serving
    BY <1>1, <2>1, <2>3 DEF Idle, Serving
  <2> QED BY <1>2, <2>2, <2>3 DEF late
<1>4. /\ rec.pc \in {"auth", "global"} /\ rec.tok = tok /\ rec.late = (tok \in out)
      /\ rec.auth = FALSE
      /\ rec.pc = "global" => rec.stamp = clock /\ rec.ip \in IPs
  BY <1>2 DEF Idle
<1>5. /\ req' = [req EXCEPT ![c] = rec] /\ received' \in Nat
      /\ UNCHANGED <<clock, limits, sessions, history>>
  <2>1. Receive(c, rec)
    BY <1>2
  <2> QED BY <1>1, <2>1 DEF Receive
<1>6. /\ req' \in [Requests -> Serving] /\ req'[c] = rec
      /\ \A d \in Requests \ {c} : req'[d] = req[d]
  BY <1>1, <1>3, <1>5, ReqChanges
<1>7. OnItsWay(c)'
  <2>1. req'[c].late => req'[c].tok \in out'
    BY <1>4, <1>5, <1>6 DEF history
  <2> QED BY <1>1, <1>4, <1>5, <1>6, <2>1 DEF OnItsWay
<1>8. Truthful(c)' /\ req'[c].pc # "ipIncr"
  BY <1>4, <1>6 DEF Truthful
<1> QED BY <1>5, <1>6, <1>7, <1>8, PlainStep

\* A request is over.
LEMMA QuitKeeps == ASSUME HttpInv, NEW c \in Requests, Quit(c) PROVE HttpInv'
<1>1. HttpTypeOK /\ received' \in Nat /\ Idle \in Serving
  BY DEF HttpInv, HttpTypeOK, Quit, Idle, Serving
<1>2. /\ req' = [req EXCEPT ![c] = Idle]
      /\ UNCHANGED <<clock, limits, sessions, history>>
  BY DEF Quit
<1>3. /\ req' \in [Requests -> Serving] /\ req'[c] = Idle
      /\ \A d \in Requests \ {c} : req'[d] = req[d]
  BY <1>1, <1>2, ReqChanges
<1>4. OnItsWay(c)' /\ Truthful(c)' /\ req'[c].pc # "ipIncr"
  BY <1>3 DEF OnItsWay, Truthful, Idle
<1> QED BY <1>1, <1>2, <1>3, <1>4, PlainStep

\* A request is answered where its use case did not run, or on a route it may be on.
LEMMA AnswerStep ==
    ASSUME HttpInv, NEW c \in Requests, NEW need \in BOOLEAN,
           NEW ran \in {Nothing, "ok", "err"}, NEW statuses, Answer(c, need, ran, statuses),
           ran = "ok" => statuses \subseteq Success,
           ran # "ok" => statuses \subseteq Failure,
           need /\ ran # Nothing => req[c].auth,
           out' = out, kept' = kept, issued' = issued, clock' = clock
    PROVE  /\ req' \in [Requests -> Serving] /\ req'[c].pc = "answered"
           /\ \A d \in Requests \ {c} : req'[d] = req[d]
           /\ OnItsWay(c)' /\ Truthful(c)'
<1>1. HttpTypeOK /\ OnItsWay(c)
  BY DEF HttpInv
<1>2. /\ req' \in [Requests -> Serving] /\ req'[c].pc = "answered"
      /\ req'[c].tok = req[c].tok /\ req'[c].late = req[c].late
      /\ req'[c].auth = req[c].auth
      /\ req'[c].need = need /\ req'[c].ran = ran
      /\ req'[c].success <=> ran = "ok"
      /\ \A d \in Requests \ {c} : req'[d] = req[d]
  BY <1>1, AnswerMoves
<1>3. OnItsWay(c)'
  BY <1>1, <1>2 DEF OnItsWay
<1>4. Truthful(c)'
  BY <1>2 DEF Truthful
<1> QED BY <1>2, <1>3, <1>4

\* The middleware and the handlers that only answer (auth.go:94, the handlers).
LEMMA ServeKeeps ==
    ASSUME HttpInv, NEW c \in Requests, NEW r \in RoutesOf(c),
           Unauthorized(c, r) \/ BadInput(c, r) \/ \E ran \in {"ok", "err"} : Serve(c, r, ran)
    PROVE  HttpInv'
<1>1. r \in RouteOK /\ r.auth \in BOOLEAN
  BY RoutesTyped DEF RoutesOf, RouteOK
<1>2. /\ UNCHANGED <<clock, limits, sessions, received, history>>
      /\ out' = out /\ kept' = kept /\ issued' = issued /\ clock' = clock /\ received' \in Nat
  BY DEF Unauthorized, BadInput, Serve, sessions, history, HttpInv, HttpTypeOK
<1>3. \E ran \in {Nothing, "ok", "err"} : \E statuses :
          /\ Answer(c, r.auth, ran, statuses)
          /\ ran = "ok" => statuses \subseteq Success
          /\ ran # "ok" => statuses \subseteq Failure
          /\ r.auth /\ ran # Nothing => req[c].auth
  <2>1. CASE Unauthorized(c, r)
    <3>1. Answer(c, r.auth, Nothing, {401}) /\ {401} \subseteq Failure /\ Nothing # "ok"
      BY <2>1, FailuresFail DEF Unauthorized, Nothing
    <3> QED BY <3>1
  <2>2. CASE BadInput(c, r)
    <3>1. Answer(c, r.auth, Nothing, r.bad) /\ r.bad \subseteq Failure /\ Nothing # "ok"
      BY <1>1, <2>2 DEF BadInput, Nothing, RouteOK
    <3> QED BY <3>1
  <2>3. CASE \E ran \in {"ok", "err"} : Serve(c, r, ran)
    <3>1. PICK ran \in {"ok", "err"} : Serve(c, r, ran)
      BY <2>3
    <3> DEFINE statuses == IF ran = "ok" THEN r.ok ELSE r.err
    <3>2. Answer(c, r.auth, ran, statuses) /\ (r.auth => req[c].auth)
      BY <3>1 DEF Serve, RequireAuth
    <3>3. (ran = "ok" => statuses \subseteq Success) /\ (ran # "ok" => statuses \subseteq Failure)
      BY <1>1 DEF RouteOK
    <3> HIDE DEF statuses
    <3> QED BY <3>1, <3>2, <3>3
  <2> QED BY <2>1, <2>2, <2>3
<1>4. PICK ran \in {Nothing, "ok", "err"} : \E statuses :
          /\ Answer(c, r.auth, ran, statuses)
          /\ ran = "ok" => statuses \subseteq Success
          /\ ran # "ok" => statuses \subseteq Failure
          /\ r.auth /\ ran # Nothing => req[c].auth
  BY <1>3
<1>5. /\ req' \in [Requests -> Serving] /\ req'[c].pc = "answered"
      /\ \A d \in Requests \ {c} : req'[d] = req[d]
      /\ OnItsWay(c)' /\ Truthful(c)'
  BY <1>1, <1>2, <1>4, AnswerStep
<1> QED BY <1>2, <1>5, PlainStep

-----------------------------------------------------------------------------
\* The steps of the rate limiter

\* A request moves by a command of the rate limiter that keeps the limits.
LEMMA LimiterStep ==
    ASSUME HttpInv, NEW c \in Requests, UNCHANGED <<clock, sessions, received, out, kept>>,
           global' \in [stamps : SUBSET Nat, until : Nat],
           ip' \in [IPs -> [count : Nat, until : Nat]],
           through' \subseteq Nat, ipThrough' \subseteq IPs \X Nat \X Nat, Limited',
           req' \in [Requests -> Serving], \A d \in Requests \ {c} : req'[d] = req[d],
           OnItsWay(c)', Truthful(c)'
    PROVE  HttpInv'
<1>1. /\ clock' = clock /\ received' = received /\ out' = out /\ kept' = kept
      /\ cached' = cached /\ issued' = issued /\ HttpTypeOK /\ clock \in Nat
  BY DEF sessions, HttpInv, HttpTypeOK
<1>2. LoggedOutStays'
  BY <1>1 DEF HttpInv, LoggedOutStays
<1>3. \A d \in Requests \ {c} : req[d].pc = "slide" => req[d].tok \notin out' \ kept'
  BY <1>1 DEF HttpInv, OnItsWay
<1>4. \A d \in Requests : OnItsWay(d)' /\ Truthful(d)'
  BY <1>1, <1>3, OthersStay
<1>5. HttpTypeOK'
  BY <1>1 DEF HttpTypeOK
<1> QED BY <1>2, <1>4, <1>5 DEF HttpInv

\* A request the limiter refuses (rate_limit.go:9).
LEMMA Refused ==
    ASSUME HttpInv, NEW c \in Requests,
           Answer(c, FALSE, Nothing, {statusFromCode.RATE_LIMIT_EXCEEDED}),
           UNCHANGED <<clock, sessions, out, kept>>
    PROVE  /\ req' \in [Requests -> Serving] /\ req'[c].pc = "answered"
           /\ \A d \in Requests \ {c} : req'[d] = req[d]
           /\ OnItsWay(c)' /\ Truthful(c)'
<1>1. out' = out /\ kept' = kept /\ issued' = issued /\ clock' = clock
  BY DEF sessions
<1>2. Nothing # "ok" /\ Nothing \in {Nothing, "ok", "err"} /\ FALSE \in BOOLEAN
  BY DEF Nothing
<1>3. {statusFromCode.RATE_LIMIT_EXCEEDED} \subseteq Failure
  BY FailuresFail
<1> QED BY <1>1, <1>2, <1>3, AnswerStep

\* CheckGlobal (rate_limiter.go:27).
LEMMA CheckGlobalKeeps == ASSUME HttpInv, NEW c \in Requests, CheckGlobal(c) PROVE HttpInv'
<1> DEFINE now == IncrementSliding(req[c].stamp)
<1>1. /\ HttpTypeOK /\ Limited /\ GlobalKey /\ req[c].stamp \in Nat /\ req[c].stamp <= clock
      /\ req[c].ip \in IPs /\ OnItsWay(c)
  BY DEF HttpInv, Limited, HttpTypeOK, Serving, CheckGlobal, OnItsWay
<1>2. /\ UNCHANGED <<clock, ip, sessions, received, ipThrough, out, kept>>
      /\ global' = [stamps |-> now.stamps, until |-> now.until]
      /\ \/ /\ Answer(c, FALSE, Nothing, {statusFromCode.RATE_LIMIT_EXCEEDED})
            /\ through' = through
         \/ /\ ~(now.count > GlobalLimit) /\ Proceed(c, "ipGet")
            /\ through' = through \cup InWindow({req[c].stamp}, clock)
  BY DEF CheckGlobal
<1>3. ~(now.count > GlobalLimit) => now.count <= GlobalLimit
  <2>1. IsFiniteSet(now.stamps) /\ now.count = Cardinality(now.stamps)
    BY <1>1, WindowGrows
  <2> HIDE DEF now
  <2>2. now.count \in Nat /\ GlobalLimit \in Nat
    BY <2>1, HttpAssumption, FS_CardinalityType
  <2> QED BY <2>2
<1> HIDE DEF now
<1>4. \/ through' = through
      \/ now.count <= GlobalLimit /\ through' = through \cup InWindow({req[c].stamp}, clock)
  BY <1>2, <1>3, Zenon
<1>5. GlobalKey' /\ global' \in [stamps : SUBSET Nat, until : Nat] /\ through' \subseteq Nat
  BY <1>1, <1>2, <1>4, GlobalStep DEF now
<1>6. /\ req' \in [Requests -> Serving] /\ req'[c].pc # "ipIncr"
      /\ \A d \in Requests \ {c} : req'[d] = req[d]
      /\ OnItsWay(c)' /\ Truthful(c)'
  <2>1. CASE Answer(c, FALSE, Nothing, {statusFromCode.RATE_LIMIT_EXCEEDED})
    <3>1. /\ req' \in [Requests -> Serving] /\ req'[c].pc = "answered"
          /\ \A d \in Requests \ {c} : req'[d] = req[d]
          /\ OnItsWay(c)' /\ Truthful(c)'
      BY <1>2, <2>1, Refused
    <3> QED BY <3>1
  <2>2. CASE Proceed(c, "ipGet")
    <3>1. /\ req' \in [Requests -> Serving] /\ req'[c].pc = "ipGet"
          /\ req'[c].ip = req[c].ip /\ req'[c].stamp = req[c].stamp
          /\ req'[c].tok = req[c].tok /\ req'[c].late = req[c].late
          /\ req'[c].auth = req[c].auth
          /\ \A d \in Requests \ {c} : req'[d] = req[d]
      BY <1>1, <2>2, ProceedMoves
    <3>2. out' = out /\ kept' = kept /\ issued' = issued
      BY <1>2 DEF sessions
    <3> QED BY <1>1, <3>1, <3>2 DEF OnItsWay, Truthful
  <2> QED BY <1>2, <2>1, <2>2
<1>7. IsFiniteSet(ipThrough') /\ \A a \in IPs : AddressKey(a)'
  <2>1. \A d \in Requests : req'[d].pc = "ipIncr" =>
            req[d].pc = "ipIncr" /\ req'[d].ip = req[d].ip
    BY <1>6
  <2> QED BY <1>1, <1>2, <2>1, CountersStay
<1>8. ip' \in [IPs -> [count : Nat, until : Nat]] /\ ipThrough' \subseteq IPs \X Nat \X Nat
  BY <1>1, <1>2 DEF HttpTypeOK
<1> QED BY <1>2, <1>5, <1>6, <1>7, <1>8, LimiterStep DEF Limited

\* CheckIP reads the counter (rate_limiter.go:43).
LEMMA CheckIPKeeps == ASSUME HttpInv, NEW c \in Requests, CheckIP(c) PROVE HttpInv'
<1>1. /\ HttpTypeOK /\ Limited /\ OnItsWay(c) /\ req[c].ip \in IPs
      /\ UNCHANGED <<clock, limits, sessions, received, history>> /\ received' \in Nat
      /\ UNCHANGED <<clock, sessions, out, kept>> /\ UNCHANGED <<clock, limits, through, ipThrough>>
  BY DEF HttpInv, HttpTypeOK, CheckIP, OnItsWay, history
<1>2. CASE Answer(c, FALSE, Nothing, {statusFromCode.RATE_LIMIT_EXCEEDED})
  <2>1. /\ req' \in [Requests -> Serving] /\ req'[c].pc = "answered"
        /\ \A d \in Requests \ {c} : req'[d] = req[d]
        /\ OnItsWay(c)' /\ Truthful(c)'
    BY <1>1, <1>2, Refused
  <2> QED BY <1>1, <2>1, PlainStep
<1>3. CASE ~(Get(ip[req[c].ip]) > IPLimit) /\ Proceed(c, "ipIncr")
  <2>1. /\ req' \in [Requests -> Serving] /\ req'[c].pc = "ipIncr"
        /\ req'[c].ip = req[c].ip /\ req'[c].stamp = req[c].stamp
        /\ req'[c].tok = req[c].tok /\ req'[c].late = req[c].late
        /\ req'[c].auth = req[c].auth
        /\ \A d \in Requests \ {c} : req'[d] = req[d]
    BY <1>1, <1>3, ProceedMoves
  <2>2. Get(ip[req[c].ip]) \in Nat /\ IPLimit \in Nat
    BY <1>1, HttpAssumption DEF Get, HttpTypeOK
  <2>3. Limited'
    BY <1>1, <1>3, <2>1, <2>2, AddressPass
  <2>4. OnItsWay(c)' /\ Truthful(c)'
    BY <1>1, <2>1 DEF OnItsWay, Truthful, sessions
  <2>5. /\ global' \in [stamps : SUBSET Nat, until : Nat]
        /\ ip' \in [IPs -> [count : Nat, until : Nat]]
        /\ through' \subseteq Nat /\ ipThrough' \subseteq IPs \X Nat \X Nat
    BY <1>1 DEF HttpTypeOK, limits
  <2> QED BY <1>1, <2>1, <2>3, <2>4, <2>5, LimiterStep
<1> QED BY <1>2, <1>3 DEF CheckIP

\* What an increment may leave in the counter of an address.
Partly(key) == [count |-> Get(key) + 1, until |-> IF Live(key) THEN key.until ELSE MaxClock + 1]

LEMMA CounterCounts ==
    ASSUME HttpTypeOK, NEW a \in IPs, AddressKey(a),
           NEW k \in {ip[a], Partly(ip[a]), Increment(ip[a])}
    PROVE  /\ k \in [count : Nat, until : Nat] /\ Get(k) <= Get(ip[a]) + 1
           /\ OfAddress(a) # {} => /\ Get(k) >= Get(ip[a])
                                   /\ k.until >= ip[a].until \/ k.until >= clock + IPWindow
           /\ k = Increment(ip[a]) /\ IPWindow > 0 =>
                 Get(k) = Get(ip[a]) + 1 /\ k.until >= clock + IPWindow
<1>1. /\ ip[a] \in [count : Nat, until : Nat] /\ clock \in Nat /\ IPWindow \in Nat
      /\ MaxClock \in Nat
  BY HttpAssumption DEF HttpTypeOK
<1>2. Get(ip[a]) \in Nat
  BY <1>1 DEF Get
<1>3. OfAddress(a) # {} => Live(ip[a]) /\ IPWindow > 0
  BY CounterLive
<1>4. CASE k = ip[a]
  <2>1. k = Increment(ip[a]) /\ IPWindow > 0 => FALSE
    BY <1>1, <1>4 DEF Increment, Get, Live
  <2> QED BY <1>1, <1>2, <1>4, <2>1
<1>5. CASE k = Partly(ip[a])
  <2>1. /\ k.count = Get(ip[a]) + 1
        /\ k.until = IF Live(ip[a]) THEN ip[a].until ELSE MaxClock + 1
        /\ k \in [count : Nat, until : Nat]
    BY <1>1, <1>2, <1>5 DEF Partly
  <2>2. Get(k) <= Get(ip[a]) + 1 /\ (Live(ip[a]) => Get(k) = Get(ip[a]) + 1)
    BY <1>1, <1>2, <2>1 DEF Get, Live
  <2>3. k = Increment(ip[a]) /\ IPWindow > 0 =>
            Get(k) = Get(ip[a]) + 1 /\ k.until >= clock + IPWindow
    BY <1>1, <1>2 DEF Increment, Get, Live
  <2> QED BY <1>1, <1>2, <1>3, <2>1, <2>2, <2>3
<1>6. CASE k = Increment(ip[a])
  <2>1. /\ k.count = Get(ip[a]) + 1 /\ k.until = clock + IPWindow
        /\ k \in [count : Nat, until : Nat]
    BY <1>1, <1>2, <1>6 DEF Increment
  <2>2. Get(k) <= Get(ip[a]) + 1 /\ (IPWindow > 0 => Get(k) = Get(ip[a]) + 1)
    BY <1>1, <1>2, <2>1 DEF Get, Live
  <2> QED BY <1>1, <1>2, <1>3, <2>1, <2>2
<1> QED BY <1>4, <1>5, <1>6

\* CheckIP increments the counter (rate_limiter.go:57).
LEMMA CheckIPIncrementKeeps ==
    ASSUME HttpInv, NEW c \in Requests, CheckIPIncrement(c) PROVE HttpInv'
<1> DEFINE addr == req[c].ip
           k == Increment(ip[addr])
           new == InIPWindow({<<addr, clock, Cardinality(ipThrough)>>}, clock)
           rec == [req[c] EXCEPT !.pc = "auth", !.ip = Nothing, !.stamp = 0]
<1>1. /\ HttpTypeOK /\ Limited /\ OnItsWay(c) /\ req[c] \in Serving /\ DOMAIN req = Requests
      /\ req[c].pc = "ipIncr" /\ addr \in IPs
  BY DEF HttpInv, HttpTypeOK, CheckIPIncrement, OnItsWay
<1>2. /\ ip' = [ip EXCEPT ![addr] = k] /\ ipThrough' = ipThrough \cup new
      /\ UNCHANGED <<clock, global, sessions, received, through, out, kept>>
  BY DEF CheckIPIncrement
<1>3. req' = [req EXCEPT ![c] = rec]
  BY <1>1 DEF CheckIPIncrement
<1>4. rec \in Serving
  BY <1>1 DEF Serving
<1>5. /\ rec.pc = "auth" /\ rec.tok = req[c].tok /\ rec.late = req[c].late
      /\ rec.auth = req[c].auth
  BY <1>1 DEF Serving
<1> HIDE DEF rec
<1>6. /\ req' \in [Requests -> Serving] /\ req'[c] = rec
      /\ \A d \in Requests \ {c} : req'[d] = req[d]
  BY <1>1, <1>3, <1>4, ReqChanges
<1>7. OnItsWay(c)' /\ Truthful(c)' /\ req'[c].pc # "ipIncr"
  <2>1. out' = out /\ kept' = kept /\ issued' = issued
    BY <1>2 DEF sessions
  <2> QED BY <1>1, <1>5, <1>6, <2>1 DEF OnItsWay, Truthful
<1>8. /\ k \in [count : Nat, until : Nat] /\ Get(k) <= Get(ip[addr]) + 1
      /\ OfAddress(addr) # {} => /\ Get(k) >= Get(ip[addr])
                                 /\ k.until >= ip[addr].until \/ k.until >= clock + IPWindow
      /\ IPWindow > 0 => Get(k) = Get(ip[addr]) + 1 /\ k.until >= clock + IPWindow
  <2>1. AddressKey(addr)
    BY <1>1 DEF Limited
  <2> HIDE DEF addr
  <2> QED BY <1>1, <2>1, CounterCounts
<1>9. new # {} => /\ \E n \in Nat : new = {<<addr, clock, n>>}
                  /\ IPWindow > 0
  <2>1. Cardinality(ipThrough) \in Nat /\ clock \in Nat /\ IPWindow \in Nat
    BY <1>1, HttpAssumption, FS_CardinalityType DEF Limited, HttpTypeOK
  <2>2. <<addr, clock, Cardinality(ipThrough)>>[2] = clock
    OBVIOUS
  <2>3. new # {} => new = {<<addr, clock, Cardinality(ipThrough)>>} /\ clock > clock - IPWindow
    BY <2>2 DEF InIPWindow
  <2>4. clock > clock - IPWindow => IPWindow > 0
    BY <2>1
  <2>5. (\E n \in Nat : new = {<<addr, clock, n>>}) \/ new = {}
    BY <2>1, <2>3, Zenon
  <2> QED BY <2>3, <2>4, <2>5, Zenon
<1>13. req[c].ip = addr /\ addr \in IPs
  BY <1>1
<1> HIDE DEF k, new, addr
<1>10. /\ IsFiniteSet(ipThrough') /\ ipThrough' \subseteq IPs \X Nat \X Nat
       /\ \A a \in IPs : AddressKey(a)'
  <2>1. clock' = clock
    BY <1>2
  <2>2. new # {} => /\ \E n \in Nat : new = {<<addr, clock, n>>}
                    /\ Get(k) = Get(ip[addr]) + 1
                    /\ IPWindow > 0 /\ k.until >= clock + IPWindow
    BY <1>8, <1>9, Zenon
  <2>3. HttpTypeOK /\ Limited /\ req[c].pc = "ipIncr"
    BY <1>1
  <2>4. ip' = [ip EXCEPT ![addr] = k] /\ ipThrough' = ipThrough \cup new
    BY <1>2
  <2>5. (\A d \in Requests \ {c} : req'[d] = req[d]) /\ req'[c].pc # "ipIncr"
    BY <1>6, <1>7
  <2>6. /\ k \in [count : Nat, until : Nat] /\ Get(k) <= Get(ip[addr]) + 1
        /\ OfAddress(addr) # {} => /\ Get(k) >= Get(ip[addr])
                                   /\ k.until >= ip[addr].until \/ k.until >= clock + IPWindow
    BY <1>8
  <2> QED BY <1>13, <2>1, <2>2, <2>3, <2>4, <2>5, <2>6, AddressStep, Zenon
<1>11. GlobalKey' /\ Limited'
  BY <1>1, <1>2, <1>10 DEF Limited, GlobalKey
<1>12. /\ global' \in [stamps : SUBSET Nat, until : Nat]
       /\ ip' \in [IPs -> [count : Nat, until : Nat]] /\ through' \subseteq Nat
  BY <1>1, <1>2, <1>8 DEF HttpTypeOK
<1> QED BY <1>2, <1>6, <1>7, <1>10, <1>11, <1>12, LimiterStep

\* Redis fails in one of the limiter's steps (rate_limit.go:9).
LEMMA CheckFailsKeeps == ASSUME HttpInv, NEW c \in Requests, CheckFails(c) PROVE HttpInv'
<1>1. /\ HttpTypeOK /\ Limited /\ OnItsWay(c) /\ DOMAIN req = Requests /\ received' \in Nat
      /\ UNCHANGED <<clock, sessions, received, history>>
      /\ clock' = clock /\ through' = through /\ ipThrough' = ipThrough
      /\ UNCHANGED <<clock, sessions, out, kept>>
      /\ Answer(c, FALSE, Nothing, {statusFromCode.RATE_LIMIT_EXCEEDED})
  BY DEF HttpInv, HttpTypeOK, CheckFails, history
<1>2. /\ req' \in [Requests -> Serving] /\ req'[c].pc = "answered"
      /\ \A d \in Requests \ {c} : req'[d] = req[d]
      /\ OnItsWay(c)' /\ Truthful(c)'
  BY <1>1, Refused
<1>3. CASE UNCHANGED limits
  BY <1>1, <1>2, <1>3, PlainStep
<1>4. ASSUME req[c].pc = "global", UNCHANGED ip, NEW now, now = IncrementSliding(req[c].stamp),
             global' = [stamps |-> now.stamps, until |-> now.until]
      PROVE  HttpInv'
  <2>1. req[c].stamp \in Nat /\ req[c].stamp <= clock /\ GlobalKey
    BY <1>1, <1>4 DEF HttpTypeOK, Serving, OnItsWay, Limited
  <2>2. GlobalKey' /\ global' \in [stamps : SUBSET Nat, until : Nat] /\ through' \subseteq Nat
    BY <1>1, <1>4, <2>1, GlobalStep
  <2>3. IsFiniteSet(ipThrough') /\ \A a \in IPs : AddressKey(a)'
    <3>1. \A d \in Requests : req'[d].pc = "ipIncr" =>
              req[d].pc = "ipIncr" /\ req'[d].ip = req[d].ip
      BY <1>2
    <3> QED BY <1>1, <1>4, <3>1, CountersStay
  <2>4. ip' \in [IPs -> [count : Nat, until : Nat]] /\ ipThrough' \subseteq IPs \X Nat \X Nat
    BY <1>1, <1>4 DEF HttpTypeOK
  <2> QED BY <1>1, <1>2, <2>2, <2>3, <2>4, LimiterStep DEF Limited, history
<1>5. ASSUME req[c].pc = "ipIncr", UNCHANGED global, NEW addr \in IPs, addr = req[c].ip,
             NEW k \in {ip[addr], Partly(ip[addr]), Increment(ip[addr])},
             ip' = [ip EXCEPT ![addr] = k]
      PROVE  HttpInv'
  <2>1. /\ k \in [count : Nat, until : Nat] /\ Get(k) <= Get(ip[addr]) + 1
        /\ OfAddress(addr) # {} => /\ Get(k) >= Get(ip[addr])
                                   /\ k.until >= ip[addr].until \/ k.until >= clock + IPWindow
    <3>1. AddressKey(addr)
      BY <1>1 DEF Limited
    <3> QED BY <1>1, <3>1, CounterCounts
  <2>2. ipThrough' = ipThrough \cup {} /\ req'[c].pc # "ipIncr"
    BY <1>1, <1>2
  <2>3. /\ IsFiniteSet(ipThrough') /\ ipThrough' \subseteq IPs \X Nat \X Nat
        /\ \A a \in IPs : AddressKey(a)'
    BY <1>1, <1>2, <1>5, <2>1, <2>2, AddressStep
  <2>4. GlobalKey' /\ Limited'
    BY <1>1, <1>5, <2>3 DEF Limited, GlobalKey
  <2>5. /\ global' \in [stamps : SUBSET Nat, until : Nat]
        /\ ip' \in [IPs -> [count : Nat, until : Nat]] /\ through' \subseteq Nat
    BY <1>1, <1>5, <2>1 DEF HttpTypeOK
  <2> QED BY <1>1, <1>2, <2>3, <2>4, <2>5, LimiterStep DEF history
<1>6. \/ UNCHANGED limits
      \/ /\ req[c].pc = "global" /\ UNCHANGED ip
         /\ global' = [stamps |-> IncrementSliding(req[c].stamp).stamps,
                       until |-> IncrementSliding(req[c].stamp).until]
      \/ /\ req[c].pc = "ipIncr" /\ UNCHANGED global
         /\ \E k \in {ip[req[c].ip], Partly(ip[req[c].ip]), Increment(ip[req[c].ip])} :
                ip' = [ip EXCEPT ![req[c].ip] = k]
  BY DEF CheckFails, Partly
<1>7. req[c].pc = "ipIncr" => req[c].ip \in IPs
  BY <1>1 DEF OnItsWay
<1> QED BY <1>3, <1>4, <1>5, <1>6, <1>7

-----------------------------------------------------------------------------
\* The steps of the session lookup, login and logout

\* FindByToken (auth.go:41).
LEMMA AuthMiddlewareKeeps ==
    ASSUME HttpInv, NEW c \in Requests, AuthMiddleware(c) \/ AuthFails(c) PROVE HttpInv'
<1>1. /\ HttpTypeOK /\ OnItsWay(c) /\ LoggedOutStays
      /\ UNCHANGED <<clock, limits, sessions, received, history>> /\ received' \in Nat
      /\ out' = out /\ kept' = kept /\ issued' = issued /\ cached' = cached
  BY DEF HttpInv, HttpTypeOK, AuthMiddleware, AuthFails, history, sessions
<1>2. PICK pc \in {"slide", "route"} :
          Proceed(c, pc) /\ (pc = "slide" => req[c].tok \in cached)
  BY DEF AuthMiddleware, AuthFails
<1>3. /\ req' \in [Requests -> Serving] /\ req'[c].pc = pc
      /\ req'[c].ip = req[c].ip /\ req'[c].stamp = req[c].stamp
      /\ req'[c].tok = req[c].tok /\ req'[c].late = req[c].late
      /\ req'[c].auth = req[c].auth
      /\ \A d \in Requests \ {c} : req'[d] = req[d]
  BY <1>1, <1>2, ProceedMoves
<1>4. pc = "slide" => req[c].tok \in issued /\ req[c].tok \notin out \ kept
  BY <1>1, <1>2 DEF LoggedOutStays
<1>5. OnItsWay(c)' /\ Truthful(c)' /\ req'[c].pc # "ipIncr"
  BY <1>1, <1>3, <1>4 DEF OnItsWay, Truthful
<1> QED BY <1>1, <1>3, <1>5, PlainStep

\* The lookup writes the session back (auth.go:50, session_manager.go:99).
LEMMA AuthSlideKeeps ==
    ASSUME HttpInv, NEW c \in Requests, NEW valid \in BOOLEAN, AuthSlide(c, valid)
    PROVE  HttpInv'
<1> DEFINE rec == [req[c] EXCEPT !.pc = "route", !.auth = valid]
<1>1. /\ HttpTypeOK /\ OnItsWay(c) /\ LoggedOutStays /\ req[c].pc = "slide"
      /\ req[c] \in Serving /\ DOMAIN req = Requests /\ received' \in Nat
      /\ UNCHANGED <<clock, limits, through, ipThrough>>
      /\ out' = out /\ kept' = kept /\ issued' = issued /\ cached' = cached \cup {req[c].tok}
  BY DEF HttpInv, HttpTypeOK, AuthSlide, history
<1>2. req' = [req EXCEPT ![c] = rec]
  BY <1>1 DEF AuthSlide
<1>3. rec \in Serving
  BY <1>1 DEF Serving
<1>4. /\ rec.pc = "route" /\ rec.tok = req[c].tok /\ rec.late = req[c].late
  BY <1>1 DEF Serving
<1> HIDE DEF rec
<1>5. /\ req' \in [Requests -> Serving] /\ req'[c] = rec
      /\ \A d \in Requests \ {c} : req'[d] = req[d]
  BY <1>1, <1>2, <1>3, ReqChanges
<1>6. req[c].tok \in issued /\ req[c].tok \notin out \ kept
      /\ (req[c].late => req[c].tok \in out)
  BY <1>1 DEF OnItsWay
<1>7. OnItsWay(c)' /\ Truthful(c)' /\ req'[c].pc # "ipIncr"
  BY <1>1, <1>4, <1>5, <1>6 DEF OnItsWay, Truthful
<1>8. LoggedOutStays'
  BY <1>1, <1>6 DEF LoggedOutStays
<1>9. /\ cached' \subseteq Tokens /\ issued' \subseteq Tokens /\ out' \subseteq Tokens
      /\ kept' \subseteq Tokens
  BY <1>1, <1>6 DEF HttpTypeOK
<1>10. \A d \in Requests \ {c} : req[d].pc = "slide" => req[d].tok \notin out' \ kept'
  BY <1>1 DEF HttpInv, OnItsWay
<1> QED BY <1>1, <1>5, <1>7, <1>8, <1>9, <1>10, SessionsStep

\* Login caches a session with a token nobody has (account_handler.go:99).
LEMMA LoginKeeps ==
    ASSUME HttpInv, NEW c \in Requests, NEW tok \in Tokens, NEW ran \in {"ok", "err"},
           Login(c, tok, ran)
    PROVE  HttpInv'
<1>1. /\ HttpTypeOK /\ LoggedOutStays /\ received' \in Nat
      /\ UNCHANGED <<clock, limits, through, ipThrough>> /\ clock' = clock
      /\ out' = out /\ kept' = kept
  BY DEF HttpInv, HttpTypeOK, Login, history
<1>2. \/ tok \notin issued /\ cached' = cached \cup {tok} /\ issued' = issued \cup {tok}
      \/ cached' = cached /\ issued' = issued
  BY DEF Login, sessions
<1>3. LoggedOutStays' /\ issued \subseteq issued'
  BY <1>1, <1>2 DEF LoggedOutStays
<1>4. /\ cached' \subseteq Tokens /\ issued' \subseteq Tokens /\ out' \subseteq Tokens
      /\ kept' \subseteq Tokens
  BY <1>1, <1>2 DEF HttpTypeOK
<1> DEFINE statuses == IF ran = "ok" THEN login.ok ELSE login.err
<1>5. /\ Answer(c, FALSE, ran, statuses) /\ ran \in {Nothing, "ok", "err"}
      /\ (ran = "ok" => statuses \subseteq Success) /\ (ran # "ok" => statuses \subseteq Failure)
  BY LoginAndLogout DEF Login, RouteOK
<1> HIDE DEF statuses
<1>6. HttpTypeOK /\ OnItsWay(c)
  BY DEF HttpInv
<1>7. /\ req' \in [Requests -> Serving] /\ req'[c].pc = "answered"
      /\ req'[c].tok = req[c].tok /\ req'[c].late = req[c].late
      /\ req'[c].auth = req[c].auth
      /\ req'[c].need = FALSE /\ req'[c].ran = ran
      /\ req'[c].success <=> ran = "ok"
      /\ \A d \in Requests \ {c} : req'[d] = req[d]
  BY <1>1, <1>5, AnswerMoves
<1>8. OnItsWay(c)' /\ Truthful(c)'
  <2>1. OnItsWay(c)'
    BY <1>1, <1>3, <1>6, <1>7 DEF OnItsWay
  <2>2. Truthful(c)'
    BY <1>7 DEF Truthful
  <2> QED BY <2>1, <2>2
<1>9. \A d \in Requests \ {c} : req[d].pc = "slide" => req[d].tok \notin out' \ kept'
  BY <1>1 DEF HttpInv, OnItsWay
<1> QED BY <1>1, <1>3, <1>4, <1>7, <1>8, <1>9, SessionsStep

\* A logout is answered with success: the session is gone, or its token is kept
\* (logout.go:24, session_manager.go:191).
LEMMA LogoutSucceeds ==
    ASSUME HttpInv, NEW c \in Requests, req[c].auth, req[c].pc \in {"route", "revoke"},
           LoggedOut(c), UNCHANGED <<clock, limits, received, through, ipThrough>>,
           issued' = issued, cached' \subseteq cached,
           kept' \in {kept, kept \cup {req[c].tok}},
           HeldElsewhere(c, req[c].tok) => req[c].tok \in kept',
           req[c].tok \in cached' => req[c].tok \in kept'
    PROVE  HttpInv'
<1>1. /\ HttpTypeOK /\ OnItsWay(c) /\ LoggedOutStays /\ received' \in Nat /\ clock' = clock
      /\ req[c].tok \in issued /\ req[c].tok \in Tokens
      /\ (req[c].late => req[c].tok \in kept)
  BY DEF HttpInv, HttpTypeOK, OnItsWay
<1>2. Answer(c, TRUE, "ok", logout.ok) /\ out' = out \cup {req[c].tok}
  BY LoginAndLogout DEF LoggedOut
<1>3. /\ req' \in [Requests -> Serving] /\ req'[c].pc = "answered"
      /\ req'[c].tok = req[c].tok /\ req'[c].late = req[c].late
      /\ req'[c].auth = req[c].auth
      /\ req'[c].need = TRUE /\ req'[c].ran = "ok"
      /\ req'[c].success <=> "ok" = "ok"
      /\ \A d \in Requests \ {c} : req'[d] = req[d]
  <2>1. logout.ok \subseteq Success
    BY LoginAndLogout DEF RouteOK
  <2> QED BY <1>1, <1>2, <2>1, AnswerMoves
<1>4. OnItsWay(c)'
  BY <1>1, <1>2, <1>3 DEF OnItsWay
<1>5. Truthful(c)'
  BY <1>3 DEF Truthful
<1>6. LoggedOutStays'
  BY <1>1, <1>2 DEF LoggedOutStays
<1>7. \A d \in Requests \ {c} : req[d].pc = "slide" => req[d].tok \notin out' \ kept'
  <2>1. \A d \in Requests \ {c} : req[d].pc = "slide" => req[d].tok \notin out \ kept
    BY DEF HttpInv, OnItsWay
  <2> QED BY <1>2, <2>1 DEF HeldElsewhere
<1>8. /\ cached' \subseteq Tokens /\ issued' \subseteq Tokens /\ out' \subseteq Tokens
      /\ kept' \subseteq Tokens /\ out \subseteq out' /\ kept \subseteq kept'
  BY <1>1, <1>2 DEF HttpTypeOK
<1> QED BY <1>1, <1>3, <1>4, <1>5, <1>6, <1>7, <1>8, SessionsStep

\* Revoke reads the session (session_manager.go:191).
LEMMA LogoutKeeps ==
    ASSUME HttpInv, NEW c \in Requests, NEW fails \in BOOLEAN, Logout(c, fails)
    PROVE  HttpInv'
<1> DEFINE tok == req[c].tok
<1>1. /\ req[c].pc = "route" /\ req[c].auth /\ HttpTypeOK /\ OnItsWay(c)
      /\ UNCHANGED <<clock, limits, sessions, received, through, ipThrough>>
      /\ issued' = issued /\ cached' = cached /\ received' \in Nat
  BY LoginAndLogout DEF Logout, RequireAuth, HttpInv, HttpTypeOK, sessions
<1>2. CASE fails \/ tok \notin cached
  <2>1. /\ LoggedOut(c)
        /\ kept' = IF fails \/ HeldElsewhere(c, tok) THEN kept \cup {tok} ELSE kept
    BY <1>2 DEF Logout
  <2>2. /\ kept' \in {kept, kept \cup {tok}}
        /\ HeldElsewhere(c, tok) => tok \in kept'
        /\ tok \in cached' => tok \in kept'
    BY <1>1, <1>2, <2>1
  <2> QED BY <1>1, <2>1, <2>2, LogoutSucceeds
<1>3. CASE ~(fails \/ tok \notin cached)
  <2>1. Proceed(c, "revoke") /\ out' = out /\ kept' = kept
    BY <1>3 DEF Logout
  <2>2. /\ req' \in [Requests -> Serving] /\ req'[c].pc = "revoke"
        /\ req'[c].ip = req[c].ip /\ req'[c].stamp = req[c].stamp
        /\ req'[c].tok = req[c].tok /\ req'[c].late = req[c].late
        /\ req'[c].auth = req[c].auth
        /\ \A d \in Requests \ {c} : req'[d] = req[d]
    BY <1>1, <2>1, ProceedMoves
  <2>3. OnItsWay(c)' /\ Truthful(c)' /\ req'[c].pc # "ipIncr"
    BY <1>1, <2>1, <2>2 DEF OnItsWay, Truthful
  <2> QED BY <1>1, <2>1, <2>2, <2>3, PlainStep DEF history
<1> QED BY <1>2, <1>3

\* Revoke deletes it, or fails (session_manager.go:208, logout.go:28).
LEMMA LogoutDeleteKeeps ==
    ASSUME HttpInv, NEW c \in Requests, LogoutDelete(c) \/ LogoutFails(c) PROVE HttpInv'
<1>1. HttpTypeOK /\ OnItsWay(c) /\ req[c].pc = "revoke" /\ req[c].auth /\ received' \in Nat
  BY DEF HttpInv, HttpTypeOK, OnItsWay, LogoutDelete, LogoutFails
<1>2. CASE LogoutDelete(c)
  <2>1. /\ LoggedOut(c) /\ cached' = cached \ {req[c].tok}
        /\ kept' = IF HeldElsewhere(c, req[c].tok) THEN kept \cup {req[c].tok} ELSE kept
        /\ issued' = issued /\ UNCHANGED <<clock, limits, received, through, ipThrough>>
    BY <1>2 DEF LogoutDelete
  <2>2. /\ kept' \in {kept, kept \cup {req[c].tok}}
        /\ HeldElsewhere(c, req[c].tok) => req[c].tok \in kept'
        /\ req[c].tok \in cached' => req[c].tok \in kept'
        /\ cached' \subseteq cached
    BY <2>1
  <2> QED BY <1>1, <2>1, <2>2, LogoutSucceeds
<1>3. CASE LogoutFails(c)
  <2>1. /\ Answer(c, TRUE, "err", logout.err) /\ logout.err \subseteq Failure
        /\ UNCHANGED <<clock, limits, sessions, received, history>>
        /\ out' = out /\ kept' = kept /\ issued' = issued /\ clock' = clock
    BY <1>3, LoginAndLogout DEF LogoutFails, RouteOK, sessions, history
  <2>2. /\ req' \in [Requests -> Serving] /\ req'[c].pc = "answered"
        /\ \A d \in Requests \ {c} : req'[d] = req[d]
        /\ OnItsWay(c)' /\ Truthful(c)'
    BY <1>1, <2>1, AnswerStep
  <2> QED BY <1>1, <2>1, <2>2, PlainStep
<1> QED BY <1>2, <1>3

\* The TTL of a session runs out.
LEMMA ExpireCachedKeeps == ASSUME HttpInv, NEW tok \in Tokens, ExpireCached(tok) PROVE HttpInv'
<1>1. /\ HttpTypeOK /\ Limited /\ LoggedOutStays
      /\ UNCHANGED <<clock, limits, through, ipThrough>>
      /\ cached' \subseteq cached /\ issued' = issued /\ req' = req /\ received' = received
      /\ out' = out /\ kept' = kept /\ clock' = clock
  BY DEF HttpInv, ExpireCached, history
<1>2. HttpTypeOK' /\ LoggedOutStays'
  BY <1>1 DEF HttpTypeOK, LoggedOutStays, limits
<1>3. Limited'
  BY <1>1, LimitsStay
<1>4. \A d \in Requests : OnItsWay(d)' /\ Truthful(d)'
  BY <1>1 DEF HttpInv, OnItsWay, Truthful
<1> QED BY <1>2, <1>3, <1>4 DEF HttpInv

-----------------------------------------------------------------------------
\* The theorems

LEMMA HttpInitInv == HttpInit => HttpInv
<1> SUFFICES ASSUME HttpInit PROVE HttpInv
  OBVIOUS
<1>1. /\ clock = 0 /\ global = [stamps |-> {}, until |-> 0] /\ received = 0
      /\ ip = [a \in IPs |-> [count |-> 0, until |-> 0]]
      /\ cached \subseteq Tokens /\ issued = cached
      /\ req = [c \in Requests |-> Idle]
      /\ through = {} /\ ipThrough = {} /\ out = {} /\ kept = {}
  BY DEF HttpInit
<1>2. Idle \in Serving
  BY DEF Idle, Serving
<1>3. HttpTypeOK
  BY <1>1, <1>2 DEF HttpTypeOK
<1>4. GlobalKey
  <2>1. Cardinality(through) = 0
    BY <1>1, FS_EmptySet
  <2> QED BY <1>1, <2>1, HttpAssumption DEF GlobalKey
<1>5. ASSUME NEW a \in IPs PROVE AddressKey(a)
  <2>1. Get(ip[a]) = 0
    BY <1>1 DEF Get, Live
  <2>2. OfAddress(a) = {} /\ Incrementing(a) = {}
    BY <1>1 DEF OfAddress, Incrementing, Idle
  <2>3. Cardinality(OfAddress(a)) = 0 /\ Cardinality(Incrementing(a)) = 0
    BY <2>2, FS_EmptySet
  <2>4. IPLimit \in Nat /\ Cardinality(Requests) \in Nat
    BY HttpAssumption, FS_CardinalityType
  <2> QED BY <2>1, <2>2, <2>3, <2>4 DEF AddressKey
<1>6. IsFiniteSet(ipThrough) /\ LoggedOutStays
  BY <1>1, FS_EmptySet DEF LoggedOutStays
<1>7. \A c \in Requests : OnItsWay(c) /\ Truthful(c)
  BY <1>1 DEF OnItsWay, Truthful, Idle
<1> QED BY <1>3, <1>4, <1>5, <1>6, <1>7 DEF HttpInv, Limited

LEMMA HttpNextInv == HttpInv /\ [HttpNext]_httpVars => HttpInv'
<1> SUFFICES ASSUME HttpInv, [HttpNext]_httpVars PROVE HttpInv'
  OBVIOUS
<1>1. CASE Tick
  BY <1>1, TickStep
<1>2. ASSUME NEW tok \in Tokens, ExpireCached(tok) PROVE HttpInv'
  BY <1>2, ExpireCachedKeeps
<1>3. ASSUME NEW c \in Requests, Middleware(c) PROVE HttpInv'
  <2>1. CASE \E tok \in Tokens : Connect(c, tok) \/ \E addr \in IPs : Request(c, addr, tok)
    BY <2>1, ReceiveKeeps
  <2>2. CASE CheckGlobal(c)
    BY <2>2, CheckGlobalKeeps
  <2>3. CASE CheckIP(c)
    BY <2>3, CheckIPKeeps
  <2>4. CASE CheckIPIncrement(c)
    BY <2>4, CheckIPIncrementKeeps
  <2>5. CASE CheckFails(c)
    BY <2>5, CheckFailsKeeps
  <2>6. CASE AuthMiddleware(c) \/ AuthFails(c)
    BY <2>6, AuthMiddlewareKeeps
  <2>7. CASE \E valid \in BOOLEAN : AuthSlide(c, valid)
    BY <2>7, AuthSlideKeeps
  <2>8. CASE Quit(c)
    BY <2>8, QuitKeeps
  <2> QED BY <1>3, <2>1, <2>2, <2>3, <2>4, <2>5, <2>6, <2>7, <2>8 DEF Middleware
<1>4. ASSUME NEW c \in Requests, Handler(c) PROVE HttpInv'
  <2>1. CASE \E r \in RoutesOf(c) : \/ Unauthorized(c, r) \/ BadInput(c, r)
                                    \/ \E ran \in {"ok", "err"} : Serve(c, r, ran)
    BY <2>1, ServeKeeps
  <2>2. CASE \E tok \in Tokens, ran \in {"ok", "err"} : Login(c, tok, ran)
    BY <2>2, LoginKeeps
  <2>3. CASE \E fails \in BOOLEAN : Logout(c, fails)
    BY <2>3, LogoutKeeps
  <2>4. CASE LogoutDelete(c) \/ LogoutFails(c)
    BY <2>4, LogoutDeleteKeeps
  <2> QED BY <1>4, <2>1, <2>2, <2>3, <2>4 DEF Handler
<1>5. CASE UNCHANGED httpVars
  <2>1. /\ UNCHANGED <<clock, limits, through, ipThrough>> /\ clock' = clock
        /\ cached' = cached /\ issued' = issued /\ req' = req /\ received' = received
        /\ out' = out /\ kept' = kept /\ HttpTypeOK /\ Limited /\ LoggedOutStays
    BY <1>5 DEF httpVars, limits, sessions, history, HttpInv
  <2>2. Limited'
    BY <2>1, LimitsStay
  <2>3. HttpTypeOK' /\ LoggedOutStays'
    BY <2>1 DEF HttpTypeOK, LoggedOutStays, limits
  <2>4. \A d \in Requests : OnItsWay(d)' /\ Truthful(d)'
    BY <2>1 DEF HttpInv, OnItsWay, Truthful
  <2> QED BY <2>2, <2>3, <2>4 DEF HttpInv
<1> QED BY <1>1, <1>2, <1>3, <1>4, <1>5 DEF HttpNext

\* The invariant holds in every reachable state of the request pipeline.
THEOREM HttpInvariance == HttpSpec => []HttpInv
BY HttpInitInv, HttpNextInv, PTL DEF HttpSpec

\* The Redis keys, the session cache and the requests keep their types.
THEOREM HttpTypeCorrect == HttpSpec => []HttpTypeOK
<1>1. HttpInv => HttpTypeOK
  BY DEF HttpInv
<1> QED BY <1>1, HttpInvariance, PTL

\* Within the length of a window no more requests get past the rate limits than they are
\* set to, but for the requests of an address that are served at the same time
\* (rate_limiter.go:27, :43).
THEOREM LimitsKept == HttpSpec => []WithinLimits
<1>1. HttpInv => WithinLimits
  <2> SUFFICES ASSUME HttpInv PROVE WithinLimits
    OBVIOUS
  <2>1. Cardinality(through) <= GlobalLimit
    BY DEF HttpInv, Limited, GlobalKey
  <2>2. ASSUME NEW a \in IPs
        PROVE  Cardinality(OfAddress(a)) <= IPLimit + Cardinality(Requests)
    <3>1. AddressKey(a) /\ IsFiniteSet(OfAddress(a)) /\ IsFiniteSet(Incrementing(a))
      BY HttpAssumption, FS_Subset DEF HttpInv, Limited, OfAddress, Incrementing
    <3>2. /\ Cardinality(OfAddress(a)) \in Nat /\ Cardinality(Incrementing(a)) \in Nat
          /\ Cardinality(Requests) \in Nat /\ IPLimit \in Nat
      BY <3>1, HttpAssumption, FS_CardinalityType
    <3>3. Get(ip[a]) \in Nat
      BY DEF HttpInv, HttpTypeOK, Get
    <3> QED BY <3>1, <3>2, <3>3 DEF AddressKey
  <2> QED BY <2>1, <2>2 DEF WithinLimits, OfAddress
<1> QED BY <1>1, HttpInvariance, PTL

\* An answer tells what happened, and no use case of a protected route runs without a
\* session, nor for a token that was logged out before the request arrived, unless it was
\* kept alive (auth.go:94, logout.go:24).
THEOREM AnswersTrue == HttpSpec => []ServedAsAnswered
<1>1. HttpInv => ServedAsAnswered
  <2> SUFFICES ASSUME HttpInv, NEW c \in Requests, req[c].pc = "answered"
               PROVE  /\ req[c].success <=> req[c].ran = "ok"
                      /\ req[c].need /\ req[c].ran # Nothing =>
                            req[c].auth /\ (req[c].late => req[c].tok \in kept)
    BY DEF ServedAsAnswered
  <2>1. OnItsWay(c) /\ Truthful(c)
    BY DEF HttpInv
  <2> QED BY <2>1 DEF OnItsWay, Truthful
<1> QED BY <1>1, HttpInvariance, PTL
=============================================================================
