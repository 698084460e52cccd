-------------------------- MODULE SenderKeysProofs --------------------------
(***************************************************************************)
(* Proofs about SenderKeys, for any members, users, rooms and numbers of   *)
(* goroutines, with failures and crashes.  Three facts are carried along:  *)
(* every goroutine that closes a request stems from an upload (KeyBehind), *)
(* every recorded fetch from a fetch (FetchBehind), and a request that a   *)
(* connection of its provider has neither been sent nor missed has a       *)
(* goroutine that will send it (NoMissedRequest, inductive as it stands);  *)
(* so is NoForgottenRequest.                                               *)
(***************************************************************************)
EXTENDS SenderKeys, TLAPS

\* Closing tasks, and closed requests, belong to providers with a key.
KeyBehind ==
    \A r, p \in Members :
        (\/ req[<<r, p>>] = "fulfilled"
         \/ \E k \in {"upload", "ready", "mark"} : running[<<k, r, p>>] > 0) => p \in keys

\* What is recorded, or about to be, was fetched.
FetchBehind ==
    \A r, s \in Members :
        (<<r, s>> \in dist \/ running[<<"record", r, s>>] > 0) => <<r, s>> \in fetched

IInv == TypeOK /\ NoMissedRequest /\ NoForgottenRequest /\ KeyBehind /\ FetchBehind

-----------------------------------------------------------------------------
\* Starting goroutines only adds tasks.
LEMMA Started ==
    ASSUME TypeOK, NEW S, StartTasks(S)
    PROVE  /\ running' \in [Tasks -> 0..MaxSame]
           /\ \A t \in Tasks : /\ t \in S \/ running[t] > 0 => running'[t] > 0
                               /\ running'[t] > 0 => t \in S \/ running[t] > 0
<1> USE SenderKeysAssumption DEF TypeOK, StartTasks, Room
<1>1. \A t \in Tasks : running[t] \in 0..MaxSame /\ running'[t] \in 0..MaxSame
  OBVIOUS
<1> QED BY <1>1

\* Finishing a task takes only that task away.
LEMMA Replaced ==
    ASSUME TypeOK, NEW done \in Tasks, NEW S, ReplaceTask(done, S)
    PROVE  /\ running' \in [Tasks -> 0..MaxSame]
           /\ running[done] > 0
           /\ \A t \in Tasks : /\ t \in S \/ (t # done /\ running[t] > 0) => running'[t] > 0
                               /\ running'[t] > 0 => t \in S \/ running[t] > 0
<1> USE SenderKeysAssumption DEF TypeOK, ReplaceTask, Room
<1>1. ASSUME NEW t \in Tasks
      PROVE  /\ running'[t] \in 0..MaxSame
             /\ t \in S \/ (t # done /\ running[t] > 0) => running'[t] > 0
             /\ running'[t] > 0 => t \in S \/ running[t] > 0
  <2>1. running[t] \in 0..MaxSame /\ running[done] > 0
    OBVIOUS
  <2>2. running'[t] = running[t] + (IF t \in S THEN 1 ELSE 0) - (IF t = done THEN 1 ELSE 0)
    OBVIOUS
  <2>3. t \in S /\ t # done => running[t] < MaxSame
    OBVIOUS
  <2> QED BY <2>1, <2>2, <2>3
<1>2. DOMAIN running' = Tasks /\ running' = [t \in Tasks |-> running'[t]]
  OBVIOUS
<1> QED BY <1>1, <1>2

\* A task that is done and starts nothing.
LEMMA Finished ==
    ASSUME TypeOK, NEW done \in Tasks, ReplaceTask(done, {})
    PROVE  /\ running[done] > 0
           /\ \A t \in Tasks : running'[t] > 0 => running[t] > 0
<1>1. \A t \in Tasks : running'[t] > 0 => t \in {} \/ running[t] > 0
  BY Replaced
<1>2. running[done] > 0
  BY DEF ReplaceTask
<1> QED BY <1>1, <1>2

\* The tasks of the actions are tasks.
LEMMA TaskNames ==
    \A r, p \in Members :
        \A k \in {"hook", "needed", "upload", "ready", "mark", "record"} : <<k, r, p>> \in Tasks
BY DEF Tasks

\* Initially there are no keys, requests or goroutines.
LEMMA IInvInit == Init => IInv
<1> SUFFICES ASSUME Init PROVE IInv
  OBVIOUS
<1>1. TypeOK
  BY SenderKeysAssumption DEF Init, TypeOK
<1>2. \A r, p \in Members : req[<<r, p>>] = "none"
  BY DEF Init, Pairs
<1>3. \A t \in Tasks : ~(running[t] > 0)
  BY DEF Init
<1>4. NoMissedRequest /\ KeyBehind
  BY <1>2, <1>3, TaskNames DEF NoMissedRequest, KeyBehind
<1>5. FetchBehind
  BY <1>3, TaskNames DEF Init, FetchBehind
<1>6. NoForgottenRequest
  BY DEF Init, NoForgottenRequest
<1> QED BY <1>1, <1>4, <1>5, <1>6 DEF IInv

-----------------------------------------------------------------------------
\* No step leaves the types.
LEMMA TypeStep == TypeOK /\ [Next]_vars => TypeOK'
<1> SUFFICES ASSUME TypeOK, [Next]_vars PROVE TypeOK'
  OBVIOUS
<1> USE SenderKeysAssumption, TaskNames DEF Pairs
<1>1. ASSUME NEW r \in Members, NEW p \in Members, Request(r, p) PROVE TypeOK'
  <2>1. running' \in [Tasks -> 0..MaxSame]
    BY <1>1, Started DEF Request
  <2> QED BY <1>1, <2>1 DEF Request, Renewed, TypeOK
<1>2. ASSUME NEW r \in Members, NEW p \in Members, PairTask(r, p) PROVE TypeOK'
  <2>1. running' \in [Tasks -> 0..MaxSame]
    BY <1>2, Replaced DEF PairTask, SendNeeded, SendReady, MarkFulfilled, Record
  <2>2. CASE SendNeeded(r, p)
    <3>1. PICK reached \in SUBSET ConnsOf(p) :
              /\ told' = told \cup {<<r, p, c>> : c \in reached}
              /\ missed' = missed \cup {<<r, p, c>> : c \in ConnsOf(p) \ reached}
      BY <2>2 DEF SendNeeded, Notify
    <3>2. ConnsOf(p) \subseteq Conns
      BY DEF ConnsOf, TypeOK
    <3>3. /\ told' \subseteq Members \X Members \X Conns
          /\ missed' \subseteq Members \X Members \X Conns
      <4>1. \A c \in ConnsOf(p) : <<r, p, c>> \in Members \X Members \X Conns
        BY <3>2
      <4>2. /\ {<<r, p, c>> : c \in reached} \subseteq Members \X Members \X Conns
            /\ {<<r, p, c>> : c \in ConnsOf(p) \ reached} \subseteq Members \X Members \X Conns
        BY <4>1, Zenon
      <4>3. /\ told \subseteq Members \X Members \X Conns
            /\ missed \subseteq Members \X Members \X Conns
        BY DEF TypeOK
      <4> QED BY <3>1, <4>2, <4>3, Zenon
    <3> QED BY <2>1, <2>2, <3>3 DEF SendNeeded, TypeOK
  <2>3. CASE SendReady(r, p) \/ MarkFulfilled(r, p) \/ Record(r, p)
    BY <2>1, <2>3 DEF SendReady, MarkFulfilled, Record, TypeOK
  <2> QED BY <1>2, <2>2, <2>3 DEF PairTask
<1>3. ASSUME NEW p \in Members, Upload(p) \/ GetSenderKeys(p) PROVE TypeOK'
  <2>1. running' \in [Tasks -> 0..MaxSame]
    BY <1>3, Started DEF Upload, GetSenderKeys
  <2>2. CASE Upload(p)
    <3>1. Pending(p) \subseteq Members
      BY DEF Pending
    <3>2. {<<r, p>> : r \in Pending(p)} \subseteq Members \X Members
      BY <3>1
    <3>3. due' \subseteq Members \X Members
      BY <2>2, <3>2 DEF Upload, TypeOK
    <3> QED BY <2>1, <2>2, <3>3 DEF Upload, TypeOK
  <2>3. CASE GetSenderKeys(p)
    <3>1. fetched' \subseteq Members \X Members
      BY <2>3 DEF GetSenderKeys, TypeOK
    <3> QED BY <2>1, <2>3, <3>1 DEF GetSenderKeys, TypeOK
  <2> QED BY <1>3, <2>2, <2>3
<1>4. ASSUME NEW p \in Members, MemberTask(p) PROVE TypeOK'
  <2>1. running' \in [Tasks -> 0..MaxSame]
    BY <1>4, Replaced DEF MemberTask, HookFind, UploadFind
  <2> QED BY <1>4, <2>1 DEF MemberTask, HookFind, UploadFind, TypeOK
<1>5. ASSUME NEW z \in Conns, Connect(z) PROVE TypeOK'
  <2>1. running' \in [Tasks -> 0..MaxSame]
    BY <1>5, Started DEF Connect
  <2> QED BY <1>5, <2>1 DEF Connect, TypeOK
<1>6. ASSUME NEW z \in Conns, Disconnect(z) PROVE TypeOK'
  BY <1>6 DEF Disconnect, TypeOK
<1>7. ASSUME NEW t \in Tasks, TaskFails(t) PROVE TypeOK'
  <2>1. running' \in [Tasks -> 0..MaxSame]
    BY <1>7, Replaced DEF TaskFails
  <2>2. missed' \subseteq Members \X Members \X Conns
    <3>1. t[2] \in Members /\ t[3] \in Members
      BY DEF Tasks
    <3>2. ConnsOf(t[3]) \subseteq Conns
      BY DEF ConnsOf, TypeOK
    <3>3. PICK lost : /\ missed' = missed \cup lost
                      /\ \/ lost = Members \X {t[3]} \X ConnsOf(t[3])
                         \/ lost = {t[2]} \X {t[3]} \X ConnsOf(t[3])
                         \/ lost = {}
      BY <1>7 DEF TaskFails
    <3> QED BY <3>1, <3>2, <3>3 DEF TypeOK
  <2>3. due' \subseteq Members \X Members
    BY <1>7 DEF TaskFails, TypeOK
  <2> QED BY <1>7, <2>1, <2>2, <2>3 DEF TaskFails, TypeOK
<1>8. CASE Crash
  <2>1. running' \in [Tasks -> 0..MaxSame]
    BY <1>8 DEF Crash
  <2> QED BY <1>8, <2>1 DEF Crash, TypeOK
<1>9. CASE UNCHANGED vars
  BY <1>9 DEF vars, TypeOK
<1> QED BY <1>1, <1>2, <1>3, <1>4, <1>5, <1>6, <1>7, <1>8, <1>9 DEF Next

\* SenderKeys is type correct (the e2ee tables and the goroutines).
THEOREM TypeCorrect == Spec => []TypeOK
<1>1. Init => TypeOK
  BY IInvInit DEF IInv
<1> QED BY <1>1, TypeStep, PTL DEF Spec

-----------------------------------------------------------------------------
\* A request is stored together with the task that announces it, a connection
\* is registered together with its hook, and a hook hands over one task for
\* each request it finds: nothing falls in between.
LEMMA NoMissedStep == IInv /\ [Next]_vars => NoMissedRequest'
<1> SUFFICES ASSUME TypeOK, NoMissedRequest, [Next]_vars,
                    NEW r \in Members, NEW p \in Members, NEW c,
                    req'[<<r, p>>] = "pending", c \in up', Owner[c] = UserOf[p]
             PROVE  \/ <<r, p, c>> \in told' \cup missed'
                    \/ running'[<<"needed", r, p>>] > 0
                    \/ running'[<<"hook", p, p>>] > 0
  BY DEF IInv, NoMissedRequest, ConnsOf
<1> DEFINE Goal == \/ <<r, p, c>> \in told' \cup missed'
                   \/ running'[<<"needed", r, p>>] > 0
                   \/ running'[<<"hook", p, p>>] > 0
<1> USE TaskNames
\* It is enough that the step leaves this request, its tasks and this connection alone.
<1>0. ASSUME req[<<r, p>>] = "pending", c \in up,
             <<r, p, c>> \in told \cup missed => <<r, p, c>> \in told' \cup missed',
             running[<<"needed", r, p>>] > 0 => running'[<<"needed", r, p>>] > 0,
             running[<<"hook", p, p>>] > 0 => running'[<<"hook", p, p>>] > 0
      PROVE  Goal
  BY <1>0 DEF NoMissedRequest, ConnsOf
<1>1. ASSUME NEW x \in Members, NEW y \in Members, Request(x, y) PROVE Goal
  <2>1. \A t \in Tasks : t = <<"needed", x, y>> \/ running[t] > 0 => running'[t] > 0
    BY <1>1, Started DEF Request
  <2>2. CASE x = r /\ y = p
    BY <2>1, <2>2
  <2>3. CASE ~(x = r /\ y = p)
    <3>1. req[<<r, p>>] = "pending" /\ up' = up
      BY <1>1, <2>3 DEF Request, TypeOK, Pairs
    <3>2. <<r, p, c>> \in told \cup missed => <<r, p, c>> \in told' \cup missed'
      BY <1>1, <2>3 DEF Request, Renewed
    <3> QED BY <1>0, <2>1, <3>1, <3>2
  <2> QED BY <2>2, <2>3
<1>2. ASSUME NEW x \in Members, NEW y \in Members, SendNeeded(x, y) PROVE Goal
  <2>1. \A t \in Tasks : t # <<"needed", x, y>> /\ running[t] > 0 => running'[t] > 0
    BY <1>2, Replaced DEF SendNeeded
  <2>2. req[<<r, p>>] = "pending" /\ up' = up /\ c \in ConnsOf(p)
    BY <1>2 DEF SendNeeded, ConnsOf
  <2>3. PICK reached \in SUBSET ConnsOf(y) :
            /\ told' = told \cup {<<x, y, d>> : d \in reached}
            /\ missed' = missed \cup {<<x, y, d>> : d \in ConnsOf(y) \ reached}
    BY <1>2 DEF SendNeeded, Notify
  <2>4. CASE x = r /\ y = p
    BY <2>2, <2>3, <2>4
  <2>5. CASE ~(x = r /\ y = p)
    <3>1. <<"needed", r, p>> # <<"needed", x, y>> /\ <<"hook", p, p>> # <<"needed", x, y>>
      BY <2>5
    <3> QED BY <1>0, <2>1, <2>2, <2>3, <3>1
  <2> QED BY <2>4, <2>5
<1>3. ASSUME NEW x \in Members, NEW y \in Members,
             SendReady(x, y) \/ MarkFulfilled(x, y) \/ Record(x, y)
      PROVE  Goal
  <2>1. PICK k \in {"ready", "mark", "record"} :
            \A t \in Tasks : t # <<k, x, y>> /\ running[t] > 0 => running'[t] > 0
    <3>1. PICK k \in {"ready", "mark", "record"}, S \in {{}, {<<"mark", x, y>>}} :
              ReplaceTask(<<k, x, y>>, S)
      BY <1>3 DEF SendReady, MarkFulfilled, Record
    <3> QED BY <3>1, Replaced
  <2>2. running[<<"needed", r, p>>] > 0 => running'[<<"needed", r, p>>] > 0
    BY <2>1
  <2>3. running[<<"hook", p, p>>] > 0 => running'[<<"hook", p, p>>] > 0
    BY <2>1
  <2>4. req[<<r, p>>] = "pending" /\ up' = up /\ missed' = missed /\ told' = told
    BY <1>3 DEF SendReady, MarkFulfilled, Record, TypeOK, Pairs
  <2> QED BY <1>0, <2>2, <2>3, <2>4
<1>4. ASSUME NEW y \in Members, Upload(y) \/ GetSenderKeys(y) PROVE Goal
  <2>1. \A t \in Tasks : running[t] > 0 => running'[t] > 0
    BY <1>4, Started DEF Upload, GetSenderKeys
  <2> QED BY <1>0, <1>4, <2>1 DEF Upload, GetSenderKeys
<1>5. ASSUME NEW y \in Members, HookFind(y) PROVE Goal
  <2>1. \A t \in Tasks :
            \/ t \in {<<"needed", x, y>> : x \in Pending(y)}
            \/ t # <<"hook", y, y>> /\ running[t] > 0
            => running'[t] > 0
    BY <1>5, Replaced DEF HookFind
  <2>2. req[<<r, p>>] = "pending"
    BY <1>5 DEF HookFind
  <2>3. CASE p = y
    <3>1. <<"needed", r, p>> \in {<<"needed", x, y>> : x \in Pending(y)}
      BY <2>2, <2>3 DEF Pending
    <3> QED BY <2>1, <3>1
  <2>4. CASE p # y
    <3>1. running[<<"needed", r, p>>] > 0 => running'[<<"needed", r, p>>] > 0
      BY <2>1
    <3>2. running[<<"hook", p, p>>] > 0 => running'[<<"hook", p, p>>] > 0
      BY <2>1, <2>4
    <3> QED BY <1>0, <1>5, <2>2, <3>1, <3>2 DEF HookFind
  <2> QED BY <2>3, <2>4
<1>6. ASSUME NEW y \in Members, UploadFind(y) PROVE Goal
  <2>1. \A t \in Tasks : t # <<"upload", y, y>> /\ running[t] > 0 => running'[t] > 0
    BY <1>6, Replaced DEF UploadFind
  <2>2. running[<<"needed", r, p>>] > 0 => running'[<<"needed", r, p>>] > 0
    BY <2>1
  <2>3. running[<<"hook", p, p>>] > 0 => running'[<<"hook", p, p>>] > 0
    BY <2>1
  <2> QED BY <1>0, <1>6, <2>2, <2>3 DEF UploadFind
<1>7. ASSUME NEW z \in Conns, Connect(z) PROVE Goal
  <2>1. \A t \in Tasks :
            t \in {<<"hook", m, m>> : m \in {n \in Members : UserOf[n] = Owner[z]}} \/ running[t] > 0
            => running'[t] > 0
    BY <1>7, Started DEF Connect
  <2>2. CASE UserOf[p] = Owner[z]
    <3>1. <<"hook", p, p>> \in {<<"hook", m, m>> : m \in {n \in Members : UserOf[n] = Owner[z]}}
      BY <2>2
    <3> QED BY <2>1, <3>1
  <2>3. CASE UserOf[p] # Owner[z]
    <3>1. c \in up
      BY <1>7, <2>3 DEF Connect
    <3> QED BY <1>0, <1>7, <2>1, <3>1 DEF Connect
  <2> QED BY <2>2, <2>3
<1>8. ASSUME NEW z \in Conns, Disconnect(z) PROVE Goal
  BY <1>0, <1>8 DEF Disconnect
<1>9. ASSUME NEW t \in Tasks, TaskFails(t) PROVE Goal
  <2>1. \A x \in Tasks : x # t /\ running[x] > 0 => running'[x] > 0
    BY <1>9, Replaced DEF TaskFails
  <2>2. req[<<r, p>>] = "pending" /\ c \in ConnsOf(p) /\ told' = told /\ missed \subseteq missed'
    BY <1>9 DEF TaskFails, ConnsOf
  <2>3. CASE t = <<"needed", r, p>>
    BY <1>9, <2>2, <2>3 DEF TaskFails
  <2>4. CASE t = <<"hook", p, p>>
    BY <1>9, <2>2, <2>4 DEF TaskFails
  <2>5. CASE t # <<"needed", r, p>> /\ t # <<"hook", p, p>>
    BY <1>0, <2>1, <2>2, <2>5 DEF ConnsOf
  <2> QED BY <2>3, <2>4, <2>5
<1>10. CASE Crash
  BY <1>10 DEF Crash
<1>11. CASE UNCHANGED vars
  BY <1>0, <1>11 DEF vars
<1> QED
  BY <1>1, <1>2, <1>3, <1>4, <1>5, <1>6, <1>7, <1>8, <1>9, <1>10, <1>11
  DEF Next, PairTask, MemberTask

\* An upload starts with the goroutine that looks for requests, which hands over
\* one task for each request it finds, until the request is closed.
LEMMA NoForgottenStep == IInv /\ [Next]_vars => NoForgottenRequest'
<1> SUFFICES ASSUME TypeOK, NoForgottenRequest, [Next]_vars,
                    NEW r \in Members, NEW p \in Members,
                    <<r, p>> \in due', req'[<<r, p>>] = "pending"
             PROVE  \/ running'[<<"upload", p, p>>] > 0
                    \/ running'[<<"ready", r, p>>] > 0
                    \/ running'[<<"mark", r, p>>] > 0
  BY DEF IInv, NoForgottenRequest
<1> DEFINE Goal == \/ running'[<<"upload", p, p>>] > 0
                   \/ running'[<<"ready", r, p>>] > 0
                   \/ running'[<<"mark", r, p>>] > 0
<1> USE TaskNames
\* It is enough that the step leaves the tasks of this request alone.
<1>0. ASSUME <<r, p>> \in due, req[<<r, p>>] = "pending",
             running[<<"upload", p, p>>] > 0 => running'[<<"upload", p, p>>] > 0,
             running[<<"ready", r, p>>] > 0 => running'[<<"ready", r, p>>] > 0,
             running[<<"mark", r, p>>] > 0 => running'[<<"mark", r, p>>] > 0
      PROVE  Goal
  BY <1>0 DEF NoForgottenRequest
<1>1. ASSUME NEW x \in Members, NEW y \in Members, Request(x, y) PROVE Goal
  <2>1. \A t \in Tasks : running[t] > 0 => running'[t] > 0
    BY <1>1, Started DEF Request
  <2>2. <<r, p>> \in due /\ <<r, p>> # <<x, y>>
    BY <1>1 DEF Request, Renewed
  <2>3. req[<<r, p>>] = "pending"
    BY <1>1, <2>2 DEF Request, TypeOK, Pairs
  <2> QED BY <1>0, <2>1, <2>2, <2>3
<1>2. ASSUME NEW x \in Members, NEW y \in Members, SendNeeded(x, y) \/ Record(x, y) PROVE Goal
  <2>1. PICK k \in {"needed", "record"} :
            \A t \in Tasks : t # <<k, x, y>> /\ running[t] > 0 => running'[t] > 0
    BY <1>2, Replaced DEF SendNeeded, Record
  <2>2. /\ running[<<"upload", p, p>>] > 0 => running'[<<"upload", p, p>>] > 0
        /\ running[<<"ready", r, p>>] > 0 => running'[<<"ready", r, p>>] > 0
        /\ running[<<"mark", r, p>>] > 0 => running'[<<"mark", r, p>>] > 0
    BY <2>1
  <2> QED BY <1>0, <1>2, <2>2 DEF SendNeeded, Record
<1>3. ASSUME NEW x \in Members, NEW y \in Members, SendReady(x, y) PROVE Goal
  <2>1. \A t \in Tasks :
            t = <<"mark", x, y>> \/ (t # <<"ready", x, y>> /\ running[t] > 0) => running'[t] > 0
    BY <1>3, Replaced DEF SendReady
  <2>2. running[<<"ready", r, p>>] > 0 =>
            running'[<<"ready", r, p>>] > 0 \/ running'[<<"mark", r, p>>] > 0
    BY <2>1
  <2>3. /\ running[<<"upload", p, p>>] > 0 => running'[<<"upload", p, p>>] > 0
        /\ running[<<"mark", r, p>>] > 0 => running'[<<"mark", r, p>>] > 0
    BY <2>1
  <2> QED BY <1>3, <2>2, <2>3 DEF SendReady, NoForgottenRequest
<1>4. ASSUME NEW x \in Members, NEW y \in Members, MarkFulfilled(x, y) PROVE Goal
  <2>1. \A t \in Tasks : t # <<"mark", x, y>> /\ running[t] > 0 => running'[t] > 0
    BY <1>4, Replaced DEF MarkFulfilled
  <2>2. <<x, y>> # <<r, p>> /\ req[<<r, p>>] = "pending" /\ <<r, p>> \in due
    BY <1>4 DEF MarkFulfilled, TypeOK, Pairs
  <2>3. /\ running[<<"upload", p, p>>] > 0 => running'[<<"upload", p, p>>] > 0
        /\ running[<<"ready", r, p>>] > 0 => running'[<<"ready", r, p>>] > 0
        /\ running[<<"mark", r, p>>] > 0 => running'[<<"mark", r, p>>] > 0
    BY <2>1, <2>2
  <2> QED BY <1>0, <2>2, <2>3
<1>5. ASSUME NEW y \in Members, Upload(y) PROVE Goal
  <2>1. \A t \in Tasks : t = <<"upload", y, y>> \/ running[t] > 0 => running'[t] > 0
    BY <1>5, Started DEF Upload
  <2>2. CASE y = p
    BY <2>1, <2>2
  <2>3. CASE y # p
    <3>1. <<r, p>> \in due
      BY <1>5, <2>3 DEF Upload
    <3> QED BY <1>0, <1>5, <2>1, <3>1 DEF Upload
  <2> QED BY <2>2, <2>3
<1>6. ASSUME NEW y \in Members, GetSenderKeys(y) PROVE Goal
  <2>1. \A t \in Tasks : running[t] > 0 => running'[t] > 0
    BY <1>6, Started DEF GetSenderKeys
  <2> QED BY <1>0, <1>6, <2>1 DEF GetSenderKeys
<1>7. ASSUME NEW y \in Members, HookFind(y) PROVE Goal
  <2>1. \A t \in Tasks : t # <<"hook", y, y>> /\ running[t] > 0 => running'[t] > 0
    BY <1>7, Replaced DEF HookFind
  <2>2. /\ running[<<"upload", p, p>>] > 0 => running'[<<"upload", p, p>>] > 0
        /\ running[<<"ready", r, p>>] > 0 => running'[<<"ready", r, p>>] > 0
        /\ running[<<"mark", r, p>>] > 0 => running'[<<"mark", r, p>>] > 0
    BY <2>1
  <2> QED BY <1>0, <1>7, <2>2 DEF HookFind
<1>8. ASSUME NEW y \in Members, UploadFind(y) PROVE Goal
  <2>1. \A t \in Tasks :
            \/ t \in {<<"ready", x, y>> : x \in Pending(y)}
            \/ t # <<"upload", y, y>> /\ running[t] > 0
            => running'[t] > 0
    BY <1>8, Replaced DEF UploadFind
  <2>2. <<r, p>> \in due /\ req[<<r, p>>] = "pending"
    BY <1>8 DEF UploadFind
  <2>3. CASE p = y
    <3>1. <<"ready", r, p>> \in {<<"ready", x, y>> : x \in Pending(y)}
      BY <2>2, <2>3 DEF Pending
    <3> QED BY <2>1, <3>1
  <2>4. CASE p # y
    <3>1. /\ running[<<"upload", p, p>>] > 0 => running'[<<"upload", p, p>>] > 0
          /\ running[<<"ready", r, p>>] > 0 => running'[<<"ready", r, p>>] > 0
          /\ running[<<"mark", r, p>>] > 0 => running'[<<"mark", r, p>>] > 0
      BY <2>1, <2>4
    <3> QED BY <1>0, <2>2, <3>1
  <2> QED BY <2>3, <2>4
<1>9. ASSUME NEW z \in Conns, Connect(z) \/ Disconnect(z) PROVE Goal
  <2>1. \A t \in Tasks : running[t] > 0 => running'[t] > 0
    BY <1>9, Started DEF Connect, Disconnect
  <2> QED BY <1>0, <1>9, <2>1 DEF Connect, Disconnect
<1>10. ASSUME NEW t \in Tasks, TaskFails(t) PROVE Goal
  <2>1. \A x \in Tasks : x # t /\ running[x] > 0 => running'[x] > 0
    BY <1>10, Replaced DEF TaskFails
  <2>2. /\ <<r, p>> \in due
        /\ t[1] = "upload" => p # t[3]
        /\ t[1] \in {"ready", "mark"} => <<r, p>> # <<t[2], t[3]>>
    BY <1>10 DEF TaskFails
  <2>3. t # <<"upload", p, p>> /\ t # <<"ready", r, p>> /\ t # <<"mark", r, p>>
    BY <2>2
  <2> QED BY <1>0, <1>10, <2>1, <2>2, <2>3 DEF TaskFails
<1>11. CASE Crash
  BY <1>11 DEF Crash
<1>12. CASE UNCHANGED vars
  BY <1>0, <1>12 DEF vars
<1> QED
  BY <1>1, <1>2, <1>3, <1>4, <1>5, <1>6, <1>7, <1>8, <1>9, <1>10, <1>11, <1>12
  DEF Next, PairTask, MemberTask

\* keys only grows; a task that closes requests comes from an upload.
LEMMA KeyBehindStep == IInv /\ [Next]_vars => KeyBehind'
<1> SUFFICES ASSUME TypeOK, KeyBehind, [Next]_vars, NEW r \in Members, NEW p \in Members,
                    \/ req'[<<r, p>>] = "fulfilled"
                    \/ \E k \in {"upload", "ready", "mark"} : running'[<<k, r, p>>] > 0
             PROVE  p \in keys'
  BY DEF IInv, KeyBehind
<1> DEFINE Closing == {"upload", "ready", "mark"}
<1> USE TaskNames
\* It is enough that what the step adds belongs to a provider with a key.
<1>0. ASSUME keys \subseteq keys',
             req'[<<r, p>>] = "fulfilled" => req[<<r, p>>] = "fulfilled" \/ p \in keys',
             \A k \in Closing : running'[<<k, r, p>>] > 0 => running[<<k, r, p>>] > 0 \/ p \in keys'
      PROVE  p \in keys'
  BY <1>0 DEF KeyBehind
<1>1. ASSUME NEW x \in Members, NEW y \in Members, Request(x, y) PROVE p \in keys'
  <2>1. \A t \in Tasks : running'[t] > 0 => t \in {<<"needed", x, y>>} \/ running[t] > 0
    BY <1>1, Started DEF Request
  <2> QED BY <1>0, <1>1, <2>1 DEF Request, TypeOK, Pairs
<1>2. ASSUME NEW x \in Members, NEW y \in Members, SendNeeded(x, y) \/ Record(x, y)
      PROVE  p \in keys'
  <2>1. \A t \in Tasks : running'[t] > 0 => running[t] > 0
    <3>1. CASE SendNeeded(x, y)
      BY <3>1, Finished DEF SendNeeded
    <3>2. CASE Record(x, y)
      BY <3>2, Finished DEF Record
    <3> QED BY <1>2, <3>1, <3>2
  <2> QED BY <1>0, <1>2, <2>1 DEF SendNeeded, Record
<1>3. ASSUME NEW x \in Members, NEW y \in Members, SendReady(x, y) PROVE p \in keys'
  <2>1. /\ running[<<"ready", x, y>>] > 0
        /\ \A t \in Tasks : running'[t] > 0 => t = <<"mark", x, y>> \/ running[t] > 0
    BY <1>3, Replaced DEF SendReady
  <2>2. y \in keys
    BY <2>1 DEF KeyBehind
  <2> QED BY <1>0, <1>3, <2>1, <2>2 DEF SendReady
<1>4. ASSUME NEW x \in Members, NEW y \in Members, MarkFulfilled(x, y) PROVE p \in keys'
  <2>1. /\ running[<<"mark", x, y>>] > 0
        /\ \A t \in Tasks : running'[t] > 0 => running[t] > 0
    BY <1>4, Finished DEF MarkFulfilled
  <2>2. y \in keys
    BY <2>1 DEF KeyBehind
  <2>3. req'[<<r, p>>] = "fulfilled" => req[<<r, p>>] = "fulfilled" \/ p = y
    BY <1>4 DEF MarkFulfilled, TypeOK, Pairs
  <2> QED BY <1>0, <1>4, <2>1, <2>2, <2>3 DEF MarkFulfilled
<1>5. ASSUME NEW y \in Members, Upload(y) PROVE p \in keys'
  <2>1. \A t \in Tasks : running'[t] > 0 => t = <<"upload", y, y>> \/ running[t] > 0
    BY <1>5, Started DEF Upload
  <2> QED BY <1>0, <1>5, <2>1 DEF Upload
<1>6. ASSUME NEW y \in Members, GetSenderKeys(y) PROVE p \in keys'
  <2>1. \A t \in Tasks : running'[t] > 0 =>
            t \in {<<"record", y, x>> : x \in (keys \cap Roommates(y)) \ {y}} \/ running[t] > 0
    BY <1>6, Started DEF GetSenderKeys
  <2>2. \A k \in Closing : running'[<<k, r, p>>] > 0 => running[<<k, r, p>>] > 0
    BY <2>1
  <2> QED BY <1>0, <1>6, <2>2 DEF GetSenderKeys
<1>7. ASSUME NEW y \in Members, HookFind(y) PROVE p \in keys'
  <2>1. \A t \in Tasks : running'[t] > 0 =>
            t \in {<<"needed", x, y>> : x \in Pending(y)} \/ running[t] > 0
    BY <1>7, Replaced DEF HookFind
  <2>2. \A k \in Closing : running'[<<k, r, p>>] > 0 => running[<<k, r, p>>] > 0
    BY <2>1
  <2> QED BY <1>0, <1>7, <2>2 DEF HookFind
<1>8. ASSUME NEW y \in Members, UploadFind(y) PROVE p \in keys'
  <2>1. /\ running[<<"upload", y, y>>] > 0
        /\ \A t \in Tasks : running'[t] > 0 =>
              t \in {<<"ready", x, y>> : x \in Pending(y)} \/ running[t] > 0
    BY <1>8, Replaced DEF UploadFind
  <2>2. y \in keys
    BY <2>1 DEF KeyBehind
  <2>3. \A k \in Closing : running'[<<k, r, p>>] > 0 => running[<<k, r, p>>] > 0 \/ p = y
    BY <2>1
  <2> QED BY <1>0, <1>8, <2>2, <2>3 DEF UploadFind
<1>9. ASSUME NEW z \in Conns, Connect(z) PROVE p \in keys'
  <2>1. \A t \in Tasks : running'[t] > 0 =>
            t \in {<<"hook", m, m>> : m \in {n \in Members : UserOf[n] = Owner[z]}} \/ running[t] > 0
    BY <1>9, Started DEF Connect
  <2>2. \A k \in Closing : running'[<<k, r, p>>] > 0 => running[<<k, r, p>>] > 0
    BY <2>1
  <2> QED BY <1>0, <1>9, <2>2 DEF Connect
<1>10. ASSUME NEW z \in Conns, Disconnect(z) PROVE p \in keys'
  BY <1>0, <1>10 DEF Disconnect
<1>11. ASSUME NEW t \in Tasks, TaskFails(t) PROVE p \in keys'
  <2>1. \A x \in Tasks : running'[x] > 0 => running[x] > 0
    BY <1>11, Finished DEF TaskFails
  <2> QED BY <1>0, <1>11, <2>1 DEF TaskFails
<1>12. CASE Crash
  <2>1. \A t \in Tasks : ~(running'[t] > 0)
    BY <1>12 DEF Crash
  <2> QED BY <1>0, <1>12, <2>1 DEF Crash
<1>13. CASE UNCHANGED vars
  BY <1>0, <1>13 DEF vars
<1> QED
  BY <1>1, <1>2, <1>3, <1>4, <1>5, <1>6, <1>7, <1>8, <1>9, <1>10, <1>11, <1>12, <1>13
  DEF Next, PairTask, MemberTask

\* fetched only grows; a recording task is started with the fetch.
LEMMA FetchBehindStep == IInv /\ [Next]_vars => FetchBehind'
<1> SUFFICES ASSUME TypeOK, FetchBehind, [Next]_vars, NEW r \in Members, NEW s \in Members,
                    <<r, s>> \in dist' \/ running'[<<"record", r, s>>] > 0
             PROVE  <<r, s>> \in fetched'
  BY DEF IInv, FetchBehind
<1> DEFINE t0 == <<"record", r, s>>
<1> USE TaskNames
<1>t. t0 \in Tasks
  OBVIOUS
<1>0. ASSUME fetched' = fetched, dist' = dist, running'[t0] > 0 => running[t0] > 0
      PROVE  <<r, s>> \in fetched'
  BY <1>0 DEF FetchBehind
<1>1. ASSUME NEW x \in Members, NEW y \in Members, Request(x, y) PROVE <<r, s>> \in fetched'
  <2>1. running'[t0] > 0 => t0 \in {<<"needed", x, y>>} \/ running[t0] > 0
    BY <1>1, <1>t, Started DEF Request
  <2> QED BY <1>0, <1>1, <2>1 DEF Request
<1>2. ASSUME NEW x \in Members, NEW y \in Members,
             SendNeeded(x, y) \/ SendReady(x, y) \/ MarkFulfilled(x, y)
      PROVE  <<r, s>> \in fetched'
  <2>1. running'[t0] > 0 => t0 \in {<<"mark", x, y>>} \/ running[t0] > 0
    <3>1. CASE SendNeeded(x, y)
      BY <1>t, <3>1, Finished DEF SendNeeded
    <3>2. CASE SendReady(x, y)
      BY <1>t, <3>2, Replaced DEF SendReady
    <3>3. CASE MarkFulfilled(x, y)
      BY <1>t, <3>3, Finished DEF MarkFulfilled
    <3> QED BY <1>2, <3>1, <3>2, <3>3
  <2> QED BY <1>0, <1>2, <2>1 DEF SendNeeded, SendReady, MarkFulfilled
<1>3. ASSUME NEW x \in Members, NEW y \in Members, Record(x, y) PROVE <<r, s>> \in fetched'
  <2>1. running[<<"record", x, y>>] > 0 /\ (running'[t0] > 0 => running[t0] > 0)
    BY <1>3, <1>t, Finished DEF Record
  <2>2. <<x, y>> \in fetched
    BY <2>1 DEF FetchBehind
  <2> QED BY <1>3, <2>1, <2>2 DEF Record, FetchBehind
<1>4. ASSUME NEW y \in Members, Upload(y) PROVE <<r, s>> \in fetched'
  <2>1. running'[t0] > 0 => t0 \in {<<"upload", y, y>>} \/ running[t0] > 0
    BY <1>4, <1>t, Started DEF Upload
  <2> QED BY <1>0, <1>4, <2>1 DEF Upload
<1>5. ASSUME NEW y \in Members, GetSenderKeys(y) PROVE <<r, s>> \in fetched'
  <2>1. running'[t0] > 0 =>
            t0 \in {<<"record", y, x>> : x \in (keys \cap Roommates(y)) \ {y}} \/ running[t0] > 0
    BY <1>5, <1>t, Started DEF GetSenderKeys
  <2>2. fetched' = fetched \cup {<<y, x>> : x \in keys \cap Roommates(y)} /\ dist' = dist
    BY <1>5 DEF GetSenderKeys
  <2> QED BY <2>1, <2>2 DEF FetchBehind
<1>6. ASSUME NEW y \in Members, HookFind(y) \/ UploadFind(y) PROVE <<r, s>> \in fetched'
  <2>1. running'[t0] > 0 =>
            \/ t0 \in {<<"needed", x, y>> : x \in Pending(y)}
            \/ t0 \in {<<"ready", x, y>> : x \in Pending(y)}
            \/ running[t0] > 0
    BY <1>6, <1>t, Replaced DEF HookFind, UploadFind
  <2> QED BY <1>0, <1>6, <2>1 DEF HookFind, UploadFind
<1>7. ASSUME NEW z \in Conns, Connect(z) PROVE <<r, s>> \in fetched'
  <2>1. running'[t0] > 0 =>
            t0 \in {<<"hook", m, m>> : m \in {n \in Members : UserOf[n] = Owner[z]}} \/ running[t0] > 0
    BY <1>7, Started DEF Connect
  <2> QED BY <1>0, <1>7, <2>1 DEF Connect
<1>8. ASSUME NEW z \in Conns, Disconnect(z) PROVE <<r, s>> \in fetched'
  BY <1>0, <1>8 DEF Disconnect
<1>9. ASSUME NEW t \in Tasks, TaskFails(t) PROVE <<r, s>> \in fetched'
  <2>1. running'[t0] > 0 => running[t0] > 0
    BY <1>9, <1>t, Finished DEF TaskFails
  <2> QED BY <1>0, <1>9, <2>1 DEF TaskFails
<1>10. CASE Crash
  <2>1. ~(running'[t0] > 0)
    BY <1>10, <1>t DEF Crash
  <2> QED BY <1>0, <1>10, <2>1 DEF Crash
<1>11. CASE UNCHANGED vars
  BY <1>0, <1>11 DEF vars
<1> QED
  BY <1>1, <1>2, <1>3, <1>4, <1>5, <1>6, <1>7, <1>8, <1>9, <1>10, <1>11
  DEF Next, PairTask, MemberTask

-----------------------------------------------------------------------------
\* The inductive invariant holds in every state: goroutines that close requests
\* or record fetches always have an upload or a fetch behind them.
THEOREM Invariance == Spec => []IInv
<1>1. IInv /\ [Next]_vars => IInv'
  BY TypeStep, NoMissedStep, NoForgottenStep, KeyBehindStep, FetchBehindStep DEF IInv
<1> QED BY <1>1, IInvInit, PTL DEF Spec

\* No request falls between a provider that is online and one that is offline: each of
\* his connections is sent it, or a send of it missed that connection, or a goroutine
\* that will send it is running (CreateSenderKeyRequest, Hub.Run and its onConnect hook).
THEOREM RequestsReachProviders == Spec => []NoMissedRequest
BY Invariance, PTL DEF IInv

\* A request that waits when its provider's key is added is closed, or a
\* goroutine is on its way to it, unless one was lost (UploadSenderKey,
\* notifyRequesters).
THEOREM UploadsAnswerRequests == Spec => []NoForgottenRequest
BY Invariance, PTL DEF IInv

\* A request is closed only once its provider has a key (UploadSenderKey,
\* notifyRequesters, MarkFulfilled).
THEOREM ClosedOnlyWithKey == Spec => []FulfilledHasKey
<1>1. IInv => FulfilledHasKey
  <2> SUFFICES ASSUME KeyBehind, NEW q \in Pairs, req[q] = "fulfilled" PROVE q[2] \in keys
    BY DEF IInv, FulfilledHasKey
  <2>1. q[1] \in Members /\ q[2] \in Members /\ q = <<q[1], q[2]>>
    BY DEF Pairs
  <2> QED BY <2>1 DEF KeyBehind
<1> QED BY <1>1, Invariance, PTL

\* The distribution status never reports a key as fetched that was not
\* (GetSenderKeys, recordDistributions, GetSenderKeyDistributionStatus).
THEOREM StatusIsHonest == Spec => []NeverFalselyFetched
<1>1. IInv => NeverFalselyFetched
  <2> SUFFICES ASSUME TypeOK, FetchBehind, NEW s \in keys, NEW r \in Roommates(s) \ {s},
                      <<r, s>> \notin fetched
               PROVE  r \in PendingReceivers(s) /\ s \in PendingFromMembers(r)
    BY DEF IInv, NeverFalselyFetched
  <2>1. s \in Members /\ r \in Members /\ <<r, s>> \notin dist
    BY DEF TypeOK, Roommates, FetchBehind
  <2>2. r \in FindPendingReceivers(s) /\ s \in Roommates(r) \ {r}
    BY <2>1 DEF FindPendingReceivers, Roommates
  <2> QED BY <2>2 DEF PendingReceivers, PendingFromMembers
<1> QED BY <1>1, Invariance, PTL
=============================================================================
