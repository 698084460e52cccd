-------------------------------- MODULE Http --------------------------------
(***************************************************************************)
(* The pipeline of an HTTP request (internal/bootstrap/rest.go and ws.go,  *)
(* internal/interface/http/middleware): global rate limit, rate limit of   *)
(* the client's address, session lookup, the check that a route requires   *)
(* a session, the handler.  Requests run concurrently; each Redis command  *)
(* is a step.  A pipeline of commands is one step: Redis runs it without   *)
(* others in between when it arrives in one piece.                         *)
(*                                                                         *)
(* The session cache is abstracted to the set of access tokens it holds    *)
(* (see Session for the keys and rows behind it).  A request's route and   *)
(* the outcome of its use case are chosen when they first matter.          *)
(***************************************************************************)
EXTENDS Integers, FiniteSets, Routes

CONSTANTS
    Requests,        \* requests served at the same time
    IPs,          \* client addresses
    Tokens,       \* access tokens
    GlobalLimit, GlobalWindow,   \* globalPolicy
    IPLimit, IPWindow,           \* ipPolicy
    MaxRequests,  \* bound: requests received altogether
    MaxClock      \* bound: the clock, in units of the timestamps' resolution

ASSUME HttpAssumption ==
    /\ {GlobalLimit, GlobalWindow, IPLimit, IPWindow, MaxRequests, MaxClock} \subseteq Nat
    /\ IsFiniteSet(Requests)

VARIABLES
    clock,
    global,   \* the sorted set rate_limit:global: [stamps, until]
    ip,       \* rate_limit:ip:<ip>: [count, until] of each address; until: TTL
    cached,   \* tokens in the session cache
    issued,   \* tokens issued so far
    req,      \* requests in progress
    received, \* requests received so far
    through,  \* history: timestamps of requests received, and let through by
              \* CheckGlobal, within the window that ends now
    ipThrough,\* history: <<ip, time, number>> of those CheckIP let through
    out,      \* history: tokens whose logout was answered with success
    kept      \* history: tokens that may have outlived their logout: a lookup had
              \* read the session and was about to write it back, or Redis failed

limits == <<global, ip>>
sessions == <<cached, issued>>
history == <<through, ipThrough, out, kept>>
httpVars == <<clock, limits, sessions, req, received, history>>

Nothing == "none"
Idle == [pc |-> "idle", api |-> TRUE, ip |-> Nothing, stamp |-> 0, tok |-> Nothing, late |-> FALSE,
             auth |-> FALSE, need |-> FALSE, ran |-> Nothing, success |-> FALSE]

Proceed(c, pc) == req' = [req EXCEPT ![c].pc = pc]

\* The request is answered: its use case ran (ok, err) or did not (Nothing), on a
\* route that needs a session or not; of the statuses it may be answered with the
\* client sees whether it is a success.
Answer(c, need, ran, statuses) ==
    \E success \in {(status \in Success) : status \in statuses} :
        req' = [req EXCEPT ![c].pc = "answered", ![c].ip = Nothing, ![c].stamp = 0,
                             ![c].need = need, ![c].ran = ran, ![c].success = success]

Quit(c) ==
    /\ req[c].pc = "answered"
    /\ req' = [req EXCEPT ![c] = Idle]
    /\ UNCHANGED <<clock, limits, sessions, received, history>>

\* A request arrives, and CheckGlobal takes the time.
Receive(c, rec) ==
    /\ req[c].pc = "idle" /\ received < MaxRequests
    /\ received' = received + 1
    /\ req' = [req EXCEPT ![c] = rec]
    /\ UNCHANGED <<clock, limits, sessions, history>>

Request(c, addr, tok) ==
    Receive(c, [Idle EXCEPT !.pc = "global", !.ip = addr, !.stamp = clock, !.tok = tok,
                                !.late = tok \in out])

\* The WebSocket endpoint has no rate limit.
Connect(c, tok) ==
    Receive(c, [Idle EXCEPT !.pc = "auth", !.api = FALSE, !.tok = tok, !.late = tok \in out])

-----------------------------------------------------------------------------
\* Rate limits

Live(key) == clock < key.until

\* The timestamps of the window that ends at t.
InWindow(stamps, t) == {m \in stamps : m > t - GlobalWindow}

\* Mutant: the request is counted before it is added.
IncrementSliding_CountFirst(stamp) ==
    LET older == InWindow(IF Live(global) THEN global.stamps ELSE {}, stamp) IN
    [stamps |-> older \cup {stamp}, until |-> clock + GlobalWindow, count |-> Cardinality(older)]

\* Drop what is older than the window, add this request under its timestamp,
\* count, set the TTL.  Two requests with one timestamp are one member.
IncrementSliding(stamp) ==
    LET members == InWindow(IF Live(global) THEN global.stamps ELSE {}, stamp) \cup {stamp}
    IN [stamps |-> members, until |-> clock + GlobalWindow, count |-> Cardinality(members)]

\* CheckGlobal; a request that is refused has been added as well.
CheckGlobal(c) ==
    LET now == IncrementSliding(req[c].stamp) IN
    /\ req[c].pc = "global"
    /\ global' = [stamps |-> now.stamps, until |-> now.until]
    /\ IF now.count > GlobalLimit
       THEN Answer(c, FALSE, Nothing, {statusFromCode.RATE_LIMIT_EXCEEDED}) /\ UNCHANGED through
       ELSE Proceed(c, "ipGet") /\ through' = through \cup InWindow({req[c].stamp}, clock)
    /\ UNCHANGED <<clock, ip, sessions, received, ipThrough, out, kept>>

Get(key) == IF Live(key) THEN key.count ELSE 0
Increment(key) == [count |-> Get(key) + 1, until |-> clock + IPWindow]

\* CheckIP: read the counter and compare ...
CheckIP(c) ==
    /\ req[c].pc = "ipGet"
    /\ IF Get(ip[req[c].ip]) > IPLimit
       THEN Answer(c, FALSE, Nothing, {statusFromCode.RATE_LIMIT_EXCEEDED})
       ELSE Proceed(c, "ipIncr")
    /\ UNCHANGED <<clock, limits, sessions, received, history>>

\* The requests of the window that ends at t.
InIPWindow(entries, t) == {p \in entries : p[2] > t - IPWindow}

\* ... then increment it and renew its TTL.
CheckIPIncrement(c) ==
    LET addr == req[c].ip IN
    /\ req[c].pc = "ipIncr"
    /\ ip' = [ip EXCEPT ![addr] = Increment(@)]
    /\ ipThrough' = ipThrough \cup InIPWindow({<<addr, clock, Cardinality(ipThrough)>>}, clock)
    /\ req' = [req EXCEPT ![c].pc = "auth", ![c].ip = Nothing, ![c].stamp = 0]
    /\ UNCHANGED <<clock, global, sessions, received, through, out, kept>>

\* When Redis fails, the request is refused as if the limit were exceeded.  The
\* commands may have run all the same; if EXPIRE has not, a new counter has no TTL.
CheckFails(c) ==
    LET addr == req[c].ip
        key == ip[addr]
        partly == [count |-> Get(key) + 1, until |-> IF Live(key) THEN key.until ELSE MaxClock + 1]
    IN
    /\ \/ req[c].pc = "global" /\ UNCHANGED limits
       \/ /\ req[c].pc = "global"
          /\ LET now == IncrementSliding(req[c].stamp)
             IN global' = [stamps |-> now.stamps, until |-> now.until]
          /\ UNCHANGED ip
       \/ req[c].pc = "ipGet" /\ UNCHANGED limits
       \/ /\ req[c].pc = "ipIncr"
          /\ \E k \in {key, partly, Increment(key)} : ip' = [ip EXCEPT ![addr] = k]
          /\ UNCHANGED global
    /\ Answer(c, FALSE, Nothing, {statusFromCode.RATE_LIMIT_EXCEEDED})
    /\ UNCHANGED <<clock, sessions, received, history>>

-----------------------------------------------------------------------------
\* AuthMiddleware never refuses: without a valid session the request goes on
\* without an AuthContext.

\* FindByToken: read the session ...
AuthMiddleware(c) ==
    /\ req[c].pc = "auth"
    /\ Proceed(c, IF req[c].tok \in cached THEN "slide" ELSE "route")
    /\ UNCHANGED <<clock, limits, sessions, received, history>>

\* ... and write it back with a new expiry; then the device must be the session's
\* and the user must be found (valid).
AuthSlide(c, valid) ==
    /\ req[c].pc = "slide"
    /\ cached' = cached \cup {req[c].tok}
    /\ req' = [req EXCEPT ![c].pc = "route", ![c].auth = valid]
    /\ UNCHANGED <<clock, limits, issued, received, history>>

\* No token, or Redis fails: no session.
AuthFails(c) ==
    /\ req[c].pc \in {"auth", "slide"}
    /\ Proceed(c, "route")
    /\ UNCHANGED <<clock, limits, sessions, received, history>>

-----------------------------------------------------------------------------
\* Handlers

RoutesOf(c) == IF req[c].api THEN RegisterRestRoutes ELSE {websocket}

\* RequireAuthMiddleware: on a route that requires one, is there an AuthContext?
RequireAuth(c, r) == r.auth => req[c].auth

Unauthorized(c, r) ==
    /\ req[c].pc = "route" /\ ~RequireAuth(c, r)
    /\ Answer(c, r.auth, Nothing, {401})
    /\ UNCHANGED <<clock, limits, sessions, received, history>>

\* The handlers are alike, createRoom's is the one mapped: it binds the body (or the
\* query, or nothing: then r.bad is empty), runs the use case, and answers with the
\* route's statuses.
BadInput(c, r) ==
    /\ req[c].pc = "route" /\ RequireAuth(c, r)
    /\ Answer(c, r.auth, Nothing, r.bad)
    /\ UNCHANGED <<clock, limits, sessions, received, history>>

\* The use case runs and its result or its error is answered; login and logout
\* are below.
Serve(c, r, ran) ==
    /\ req[c].pc = "route" /\ RequireAuth(c, r) /\ r.does = "other"
    /\ Answer(c, r.auth, ran, IF ran = "ok" THEN r.ok ELSE r.err)
    /\ UNCHANGED <<clock, limits, sessions, received, history>>

\* Login: a session with a new token is cached.  If the login fails after that,
\* the entry stays under a token that nobody was given.
Login(c, tok, ran) ==
    /\ req[c].pc = "route" /\ RequireAuth(c, login) /\ login \in RoutesOf(c)
    /\ Answer(c, login.auth, ran, IF ran = "ok" THEN login.ok ELSE login.err)
    /\ IF ran = "ok"
       THEN tok \notin issued /\ cached' = cached \cup {tok} /\ issued' = issued \cup {tok}
       ELSE UNCHANGED sessions
    /\ UNCHANGED <<clock, limits, received, history>>

\* Another request has read the session and not yet written it back.
HeldElsewhere(c, tok) == \E d \in Requests \ {c} : req[d].pc = "slide" /\ req[d].tok = tok

LoggedOut(c) ==
    /\ Answer(c, logout.auth, "ok", logout.ok)
    /\ out' = out \cup {req[c].tok}

\* Logout: Revoke reads the session.  If there is none, or the read fails, the
\* answer is success.
Logout(c, fails) ==
    LET tok == req[c].tok IN
    /\ req[c].pc = "route" /\ RequireAuth(c, logout) /\ logout \in RoutesOf(c)
    /\ IF fails \/ tok \notin cached
       THEN /\ LoggedOut(c)
            /\ kept' = IF fails \/ HeldElsewhere(c, tok) THEN kept \cup {tok} ELSE kept
       ELSE Proceed(c, "revoke") /\ UNCHANGED <<out, kept>>
    /\ UNCHANGED <<clock, limits, sessions, received, through, ipThrough>>

\* Mutant: only the key session:id is deleted.
LogoutDelete_IdOnly(c) ==
    /\ req[c].pc = "revoke"
    /\ kept' = IF HeldElsewhere(c, req[c].tok) THEN kept \cup {req[c].tok} ELSE kept
    /\ LoggedOut(c)
    /\ UNCHANGED <<clock, limits, sessions, received, through, ipThrough>>

\* Revoke deletes it.
LogoutDelete(c) ==
    LET tok == req[c].tok IN
    /\ req[c].pc = "revoke"
    /\ cached' = cached \ {tok}
    /\ kept' = IF HeldElsewhere(c, tok) THEN kept \cup {tok} ELSE kept
    /\ LoggedOut(c)
    /\ UNCHANGED <<clock, limits, issued, received, through, ipThrough>>

LogoutFails(c) ==
    /\ req[c].pc = "revoke"
    /\ Answer(c, logout.auth, "err", logout.err)
    /\ UNCHANGED <<clock, limits, sessions, received, history>>

-----------------------------------------------------------------------------
Tick ==
    /\ clock < MaxClock
    /\ clock' = clock + 1
    /\ through' = InWindow(through, clock')
    /\ ipThrough' = InIPWindow(ipThrough, clock')
    /\ UNCHANGED <<limits, sessions, req, received, out, kept>>

\* The TTL of a cached session runs out.
ExpireCached(tok) ==
    /\ tok \in cached
    /\ cached' = cached \ {tok}
    /\ UNCHANGED <<clock, limits, issued, req, received, history>>

HttpInit ==
    /\ clock = 0
    /\ global = [stamps |-> {}, until |-> 0]
    /\ ip = [a \in IPs |-> [count |-> 0, until |-> 0]]
    /\ cached \in SUBSET Tokens /\ issued = cached
    /\ req = [c \in Requests |-> Idle]
    /\ received = 0
    /\ through = {} /\ ipThrough = {} /\ out = {} /\ kept = {}

Middleware(c) ==
    \/ \E tok \in Tokens : Connect(c, tok) \/ \E addr \in IPs : Request(c, addr, tok)
    \/ CheckGlobal(c) \/ CheckIP(c) \/ CheckIPIncrement(c) \/ CheckFails(c)
    \/ AuthMiddleware(c) \/ AuthFails(c)
    \/ \E valid \in BOOLEAN : AuthSlide(c, valid)
    \/ Quit(c)

Handler(c) ==
    \/ \E r \in RoutesOf(c) :
          Unauthorized(c, r) \/ BadInput(c, r) \/ \E ran \in {"ok", "err"} : Serve(c, r, ran)
    \/ \E tok \in Tokens, ran \in {"ok", "err"} : Login(c, tok, ran)
    \/ \E fails \in BOOLEAN : Logout(c, fails)
    \/ LogoutDelete(c) \/ LogoutFails(c)

HttpNext == Tick \/ (\E tok \in Tokens : ExpireCached(tok)) \/ \E c \in Requests : Middleware(c) \/ Handler(c)

HttpSpec == HttpInit /\ [][HttpNext]_httpVars

-----------------------------------------------------------------------------
\* Properties

\* A request: where it is, what it came with, and how it was answered.
Serving == [pc : {"idle", "global", "ipGet", "ipIncr", "auth", "slide", "route", "revoke", "answered"},
            api : BOOLEAN, ip : IPs \cup {Nothing}, stamp : Nat, tok : Tokens \cup {Nothing},
            late : BOOLEAN, auth : BOOLEAN, need : BOOLEAN, ran : {Nothing, "ok", "err"},
            success : BOOLEAN]

\* The Redis keys, the session cache, the requests and the histories have their
\* types (rate_limit_cache_repo.go, session_manager.go, the middleware).
HttpTypeOK ==
    /\ clock \in Nat /\ received \in Nat
    /\ global \in [stamps : SUBSET Nat, until : Nat]
    /\ ip \in [IPs -> [count : Nat, until : Nat]]
    /\ cached \subseteq Tokens /\ issued \subseteq Tokens
    /\ req \in [Requests -> Serving]
    /\ through \subseteq Nat /\ ipThrough \subseteq IPs \X Nat \X Nat
    /\ out \subseteq Tokens /\ kept \subseteq Tokens

\* However requests interleave, within the length of a window no more requests
\* get past the rate limits than they are set to: those received and checked in
\* it have at most GlobalLimit different timestamps, and of one address there are
\* at most IPLimit plus the number of concurrent requests, because its counter
\* is read before it is incremented.
WithinLimits ==
    /\ Cardinality(through) <= GlobalLimit
    /\ \A a \in IPs :
          Cardinality({p \in ipThrough : p[1] = a}) <= IPLimit + Cardinality(Requests)

\* The answer tells the truth: a success means that the use case ran and
\* succeeded, any other status that it did not; and no use case of a protected
\* route runs for a request without a session, nor for one that arrives after its
\* token was logged out, unless the logout met a failure of Redis or a lookup that
\* wrote the session back.
ServedAsAnswered ==
    \A c \in Requests : req[c].pc = "answered" =>
        /\ req[c].success <=> req[c].ran = "ok"
        /\ req[c].need /\ req[c].ran # Nothing =>
              req[c].auth /\ (req[c].late => req[c].tok \in kept)
=============================================================================
