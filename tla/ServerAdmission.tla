--------------------------- MODULE ServerAdmission ---------------------------
(***************************************************************************)
(* The COGANT HTTP service (cogant/server/app.py): the observability       *)
(* middleware with its header and body checks, authentication, sliding     *)
(* window rate limiter, concurrency semaphore, dispatch timeout and        *)
(* request counters; the route handlers; and the default thread pool on    *)
(* which the handlers run the pipeline (asyncio.to_thread).                *)
(*                                                                         *)
(* Event loop code between two awaits is one action.  A request has a      *)
(* middleware part (mw) and a handler task (hd) that call_next starts: a   *)
(* dispatch timeout ends the first and not the second.                     *)
(***************************************************************************)
EXTENDS Integers, Sequences, FiniteSets

CONSTANTS
  Requests,        \* identities of the requests the clients send
  Clients,         \* client addresses
  Routes,          \* registered route paths
  OtherPath,       \* a path no route is registered for
  RateLimited,     \* rate_limited_paths
  Unlimited,       \* unlimited_paths
  WorkRoutes,      \* routes whose handler runs work on the thread pool
  AuthRequired,    \* TRUE iff an auth token is configured
  MaxRequests,     \* rate_limit_requests
  Window,          \* rate_limit_window_s, in ticks
  MaxConcurrent,   \* max_concurrent_requests
  Timeout,         \* request_timeout_s, in ticks
  Workers,         \* threads of the default executor
  LastArrival,     \* bound: no request arrives after this tick
  None             \* Python's None

Paths == Routes \cup {OtherPath}
Unmatched == "<unmatched>"
Labels == Routes \cup {Unmatched}
Statuses == {200, 400, 401, 404, 413, 429, 500, 503, 504}

(* create_app rejects any limit below one and any timeout or window that   *)
(* is not positive.                                                        *)
ASSUME AdmissionAssumption ==
  /\ MaxRequests \in Nat \ {0}
  /\ Window \in Nat \ {0}
  /\ MaxConcurrent \in Nat \ {0}
  /\ Timeout \in Nat \ {0}
  /\ Workers \in Nat \ {0}
  /\ LastArrival \in Nat
  /\ AuthRequired \in BOOLEAN
  /\ IsFiniteSet(Requests)
  /\ Unmatched \notin Routes /\ OtherPath \notin Routes
  /\ None \notin Statuses \cup Nat \cup [client : Clients, path : Paths]

VARIABLES
  now,           \* time.monotonic(), in ticks
  mw,            \* middleware: "idle", "reading", "waiting", "answered"
  hd,            \* handler: "none", "running", "pooled", "finished"
  from,          \* the client and path of a request that has arrived
  status,        \* the status the client was answered, None before
  spentAt,       \* history: when the limiter charged the request, or None
  startedAt,     \* when wait_for started its clock, or None
  history,       \* _RateLimiter._history
  sem,           \* value of request_semaphore
  activeSessions,\* app.state.active_sessions
  requests,      \* _MetricsStore.requests
  durationCount, \* _MetricsStore.duration_count
  errors,        \* _MetricsStore.errors
  rateLimited,   \* _MetricsStore.rate_limited
  queue,         \* work items waiting for a thread
  running        \* work items on a thread

meters == <<requests, durationCount, errors, rateLimited>>
pool   == <<queue, running>>
gate   == <<sem, activeSessions>>
Others == <<now, mw, from, status, spentAt, startedAt, history, gate, meters>>
vars   == <<Others, hd, pool>>

Keys == Clients \X Paths      \* f"{client_host}:{path}"

Init ==
  /\ now = 0
  /\ mw = [r \in Requests |-> "idle"]
  /\ hd = [r \in Requests |-> "none"]
  /\ from = [r \in Requests |-> None]
  /\ status = [r \in Requests |-> None]
  /\ spentAt = [r \in Requests |-> None]
  /\ startedAt = [r \in Requests |-> None]
  /\ history = <<>>
  /\ sem = MaxConcurrent
  /\ activeSessions = 0
  /\ requests = [ls \in Labels \X Statuses |-> 0]
  /\ durationCount = [l \in Labels |-> 0]
  /\ errors = [l \in Labels |-> 0]
  /\ rateLimited = [l \in Labels |-> 0]
  /\ queue = <<>>
  /\ running = {}

-----------------------------------------------------------------------------
(* Metrics *)

Label(path) == IF path \in Routes THEN path ELSE Unmatched

(* Mutant: a 500 is not counted as an error.                               *)
RecordMissing500(path, s) ==
  LET l == Label(path) IN
  /\ requests' = [requests EXCEPT ![<<l, s>>] = @ + 1]
  /\ durationCount' = [durationCount EXCEPT ![l] = @ + 1]
  /\ errors' = IF s > 500 THEN [errors EXCEPT ![l] = @ + 1] ELSE errors

Record(path, s) ==
  LET l == Label(path) IN
  /\ requests' = [requests EXCEPT ![<<l, s>>] = @ + 1]
  /\ durationCount' = [durationCount EXCEPT ![l] = @ + 1]
  /\ errors' = IF s >= 500 THEN [errors EXCEPT ![l] = @ + 1] ELSE errors

(* The middleware returns a response: it is metered in the same step.      *)
Answer(r, path, s) ==
  /\ mw' = [mw EXCEPT ![r] = "answered"]
  /\ status' = [status EXCEPT ![r] = s]
  /\ Record(path, s)

-----------------------------------------------------------------------------
(* Rate limiter: timestamps of one key, oldest first. *)

Hits(key) == IF key \in DOMAIN history THEN history[key] ELSE <<>>

(* while bucket and bucket[0] < window_start: bucket.popleft()             *)
Pruned(hits) ==
  LET fresh == {i \in DOMAIN hits : hits[i] >= now - Window}
      first == CHOOSE i \in fresh : \A j \in fresh : i <= j
  IN  IF fresh = {} THEN <<>> ELSE SubSeq(hits, first, Len(hits))

(* Mutant: one hit too many.                                               *)
AllowsOneMore(key) == Len(Pruned(Hits(key))) <= MaxRequests

Allows(key) == Len(Pruned(Hits(key))) < MaxRequests

SetHits(key, hits) ==
  history' = [k \in DOMAIN history \cup {key} |->
                IF k = key THEN hits ELSE history[k]]

(* check(): the allowed branch records the hit, the other only prunes.     *)
Charge(r, key) ==
  /\ Allows(key)
  /\ SetHits(key, Append(Pruned(Hits(key)), now))
  /\ spentAt' = [spentAt EXCEPT ![r] = now]

Throttle(key) ==
  /\ ~Allows(key)
  /\ SetHits(key, Pruned(Hits(key)))

PassLimiter(r) ==
  IF from[r].path \in RateLimited
  THEN Charge(r, <<from[r].client, from[r].path>>)
  ELSE UNCHANGED <<history, spentAt>>

-----------------------------------------------------------------------------
(* Middleware *)

Gated(path) == path \in RateLimited \ Unlimited

(* The header checks; a request that passes them starts to send its body.  *)
Arrive(r, c, p) ==
  /\ mw[r] = "idle" /\ now <= LastArrival
  /\ from' = [from EXCEPT ![r] = [client |-> c, path |-> p]]
  /\ \/ \E s \in {400, 413} : Answer(r, p, s)
     \/ mw' = [mw EXCEPT ![r] = "reading"] /\ UNCHANGED <<status, meters>>
  /\ UNCHANGED <<rateLimited, now, hd, spentAt, startedAt, history, gate, pool>>

BodyTooLarge(r) ==
  /\ mw[r] = "reading"
  /\ Answer(r, from[r].path, 413)
  /\ UNCHANGED <<rateLimited, now, hd, from, spentAt, startedAt, history, gate, pool>>

Unauthorized(r) ==
  /\ mw[r] = "reading"
  /\ AuthRequired /\ from[r].path \notin Unlimited
  /\ Answer(r, from[r].path, 401)
  /\ UNCHANGED <<rateLimited, now, hd, from, spentAt, startedAt, history, gate, pool>>

TooManyRequests(r) ==
  /\ mw[r] = "reading"
  /\ from[r].path \in RateLimited
  /\ Throttle(<<from[r].client, from[r].path>>)
  /\ rateLimited' = [rateLimited EXCEPT ![Label(from[r].path)] = @ + 1]
  /\ Answer(r, from[r].path, 429)
  /\ UNCHANGED <<now, hd, from, spentAt, startedAt, gate, pool>>

(* Mutant: the gate is asked before the limiter.                           *)
BusyUncharged(r) ==
  /\ mw[r] = "reading"
  /\ Gated(from[r].path) /\ sem = 0
  /\ Answer(r, from[r].path, 503)
  /\ UNCHANGED <<rateLimited, now, hd, from, spentAt, startedAt, history, gate, pool>>

(* Mutant: the last slot is never given out.                               *)
BusyTooSoon(r) ==
  /\ mw[r] = "reading"
  /\ PassLimiter(r)
  /\ Gated(from[r].path) /\ sem <= 1
  /\ Answer(r, from[r].path, 503)
  /\ UNCHANGED <<rateLimited, now, hd, from, startedAt, gate, pool>>

Busy(r) ==
  /\ mw[r] = "reading"
  /\ PassLimiter(r)
  /\ Gated(from[r].path) /\ sem = 0
  /\ Answer(r, from[r].path, 503)
  /\ UNCHANGED <<rateLimited, now, hd, from, startedAt, gate, pool>>

(* semaphore.acquire(), active_sessions += 1, wait_for(call_next(...)).    *)
Dispatch(r) ==
  /\ mw[r] = "reading"
  /\ PassLimiter(r)
  /\ IF Gated(from[r].path)
     THEN sem > 0 /\ sem' = sem - 1 /\ activeSessions' = activeSessions + 1
     ELSE UNCHANGED gate
  /\ mw' = [mw EXCEPT ![r] = "waiting"]
  /\ hd' = [hd EXCEPT ![r] = "running"]
  /\ startedAt' = [startedAt EXCEPT ![r] = now]
  /\ UNCHANGED <<now, from, status, meters, pool>>

(* Mutant: the gauge is not lowered.                                       *)
LeaveGaugeUp(r) ==
  IF Gated(from[r].path)
  THEN sem' = sem + 1 /\ UNCHANGED activeSessions
  ELSE UNCHANGED gate

(* The finally clause. *)
Leave(r) ==
  IF Gated(from[r].path)
  THEN sem' = sem + 1 /\ activeSessions' = activeSessions - 1
  ELSE UNCHANGED gate

(* call_next returned, or raised an exception the middleware turns into a  *)
(* 500, or a 504 if the work itself timed out: what a handler can answer   *)
(* depends on the route.  400 is the framework's, for a body that cannot be *)
(* read as text; 404 stands for the 403, 404, 405 and 422 of a path, method *)
(* or body that is refused.  The 413 of this try is never reached: the body *)
(* has been received before.                                               *)
Outcomes(path) ==
  IF path \in WorkRoutes THEN {200, 400, 404, 500, 504}
  ELSE IF path \in Routes THEN {200, 404, 500, 503}
  ELSE {404}

Complete(r, s) ==
  /\ mw[r] = "waiting" /\ hd[r] = "finished"
  /\ s \in Outcomes(from[r].path)
  /\ Answer(r, from[r].path, s)
  /\ Leave(r)
  /\ UNCHANGED <<rateLimited, now, hd, from, spentAt, startedAt, history, pool>>

(* Mutant: a handler that waits for a thread is not interrupted.           *)
TimeOutRunning(r) ==
  /\ mw[r] = "waiting" /\ hd[r] = "running"
  /\ now - startedAt[r] >= Timeout
  /\ Answer(r, from[r].path, 504)
  /\ Leave(r)
  /\ UNCHANGED <<rateLimited, now, hd, from, spentAt, startedAt, history, pool>>

(* wait_for raises TimeoutError: the handler task goes on without us.      *)
TimeOut(r) ==
  /\ mw[r] = "waiting"
  /\ now - startedAt[r] >= Timeout
  /\ Answer(r, from[r].path, 504)
  /\ Leave(r)
  /\ UNCHANGED <<rateLimited, now, hd, from, spentAt, startedAt, history, pool>>

-----------------------------------------------------------------------------
(* Handlers and the thread pool *)

(* A handler that answers without the pool: a probe, or a request whose    *)
(* body or path is refused.                                                *)
Reply(r) ==
  /\ hd[r] = "running"
  /\ hd' = [hd EXCEPT ![r] = "finished"]
  /\ UNCHANGED <<Others, pool>>

ToThread(r) ==
  /\ hd[r] = "running" /\ from[r].path \in WorkRoutes
  /\ hd' = [hd EXCEPT ![r] = "pooled"]
  /\ queue' = Append(queue, r)
  /\ UNCHANGED <<Others, running>>

(* Mutant: a thread per work item.                                         *)
StartWorkUnbounded ==
  /\ queue # <<>>
  /\ running' = running \cup {Head(queue)}
  /\ queue' = Tail(queue)
  /\ UNCHANGED <<Others, hd>>

StartWork ==
  /\ queue # <<>> /\ Cardinality(running) < Workers
  /\ running' = running \cup {Head(queue)}
  /\ queue' = Tail(queue)
  /\ UNCHANGED <<Others, hd>>

EndWork(r) ==
  /\ r \in running
  /\ running' = running \ {r}
  /\ hd' = [hd EXCEPT ![r] = "finished"]
  /\ UNCHANGED <<Others, queue>>

(* Time passes while a request may still arrive, a hit expire or a dispatch *)
(* time out.                                                               *)
Tick ==
  /\ \/ now <= LastArrival + Window
     \/ \E r \in Requests : mw[r] = "waiting" /\ now - startedAt[r] < Timeout
  /\ now' = now + 1
  /\ UNCHANGED <<mw, hd, from, status, spentAt, startedAt, history, gate,
                 meters, pool>>

Middleware(r) ==
  \/ BodyTooLarge(r) \/ Unauthorized(r) \/ TooManyRequests(r)
  \/ Busy(r) \/ Dispatch(r) \/ TimeOut(r)
  \/ \E s \in Statuses : Complete(r, s)

Next ==
  \/ \E r \in Requests :
       \/ \E c \in Clients, p \in Paths : Arrive(r, c, p)
       \/ Middleware(r) \/ Reply(r) \/ ToThread(r) \/ EndWork(r)
  \/ StartWork
  \/ Tick

Spec == Init /\ [][Next]_vars

(* Time passes and the event loop runs a timer that is due.  Nothing is    *)
(* assumed of clients, handlers or threads: a body may never end and a     *)
(* thread may never return.                                                *)
FairSpec ==
  Spec /\ WF_vars(Tick) /\ \A r \in Requests : WF_vars(TimeOut(r))

-----------------------------------------------------------------------------
(* Properties *)

(* Every variable has its type, and the pool never exceeds its threads.    *)
TypeOK ==
  /\ now \in Nat
  /\ mw \in [Requests -> {"idle", "reading", "waiting", "answered"}]
  /\ hd \in [Requests -> {"none", "running", "pooled", "finished"}]
  /\ from \in [Requests -> [client : Clients, path : Paths] \cup {None}]
  /\ status \in [Requests -> Statuses \cup {None}]
  /\ spentAt \in [Requests -> Nat \cup {None}]
  /\ startedAt \in [Requests -> Nat \cup {None}]
  /\ DOMAIN history \subseteq Keys
  /\ \A k \in DOMAIN history : history[k] \in Seq(Nat)
  /\ sem \in Nat /\ activeSessions \in Int
  /\ requests \in [Labels \X Statuses -> Nat]
  /\ durationCount \in [Labels -> Nat]
  /\ errors \in [Labels -> Nat]
  /\ rateLimited \in [Labels -> Nat]
  /\ queue \in Seq(Requests)
  /\ running \subseteq Requests /\ Cardinality(running) <= Workers

(* What the middleware knows of a request at each stage of its life.       *)
Lifecycle ==
  \A r \in Requests :
    /\ mw[r] = "idle" <=> from[r] = None
    /\ mw[r] \in {"idle", "reading"} => spentAt[r] = None /\ hd[r] = "none"
    /\ mw[r] = "waiting" => startedAt[r] \in Nat /\ hd[r] # "none"
    /\ mw[r] = "answered" <=> status[r] # None
    /\ hd[r] = "none" => r \notin running /\ \A i \in DOMAIN queue : queue[i] # r

(* The requests that hold a concurrency slot. *)
Inside == {r \in Requests : mw[r] = "waiting" /\ Gated(from[r].path)}

(* However requests end, no slot is leaked or returned twice: the          *)
(* semaphore and the gauge of /api/v1/metrics both count the requests      *)
(* between acquire and the finally clause.                                 *)
SlotAccounting ==
  /\ activeSessions = Cardinality(Inside)
  /\ sem = MaxConcurrent - Cardinality(Inside)

Answered(l, S) ==
  {r \in Requests : mw[r] = "answered" /\ Label(from[r].path) = l /\ status[r] \in S}

(* Every response is metered exactly once, under its own label and status, *)
(* whichever of the eleven return paths of the middleware produced it.     *)
MeteredOnce ==
  \A l \in Labels :
    /\ \A s \in Statuses : requests[<<l, s>>] = Cardinality(Answered(l, {s}))
    /\ durationCount[l] = Cardinality(Answered(l, Statuses))
    /\ errors[l] = Cardinality(Answered(l, {s \in Statuses : s >= 500}))
    /\ rateLimited[l] = Cardinality(Answered(l, {429}))

ChargedSince(k, t) ==
  {r \in Requests : /\ spentAt[r] # None /\ spentAt[r] >= t
                    /\ <<from[r].client, from[r].path>> = k}

(* The sliding window: in no stretch of Window ticks does one client get   *)
(* more than MaxRequests of its requests to one path past the limiter.     *)
WindowBound ==
  \A k \in Keys : Cardinality(ChargedSince(k, now - Window)) <= MaxRequests

(* A request that is refused for its headers, its size, its credentials or *)
(* the limiter itself costs its client nothing; every other answer on a    *)
(* limited path has been paid for: a 503 of the gate, which starts no      *)
(* handler, and whatever comes of a handler, a 400 of its own included.    *)
OnlyAdmittedPay ==
  \A r \in Requests : mw[r] = "answered" /\ from[r].path \in RateLimited =>
    (spentAt[r] = None <=> hd[r] = "none" /\ status[r] # 503)

(* A dispatched request is answered even if its work hangs forever.        *)
DispatchBounded ==
  \A r \in Requests : mw[r] = "waiting" ~> mw[r] = "answered"

(* What server/README.md:42 says the service bounds: the pipelines that    *)
(* run at the same time.                                                   *)
ExpensiveWorkBounded == Cardinality(running) <= MaxConcurrent

Kind(r) ==
  IF from[r] = None THEN "unknown"
  ELSE IF Gated(from[r].path) THEN "expensive" ELSE "cheap"

Gate == INSTANCE AdmissionGate WITH
  Slots <- MaxConcurrent,
  kind <- [r \in Requests |-> Kind(r)],
  inside <- Inside,
  answer <- status

(* The service implements the gate its clients see. *)
ImplementsGate == Gate!Spec
=============================================================================
