--------------------------- MODULE ReadinessCache ---------------------------
(***************************************************************************)
(* Two caches of the API server that meet at one lock: the readiness cache *)
(* of the health handler (server/health_handlers.go: one refresh at a time *)
(* for any number of requests) and the upstream session                    *)
(* (getOrRefreshUpstreamClient in server/server.go: one login at a time,   *)
(* checked twice), which the readiness probe reads under the same RWMutex. *)
(* Time is a counter.  A read lock is held only for a few assignments, so  *)
(* a reader waits exactly while a login holds the lock.                    *)
(***************************************************************************)
EXTENDS Integers, Sequences

CONSTANTS MaxRequests,     \* bound: health requests, numbered by their arrival
          MaxJobs,         \* bound: calls for an upstream client, likewise
          ReadinessTTL,    \* readinessCacheTTL
          SessionTTL,      \* the 23 hours of an upstream token
          MaxTime          \* bound on the clock

ASSUME CachesAssumption ==
  /\ MaxRequests \in Nat /\ MaxJobs \in Nat /\ MaxTime \in Nat \ {0}
  /\ ReadinessTTL \in Nat /\ SessionTTL \in Nat

Requests == 1..MaxRequests
Jobs == 1..MaxJobs
NoJob == 0
Never == 0                 \* an expiry in the past: nothing is cached

VARIABLES time,
          readiness,    \* readinessCache: response and expiresAt
          refreshing,   \* readinessCache.refreshing
          refreshes,    \* one record per refresh goroutine: how far, produced, expiry
          request,      \* per request: where, the clock it read, what it waits for, its answer
          session,      \* upstreamCache: the number of the login and expiresAt
          holder,       \* who holds upstreamCacheMu for writing
          job,          \* where each caller of getOrRefreshUpstreamClient stands
          logins        \* history: successful logins, with time and expiry

rcVars == <<time, readiness, refreshing, refreshes, request, session, holder, job, logins>>
sessionVars == <<session, holder, job, logins>>
healthVars == <<readiness, refreshing, refreshes, request>>

RcInit ==
  /\ time = 1 /\ refreshing = FALSE /\ refreshes = <<>>
  /\ readiness = [response |-> "none", expires |-> Never]
  /\ request = [r \in Requests |-> [pc |-> "idle", now |-> 0, gen |-> 0, answer |-> "none"]]
  /\ session = [login |-> 0, expires |-> Never] /\ holder = NoJob /\ logins = <<>>
  /\ job = [j \in Jobs |-> [pc |-> "idle", login |-> 0]]

Tick == time < MaxTime /\ time' = time + 1 /\ UNCHANGED <<healthVars, sessionVars>>

---------------------------------------------------------------------------
(* cachedReadiness: the clock is read before the lock is taken.            *)

SetRequest(r, pc, now, gen, answer) ==
  request' = [request EXCEPT ![r] = [pc |-> pc, now |-> now, gen |-> gen, answer |-> answer]]

ReadClock(r) ==
  /\ \/ request[r].pc = "again"
     \/ request[r].pc = "idle" /\ \A q \in 1..(r - 1) : request[q].pc # "idle"
  /\ SetRequest(r, "lock", time, 0, "none")
  /\ UNCHANGED <<time, readiness, refreshing, refreshes, sessionVars>>

AnswerCached(r) ==
  /\ request[r].pc = "lock" /\ request[r].now < readiness.expires
  /\ SetRequest(r, "answered", request[r].now, 0, readiness.response)
  /\ UNCHANGED <<time, readiness, refreshing, refreshes, sessionVars>>

(* Start a refresh unless one is running, and wait for the current one. *)
AwaitRefresh(r) ==
  /\ request[r].pc = "lock" /\ request[r].now >= readiness.expires
  /\ refreshes' = IF refreshing THEN refreshes
                  ELSE Append(refreshes, [pc |-> "probe", started |-> request[r].now,
                                          token |-> FALSE, response |-> "none",
                                          expires |-> Never])
  /\ refreshing' = TRUE
  /\ SetRequest(r, "wait", request[r].now, Len(refreshes'), "none")
  /\ UNCHANGED <<time, readiness, sessionVars>>

RefreshDone(r) ==
  /\ request[r].pc = "wait" /\ refreshes[request[r].gen].pc = "done"
  /\ SetRequest(r, "again", 0, 0, "none")
  /\ UNCHANGED <<time, readiness, refreshing, refreshes, sessionVars>>

(* The client of a waiting request goes away; the refresh goes on. *)
Leave(r) ==
  /\ request[r].pc = "wait"
  /\ SetRequest(r, "left", 0, 0, "none")
  /\ UNCHANGED <<time, readiness, refreshing, refreshes, sessionVars>>

---------------------------------------------------------------------------
(* refreshReadiness                                                        *)

(* probeUpstreamHTTP reads the cached session, waiting for a login that is
   running; the token may have expired since. *)
ReadSession(g) ==
  /\ refreshes[g].pc = "probe" /\ holder = NoJob
  /\ refreshes' = [refreshes EXCEPT ![g].pc = "collect", ![g].token = session.login # 0]
  /\ UNCHANGED <<time, readiness, refreshing, request, sessionVars>>

(* With a token the authenticated answer decides, and TCP only without one. *)
Reachable(token, http, tcp) == IF token THEN http ELSE tcp
Readiness(configured, reachable, ffmpeg) ==
  IF configured /\ reachable /\ ffmpeg THEN "ok" ELSE "degraded"

CollectAs(g, response) ==
  /\ refreshes[g].pc = "collect"
  /\ refreshes' = [refreshes EXCEPT ![g].pc = "store", ![g].response = response,
                                    ![g].expires = time + ReadinessTTL]
  /\ UNCHANGED <<time, readiness, refreshing, request, sessionVars>>

Collect(g) ==
  \E configured, http, tcp, ffmpeg \in BOOLEAN :
    CollectAs(g, Readiness(configured,
                           configured /\ Reachable(refreshes[g].token, http, tcp), ffmpeg))

(* A panic of the probe is recovered and cached as a degraded result. *)
ProbePanics(g) == CollectAs(g, "degraded")

StoreReadiness(g) ==
  /\ refreshes[g].pc = "store"
  /\ readiness' = [response |-> refreshes[g].response, expires |-> refreshes[g].expires]
  /\ refreshing' = FALSE
  /\ refreshes' = [refreshes EXCEPT ![g].pc = "done"]
  /\ UNCHANGED <<time, request, sessionVars>>

---------------------------------------------------------------------------
(* getOrRefreshUpstreamClient                                              *)

SetJob(j, pc, login) == job' = [job EXCEPT ![j] = [pc |-> pc, login |-> login]]
SessionValid == session.expires > time

FastPath(j) ==
  /\ job[j].pc = "idle" /\ \A i \in 1..(j - 1) : job[i].pc # "idle"
  /\ holder = NoJob
  /\ IF SessionValid THEN SetJob(j, "served", session.login) ELSE SetJob(j, "lock", 0)
  /\ UNCHANGED <<time, healthVars, session, holder, logins>>

(* Wrong variant: no second check. *)
LockSessionOnce(j) ==
  /\ job[j].pc = "lock" /\ holder = NoJob
  /\ SetJob(j, "login", 0) /\ holder' = j
  /\ UNCHANGED <<time, healthVars, session, logins>>

(* The write lock, and the second check under it. *)
LockSession(j) ==
  /\ job[j].pc = "lock" /\ holder = NoJob
  /\ IF SessionValid THEN SetJob(j, "served", session.login) /\ UNCHANGED holder
     ELSE SetJob(j, "login", 0) /\ holder' = j
  /\ UNCHANGED <<time, healthVars, session, logins>>

LoginSucceeds(j) ==
  /\ job[j].pc = "login"
  /\ session' = [login |-> Len(logins) + 1, expires |-> time + SessionTTL]
  /\ logins' = Append(logins, [time |-> time, expires |-> time + SessionTTL])
  /\ holder' = NoJob
  /\ SetJob(j, "served", Len(logins) + 1)
  /\ UNCHANGED <<time, healthVars>>

LoginFails(j) ==
  /\ job[j].pc = "login"
  /\ holder' = NoJob
  /\ SetJob(j, "failed", 0)
  /\ UNCHANGED <<time, healthVars, session, logins>>

(* Steps of goroutines that wait for no client to arrive. *)
RcProgress ==
  \/ \E r \in Requests : AnswerCached(r) \/ AwaitRefresh(r) \/ RefreshDone(r)
  \/ \E r \in Requests : request[r].pc = "again" /\ ReadClock(r)
  \/ \E g \in 1..Len(refreshes) :
       \/ ReadSession(g)
       \/ StoreReadiness(g)
       \/ Collect(g)
       \/ ProbePanics(g)
  \/ \E j \in Jobs : LockSession(j) \/ LoginSucceeds(j) \/ LoginFails(j)

RcNext == \/ Tick \/ RcProgress
          \/ \E r \in Requests : ReadClock(r) \/ Leave(r)
          \/ \E j \in Jobs : FastPath(j)

(* Some goroutine that can run does; probes and logins end by their deadlines. *)
RcFairness == WF_rcVars(RcProgress)

RcSpec == RcInit /\ [][RcNext]_rcVars /\ RcFairness

---------------------------------------------------------------------------
RcTypeOK ==
  /\ time \in 1..MaxTime /\ refreshing \in BOOLEAN /\ holder \in Jobs \union {NoJob}
  /\ \A r \in Requests : request[r].pc \in {"idle", "again", "lock", "wait", "answered", "left"}
  /\ \A j \in Jobs : job[j].pc \in {"idle", "lock", "login", "served", "failed"}

(* However many requests come, one refresh runs at a time, and the next
   starts only for a request that found the result of the last one expired. *)
SingleFlight ==
  /\ refreshing <=> \E g \in 1..Len(refreshes) : refreshes[g].pc # "done"
  /\ \A g, h \in 1..Len(refreshes) : g < h =>
       refreshes[g].pc = "done" /\ refreshes[g].expires <= refreshes[h].started

(* An answer is never older than its time to live when the request looked. *)
AnswersFresh ==
  \A r \in Requests : request[r].pc = "answered" =>
    \E g \in 1..Len(refreshes) : /\ refreshes[g].pc = "done"
                                 /\ refreshes[g].response = request[r].answer
                                 /\ request[r].now < refreshes[g].expires

(* One login at a time, none while the token of another is valid, and who
   is served has the token of a login that succeeded. *)
NoNeedlessLogin ==
  /\ \A i, k \in 1..Len(logins) : i < k => logins[i].expires <= logins[k].time
  /\ \A j \in Jobs : /\ job[j].pc = "login" <=> holder = j
                     /\ job[j].pc = "served" => job[j].login \in 1..Len(logins)
                     /\ job[j].pc = "login" => ~SessionValid

RcSafe == RcTypeOK /\ SingleFlight /\ AnswersFresh /\ NoNeedlessLogin

(* Every request has its answer unless its own client left, and every
   caller of the session has a client or an error. *)
RequestsAnswered ==
  /\ \A r \in Requests : request[r].pc \in {"idle", "answered", "left"}
  /\ \A j \in Jobs : job[j].pc \in {"idle", "served", "failed"}
=============================================================================
