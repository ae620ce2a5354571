------------------------- MODULE TuiAuthentication -------------------------
(***************************************************************************)
(* Authentication of the terminal interface: the handler of its retry      *)
(* route and the coordinator behind it (cli_tui_auth.go), which makes one  *)
(* attempt for all that ask at the same time.  A caller is a request; an   *)
(* attempt has the name of the caller that leads it.                       *)
(***************************************************************************)
EXTENDS Integers

CONSTANT MaxRetriers   \* bound: requests of the retry route, in order of arrival

ASSUME RetriersAssumption == MaxRetriers \in Nat

Retriers == 1..MaxRetriers
NoRetrier == 0

VARIABLES
  retrier,      \* where each request stands
  activeRetry,  \* the attempt others may join: its leader
  joined,       \* the attempt a request has joined
  verdict,      \* tuiAuthenticationRetry.err once done is closed, by leader
  service,      \* a candidate is published
  leaving,      \* requests whose context has ended
  hadService,   \* history: the service was published before the request came
  lost          \* history: requests whose own context had ended when they were answered

taVars == <<retrier, activeRetry, joined, verdict, service, leaving, hadService, lost>>

TaInit ==
  /\ retrier = [r \in Retriers |-> "idle"] /\ activeRetry = NoRetrier
  /\ joined = [r \in Retriers |-> NoRetrier] /\ verdict = [r \in Retriers |-> "open"]
  /\ service = FALSE /\ leaving = {} /\ hadService = {} /\ lost = {}

RetrierTo(r, from, to) == retrier[r] = from /\ retrier' = [retrier EXCEPT ![r] = to]

---------------------------------------------------------------------------
(* retryAuthentication asks for an attempt only if there is no service yet. *)
AskRetry(r) ==
  /\ \A s \in 1..(r - 1) : retrier[s] # "idle"
  /\ RetrierTo(r, "idle", IF service THEN "ready" ELSE "asking")
  /\ hadService' = IF service THEN hadService \union {r} ELSE hadService
  /\ UNCHANGED <<activeRetry, joined, verdict, service, leaving, lost>>

(* Retry, under retryMu: join the attempt that is under way or lead one. *)
JoinOrLead(r) ==
  /\ IF activeRetry # NoRetrier
     THEN RetrierTo(r, "asking", "joined") /\ joined' = [joined EXCEPT ![r] = activeRetry] /\ UNCHANGED activeRetry
     ELSE RetrierTo(r, "asking", "loading") /\ activeRetry' = r /\ UNCHANGED joined
  /\ UNCHANGED <<verdict, service, leaving, hadService, lost>>

(* retryOnce: the configuration, *)
LoadConfiguration(r) ==
  /\ \/ r \notin leaving /\ RetrierTo(r, "loading", "building")
     \/ r \notin leaving /\ RetrierTo(r, "loading", "invalid")
     \/ RetrierTo(r, "loading", IF r \in leaving THEN "canceled" ELSE "unavailable")
  /\ UNCHANGED <<activeRetry, joined, verdict, service, leaving, hadService, lost>>

(* the login, which may find the context ended or panic, *)
BuildCandidate(r) ==
  /\ \E to \in {"publishing", "unavailable", "panicked"} \union (IF r \in leaving THEN {"canceled"} ELSE {}) :
       RetrierTo(r, "building", to)
  /\ UNCHANGED <<activeRetry, joined, verdict, service, leaving, hadService, lost>>

(* and, if the context still lives, the publication. *)
PublishService(r) ==
  /\ \/ r \in leaving /\ RetrierTo(r, "publishing", "canceled") /\ UNCHANGED service
     \/ RetrierTo(r, "publishing", "authenticated") /\ service' = TRUE
  /\ UNCHANGED <<activeRetry, joined, verdict, leaving, hadService, lost>>

Verdicts == {"invalid", "unavailable", "canceled", "authenticated", "panicked"}

(* Wrong variant: the deferred call does not run for a panic. *)
EndAttemptUnlessPanic(r) ==
  /\ retrier[r] \in Verdicts
  /\ IF retrier[r] = "panicked" THEN UNCHANGED <<verdict, activeRetry>>
     ELSE verdict' = [verdict EXCEPT ![r] = retrier[r]] /\ activeRetry' = NoRetrier
  /\ retrier' = [retrier EXCEPT ![r] = IF retrier[r] = "panicked" THEN "aborted" ELSE "told"]
  /\ joined' = [joined EXCEPT ![r] = r]
  /\ UNCHANGED <<service, leaving, hadService, lost>>

(* The deferred call: the attempt is over for everyone; a panic goes on in
   the leader's handler and is an unavailable login for the others. *)
EndAttempt(r) ==
  /\ retrier[r] \in Verdicts
  /\ verdict' = [verdict EXCEPT ![r] = IF retrier[r] = "panicked" THEN "unavailable" ELSE retrier[r]]
  /\ activeRetry' = NoRetrier
  /\ retrier' = [retrier EXCEPT ![r] = IF retrier[r] = "panicked" THEN "aborted" ELSE "told"]
  /\ joined' = [joined EXCEPT ![r] = r]
  /\ UNCHANGED <<service, leaving, hadService, lost>>

ShareVerdict(r) ==
  /\ \/ RetrierTo(r, "joined", "told") /\ verdict[joined[r]] # "open" /\ UNCHANGED <<joined, lost>>
     \/ r \in leaving /\ RetrierTo(r, "joined", "told") /\ lost' = lost \union {r} /\ UNCHANGED joined
  /\ UNCHANGED <<activeRetry, verdict, service, leaving, hadService>>

(* After an error too the service may be there meanwhile. *)
AnswerRetry(r) ==
  /\ RetrierTo(r, "told", IF service THEN "ready"
                          ELSE IF verdict[joined[r]] = "invalid" /\ r \notin lost THEN "badConfiguration" ELSE "noLogin")
  /\ UNCHANGED <<activeRetry, joined, verdict, service, leaving, hadService, lost>>

LeaveRetry(r) ==
  /\ r \notin leaving /\ retrier[r] \in {"asking", "joined", "loading", "building", "publishing"} /\ leaving' = leaving \union {r}
  /\ UNCHANGED <<retrier, activeRetry, joined, verdict, service, hadService, lost>>

TaProgress ==
  \E r \in Retriers : \/ JoinOrLead(r) \/ LoadConfiguration(r) \/ BuildCandidate(r) \/ PublishService(r)
                      \/ EndAttempt(r) \/ ShareVerdict(r) \/ AnswerRetry(r)

TaNext == TaProgress \/ \E r \in Retriers : AskRetry(r) \/ LeaveRetry(r)

(* Handlers run, and a login ends. *)
TaFairness == WF_taVars(TaProgress)

---------------------------------------------------------------------------
Attempting == {r \in Retriers : retrier[r] \in {"loading", "building", "publishing"} \union Verdicts}

(* One attempt at a time, and it is the one that can be joined. *)
OneAttempt == Attempting = IF activeRetry = NoRetrier THEN {} ELSE {activeRetry}

(* Nobody is told ready without a service, or anything else once there is
   one; a problem is the verdict of the attempt, unless the caller left. *)
ToldTruthfully ==
  \A r \in Retriers :
    /\ retrier[r] = "ready" => service
    /\ r \in hadService => retrier[r] = "ready"
    /\ retrier[r] \in {"badConfiguration", "noLogin"} /\ r \notin lost => verdict[joined[r]] # "authenticated"

TaSafe == OneAttempt /\ ToldTruthfully

(* Every request is answered, also those that joined an attempt that panicked. *)
TaAnswered == \A r \in Retriers : retrier[r] \in {"idle", "ready", "badConfiguration", "noLogin", "aborted"}
=============================================================================
