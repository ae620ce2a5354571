---------------------------- MODULE LoginLimiter ----------------------------
(***************************************************************************)
(* Logging in to the API server: the sliding-window limiter per address    *)
(* with its bounded, least-recently-used index (server/ratelimiter.go),    *)
(* and the tokens loginHandler issues and authMiddleware checks            *)
(* (server/auth.go).  Each method holds its mutex throughout and is one    *)
(* action; the steps of a login are separate, as other requests come       *)
(* between them.  Time is a counter.                                       *)
(***************************************************************************)
EXTENDS Integers, Sequences, SequencesExt, FiniteSets

CONSTANTS MaxLogins,     \* bound: login requests, numbered by their arrival
          Addresses,
          Limit, Window, \* of newLoginRateLimiter
          MaxEntries,    \* maxRateLimiterEntries
          TokenTTL,      \* the 24 hours of a token
          MaxTicks        \* bound on the clock

ASSUME LimiterAssumption ==
  /\ Limit \in Nat \ {0} /\ Window \in Nat \ {0} /\ MaxEntries \in Nat \ {0}
  /\ MaxTicks \in Nat

VARIABLES now,
          entries,     \* entries: per address its times, a partial function
          order,       \* the list, most recent first
          login,       \* per request: where it stands and its address
          tokens,      \* TokenStore.tokens, by their expiry
          admitted     \* history: times admitted since a reset or an eviction

llVars == <<now, entries, order, login, tokens, admitted>>

Logins == 1..MaxLogins
NoAddress == "no address"
NowAt == 2 * Window + 1    \* the clock starts beyond every cut-off

LlInit ==
  /\ now = NowAt /\ entries = <<>> /\ order = <<>> /\ tokens = {}
  /\ login = [l \in Logins |-> [pc |-> "idle", ip |-> NoAddress]]
  /\ admitted = [ip \in Addresses |-> <<>>]

LlTick == /\ now < NowAt + MaxTicks /\ now' = now + 1
          /\ UNCHANGED <<entries, order, login, tokens, admitted>>

Known == DOMAIN entries
Without(S) == [ip \in Known \ S |-> entries[ip]]

(* What a loop over a list keeps, for a set of values to keep: the pruning
   loop of allow, and the removals of container/list.  SelectSeq, as a recursive
   function that a prover can unfold. *)
Kept(s, S) ==
  LET f[i \in 0..Len(s)] == IF i = 0 THEN <<>>
                            ELSE IF s[i] \in S THEN Append(f[i - 1], s[i]) ELSE f[i - 1]
  IN f[Len(s)]

(* No time is later than now. *)
InWindow(times) == Kept(times, (now - Window + 1)..now)
Arrives(l) == login[l].pc = "idle" /\ \A k \in 1..(l - 1) : login[k].pc # "idle"
Over(l) == login' = [login EXCEPT ![l] = [pc |-> "over", ip |-> NoAddress]]

(* allow, for an address that has no entry: at capacity the least recently
   used entry makes room. *)
AllowNew(l, ip) ==
  LET evicted == IF Cardinality(Known) >= MaxEntries THEN {Last(order)} ELSE {}
  IN /\ Arrives(l) /\ ip \notin Known
     /\ entries' = [a \in (Known \ evicted) \union {ip} |->
                      IF a = ip THEN <<now>> ELSE entries[a]]
     /\ order' = <<ip>> \o Kept(order, Known \ evicted)
     /\ admitted' = [a \in Addresses |-> IF a \in evicted THEN <<>> ELSE
                       IF a = ip THEN Append(admitted[a], now) ELSE admitted[a]]
     /\ login' = [login EXCEPT ![l] = [pc |-> "allowed", ip |-> ip]]
     /\ UNCHANGED <<now, tokens>>

(* Wrong variant: one attempt more than the limit. *)
AllowKnownOneMore(l, ip) ==
  LET recent == InWindow(entries[ip])
      room == Len(recent) <= Limit
  IN /\ Arrives(l) /\ ip \in Known
     /\ order' = <<ip>> \o Kept(order, Known \ {ip})
     /\ entries' = [entries EXCEPT ![ip] = IF room THEN Append(recent, now) ELSE recent]
     /\ admitted' = [admitted EXCEPT ![ip] = IF room THEN Append(@, now) ELSE @]
     /\ IF room THEN login' = [login EXCEPT ![l] = [pc |-> "allowed", ip |-> ip]] ELSE Over(l)
     /\ UNCHANGED <<now, tokens>>

(* allow, for a known address: touch it, forget what left the window, and
   admit the attempt unless the limit is reached. *)
AllowKnown(l, ip) ==
  LET recent == InWindow(entries[ip])
      room == Len(recent) < Limit
  IN /\ Arrives(l) /\ ip \in Known
     /\ order' = <<ip>> \o Kept(order, Known \ {ip})
     /\ entries' = [entries EXCEPT ![ip] = IF room THEN Append(recent, now) ELSE recent]
     /\ admitted' = [admitted EXCEPT ![ip] = IF room THEN Append(@, now) ELSE @]
     /\ IF room THEN login' = [login EXCEPT ![l] = [pc |-> "allowed", ip |-> ip]] ELSE Over(l)
     /\ UNCHANGED <<now, tokens>>

(* The body is not JSON, or the credentials are wrong. *)
Reject(l) ==
  /\ login[l].pc = "allowed"
  /\ Over(l)
  /\ UNCHANGED <<now, entries, order, tokens, admitted>>

Reset(l) ==
  LET ip == login[l].ip
  IN /\ login[l].pc = "allowed"
     /\ entries' = Without({ip}) /\ order' = Kept(order, Known \ {ip})
     /\ admitted' = [admitted EXCEPT ![ip] = <<>>]
     /\ login' = [login EXCEPT ![l].pc = "reset"]
     /\ UNCHANGED <<now, tokens>>

IssueToken(l) ==
  /\ login[l].pc = "reset"
  /\ \/ tokens' = tokens \union {now + TokenTTL}
     \/ UNCHANGED tokens   \* GenerateToken failed
  /\ Over(l)
  /\ UNCHANGED <<now, entries, order, admitted>>

(* The limiter's worker: entries with nothing in two windows are dropped. *)
Stale(ip) == entries[ip] = <<>> \/ Last(entries[ip]) < now - 2 * Window

Cleanup ==
  LET stale == {ip \in Known : Stale(ip)}
  IN /\ stale # {}
     /\ entries' = Without(stale) /\ order' = Kept(order, Known \ stale)
     /\ UNCHANGED <<now, login, tokens, admitted>>

(* authMiddleware: IsValid removes the expired token it meets. *)
Authorize(t) ==
  /\ t \in tokens /\ now > t
  /\ tokens' = tokens \ {t}
  /\ UNCHANGED <<now, entries, order, login, admitted>>

CleanupExpired ==
  /\ \E t \in tokens : now > t
  /\ tokens' = {t \in tokens : now <= t}
  /\ UNCHANGED <<now, entries, order, login, admitted>>

LlNext ==
  \/ LlTick \/ Cleanup \/ CleanupExpired
  \/ \E l \in Logins, ip \in Addresses : AllowNew(l, ip) \/ AllowKnown(l, ip)
  \/ \E l \in Logins : Reject(l) \/ Reset(l) \/ IssueToken(l)
  \/ \E t \in tokens : Authorize(t)

LlSpec == LlInit /\ [][LlNext]_llVars

---------------------------------------------------------------------------
(* The three indexes of the limiter name the same addresses. *)
LlTypeOK ==
  /\ now \in NowAt..(NowAt + MaxTicks)
  /\ Cardinality(Known) <= MaxEntries
  /\ ToSet(order) = Known /\ IsInjective(order)
  /\ \A ip \in Known : Len(entries[ip]) <= Limit

(* In no window an address has more than Limit attempts admitted, whatever
   the clean-up, denials and the attempts of others did in between. *)
RateBound ==
  \A ip \in Addresses : \A i \in 1..Len(admitted[ip]) :
    i > Limit => admitted[ip][i] >= admitted[ip][i - Limit] + Window

(* What the limiter remembers is what it admitted: clean-up and pruning
   forget only what no decision can depend on any more. *)
RemembersWindow ==
  \A ip \in Addresses :
    InWindow(admitted[ip]) = IF ip \in Known THEN InWindow(entries[ip]) ELSE <<>>

LlSafe == LlTypeOK /\ RateBound /\ RemembersWindow
=============================================================================
