----------------------------- MODULE APIServer -----------------------------
(***************************************************************************)
(* The shared state of one API server beside its jobs: the WebSocket hub,  *)
(* the cleanup life cycle with APIServer.Start, the readiness and session  *)
(* caches, logging in, the job file, and the client it asks the upstream   *)
(* with.  These parts share no variable, so what one does in between never *)
(* changes what another may do: a behaviour follows one part, and the      *)
(* interleavings explored are those inside it.                             *)
(***************************************************************************)
EXTENDS WSHub, CleanupLifecycle, ReadinessCache, LoginLimiter, SnapshotFile, UpstreamClient

VARIABLE part   \* the part this behaviour follows

vars == <<hubVars, lcVars, rcVars, llVars, sfVars, ucVars, part>>

Init ==
  /\ part \in {"hub", "lifecycle", "caches", "login", "file", "upstream"}
  /\ HubInit /\ LcInit /\ RcInit /\ LlInit /\ SfInit /\ UcInit

HubPart == part = "hub" /\ HubNext /\ UNCHANGED <<lcVars, rcVars, llVars, sfVars, ucVars>>
LifecyclePart == part = "lifecycle" /\ LcNext /\ UNCHANGED <<hubVars, rcVars, llVars, sfVars, ucVars>>
CachePart == part = "caches" /\ RcNext /\ UNCHANGED <<hubVars, lcVars, llVars, sfVars, ucVars>>
LoginPart == part = "login" /\ LlNext /\ UNCHANGED <<hubVars, lcVars, rcVars, sfVars, ucVars>>
FilePart == part = "file" /\ SfNext /\ UNCHANGED <<hubVars, lcVars, rcVars, llVars, ucVars>>
UpstreamPart == part = "upstream" /\ UNCHANGED <<hubVars, lcVars, rcVars, llVars, sfVars, part>>

Next ==
  \/ (HubPart \/ LifecyclePart \/ CachePart \/ LoginPart \/ FilePart) /\ UNCHANGED part
  \/ UpstreamPart /\ UcNext

Spec == Init /\ [][Next]_vars /\ HubFairness /\ LcFairness /\ RcFairness /\ WF_vars(UpstreamPart /\ UcProgress)

---------------------------------------------------------------------------
(* What the server's shared state keeps at every moment: a connected client
   misses no event unseen and is never left behind by a closed hub; a Close
   that returned leaves no worker; one refresh and one login at a time, and
   no stale answer; never more attempts in a window than the limit; the
   upstream login goes where it belongs. *)
ServerSafe == HubSafe /\ LcSafe /\ RcSafe /\ LlSafe /\ UcSafe

(* Everyone who waits is answered, whatever else goes wrong: a connection
   that overflowed or met the shutdown ends, every Close returns, every health
   request and every caller of the upstream session gets its answer, and
   every program that signs in and reads the catalog ends.  The requests of a
   run are finitely many, so it is enough that again and again nobody waits. *)
ServerAnswers ==
  []<>(/\ ConnectionsEnded /\ ClosesReturned /\ RequestsAnswered
       /\ part = "upstream" => UcEnded)
=============================================================================
