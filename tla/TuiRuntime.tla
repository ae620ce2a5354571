----------------------------- MODULE TuiRuntime -----------------------------
(***************************************************************************)
(* The terminal interface: its session (operations and events), the client *)
(* of the player and the supervised player, playback over the proxy,       *)
(* authentication, and the front end.  What one part relies on in another  *)
(* is stated in its module: an operation opens and closes a Playback, a    *)
(* Playback owns a player, the front end hears of an operation by its      *)
(* events.  They share no variable; a behaviour follows one part, and the  *)
(* interleavings explored are those inside it.                             *)
(***************************************************************************)
EXTENDS TuiSession, PlayerClient, PlayerSession, Playback, Workspace, TuiAuthentication

VARIABLE part   \* the part this behaviour follows

vars == <<tsVars, pcVars, psVars, pbVars, wsVars, taVars, part>>

(* The session is followed twice: operations without event streams, and
   event streams over one self-test. *)
Init ==
  /\ part \in {"operations", "streams", "client", "player", "playback", "frontend", "authentication"}
  /\ TsInit /\ PcInit /\ PsInit /\ PbInit /\ WsInit /\ TaInit
  /\ part # "streams" => \A s \in Streams : stream[s] = "gone"
  /\ part = "streams" => \A s \in Streams : stream[s] = "idle"
  /\ \A o \in Ops : IF o = 1 THEN part # "operations" => post[o] = "selftest"
                    ELSE post[o] = IF part = "operations" THEN "selftest" ELSE "answered"
  /\ part # "playback" => ~resume
  /\ part # "frontend" => ui.auth = "ready"

Session == part \in {"operations", "streams"} /\ UNCHANGED <<pcVars, psVars, pbVars, wsVars, taVars, part>>
Client == part = "client" /\ UNCHANGED <<tsVars, psVars, pbVars, wsVars, taVars, part>>
Player == part = "player" /\ UNCHANGED <<tsVars, pcVars, pbVars, wsVars, taVars, part>>
Playing == part = "playback" /\ UNCHANGED <<tsVars, pcVars, psVars, wsVars, taVars, part>>
FrontEnd == part = "frontend" /\ UNCHANGED <<tsVars, pcVars, psVars, pbVars, taVars, part>>
Authentication == part = "authentication" /\ UNCHANGED <<tsVars, pcVars, psVars, pbVars, wsVars, part>>

Next ==
  \/ Session /\ TsNext
  \/ Client /\ PcNext
  \/ Player /\ PsNext
  \/ Playing /\ PbNext
  \/ FrontEnd /\ WsNext
  \/ Authentication /\ TaNext

(* The goroutines, continuations and timers of the part, without its stimuli. *)
Going ==
  \/ Session /\ TsProgress
  \/ Client /\ PcProgress
  \/ Player /\ PsProgress
  \/ Playing /\ PbProgress
  \/ FrontEnd /\ WsProgress
  \/ Authentication /\ TaProgress

Spec == Init /\ [][Next]_vars /\ WF_vars(Going)

---------------------------------------------------------------------------
(* What the interface keeps at every moment: a stream has every event or ends
   with an overflow, a stopped session runs nothing, one answer to a command,
   the end of playback and a failure of the proxy are not lost to a race, the
   screen shows what was told, one login at a time. *)
SessionSafe == TsSafe /\ PcSafe /\ PsSafe /\ PbSafe /\ WsSafe /\ TaSafe

(* Everyone who waits is answered: a canceled operation and Close end, a
   command whose connection is down returns, a player that is closed or
   canceled lets go of who waits for it, the screen stops loading, a retried
   login is told.  The stimuli of a run are finitely many, so it is enough
   that again and again nobody waits. *)
SessionAnswers ==
  []<>(/\ SessionAnswered /\ PcAnswered /\ WsAnswered /\ TaAnswered
       /\ part = "player" => PsAnswered
       /\ part = "playback" => PbAnswered)
=============================================================================
