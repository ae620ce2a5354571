--------------------------- MODULE PlayerSession ---------------------------
(***************************************************************************)
(* The supervised mpv child (player/process.go): Start with its clean-up,  *)
(* the reader that records how playback ended, WaitForEnd, PollTerminal,   *)
(* and Close, which asks, terminates and kills.  The client of             *)
(* PlayerClient appears as the state of its connection; the quit command   *)
(* is a step that ends within its timeout, whatever mpv does with it.      *)
(***************************************************************************)
EXTENDS Integers, Sequences

CONSTANT MaxEnds   \* bound: end-file events mpv sends

VARIABLES
  starting,  \* how far Start has come
  mpv,       \* the child: running, exited, reaped (processDone is closed)
  exitError, \* Session.waitErr
  sent,      \* how many end-file events mpv has sent
  inbox,     \* those the reader has not handled
  conn,      \* the client: none, up, down (Done closed), read (readDone closed)
  cut,       \* history: this side has closed the connection
  terminal,  \* terminalReady and terminalErr
  playEnd,   \* the channel playbackEnd, room for one
  stopped,   \* eventsClosed
  ended,     \* contexts that have ended: of the session, of the wait
  wait,      \* WaitForEnd
  polled,    \* what PollTerminal has reported
  close,     \* the first call of Close; another one waits for it
  killed,    \* closeInternal has signalled the group
  cleaned    \* runtimeReservation.cleanup

psVars == <<starting, mpv, exitError, sent, inbox, conn, cut, terminal, playEnd, stopped,
            ended, wait, polled, close, killed, cleaned>>

PsInit ==
  /\ starting = "spawned" /\ mpv = "running" /\ exitError = FALSE
  /\ sent = 0 /\ inbox = <<>> /\ conn = "none" /\ cut = FALSE
  /\ terminal = <<>> /\ playEnd = <<>> /\ stopped = FALSE /\ ended = {}
  /\ wait = "idle" /\ polled = "no" /\ close = "no" /\ killed = FALSE /\ cleaned = FALSE

Reaped == mpv = "reaped"
HangUp == conn' = (IF conn = "up" THEN "down" ELSE conn) /\ cut' = (cut \/ conn = "up")

---------------------------------------------------------------------------
(* The child, the reader and the goroutines of the session                 *)

MpvEnds ==
  /\ mpv = "running" /\ conn = "up" /\ sent < MaxEnds
  /\ \E how \in {"ok", "error"} : sent' = sent + 1 /\ inbox' = Append(inbox, how)
  /\ UNCHANGED <<starting, mpv, exitError, conn, cut, terminal, playEnd, stopped, ended,
                 wait, polled, close, killed, cleaned>>

MpvExits ==
  /\ mpv = "running" /\ mpv' = "exited"
  /\ exitError' \in BOOLEAN
  /\ UNCHANGED <<starting, sent, inbox, conn, cut, terminal, playEnd, stopped, ended,
                 wait, polled, close, killed, cleaned>>

ReapProcess ==
  /\ mpv = "exited" /\ mpv' = "reaped"
  /\ UNCHANGED <<starting, exitError, sent, inbox, conn, cut, terminal, playEnd, stopped,
                 ended, wait, polled, close, killed, cleaned>>

(* acceptEvent: the first end is kept; WaitForEnd is told once.  What the
   reader has buffered is handled even after this side has closed. *)
AcceptEvent ==
  /\ conn \in {"up", "down"} /\ inbox # <<>>
  /\ inbox' = Tail(inbox)
  /\ terminal' = IF terminal = <<>> THEN <<Head(inbox)>> ELSE terminal
  /\ playEnd' = IF playEnd = <<>> THEN <<Head(inbox)>> ELSE playEnd
  /\ UNCHANGED <<starting, mpv, exitError, sent, conn, cut, stopped, ended, wait, polled,
                 close, killed, cleaned>>

(* The reader sees the end of the connection, behind everything mpv sent:
   shutdown closes Done. *)
Disconnect ==
  /\ conn = "up" /\ mpv # "running" /\ inbox = <<>>
  /\ conn' = "down"
  /\ UNCHANGED <<starting, mpv, exitError, sent, inbox, cut, terminal, playEnd, stopped,
                 ended, wait, polled, close, killed, cleaned>>

(* A message cannot be decoded, or a command cannot be written. *)
Break ==
  /\ conn = "up" /\ HangUp
  /\ UNCHANGED <<starting, mpv, exitError, sent, inbox, terminal, playEnd, stopped,
                 ended, wait, polled, close, killed, cleaned>>

(* readLoop returns; what it has not read by then is lost. *)
ReaderEnds ==
  /\ conn = "down" /\ conn' = "read"
  /\ UNCHANGED <<starting, mpv, exitError, sent, inbox, cut, terminal, playEnd, stopped,
                 ended, wait, polled, close, killed, cleaned>>

CloseEventsOnDisconnect ==
  /\ conn = "read" /\ ~stopped /\ stopped' = TRUE
  /\ UNCHANGED <<starting, mpv, exitError, sent, inbox, conn, cut, terminal, playEnd,
                 ended, wait, polled, close, killed, cleaned>>

SessionContextEnds(c) ==
  /\ c \notin ended /\ ended' = ended \union {c}
  /\ UNCHANGED <<starting, mpv, exitError, sent, inbox, conn, cut, terminal, playEnd,
                 stopped, wait, polled, close, killed, cleaned>>

---------------------------------------------------------------------------
(* Start                                                                   *)

StartTo(from, to) ==
  /\ starting = from /\ starting' = to
  /\ UNCHANGED <<mpv, exitError, sent, inbox, terminal, playEnd, stopped, ended, wait,
                 polled, close, killed>>

Connect == mpv = "running" /\ StartTo("spawned", "observing") /\ conn' = "up" /\ UNCHANGED <<cut, cleaned>>

(* connect fails: the child has exited, the context or the time is over. *)
ConnectFails == StartTo("spawned", "aborting") /\ UNCHANGED <<conn, cut, cleaned>>

(* The commands of observeProperties are answered, *)
Observed == conn = "up" /\ StartTo("observing", "ready") /\ UNCHANGED <<conn, cut, cleaned>>

(* or one of them is not. *)
ObserveFails == StartTo("observing", "aborting") /\ UNCHANGED <<conn, cut, cleaned>>

AbortStartup == StartTo("aborting", IF Reaped THEN "reaped" ELSE "killing") /\ HangUp /\ UNCHANGED cleaned

(* Killed as a group, then exactly; what is not reaped by then is reported. *)
AbortKills ==
  /\ Reaped \/ mpv = "running"
  /\ StartTo("killing", IF Reaped THEN "reaped" ELSE "unreaped") /\ UNCHANGED <<conn, cut, cleaned>>

StartFailed ==
  \/ StartTo("reaped", "failed") /\ cleaned' = TRUE /\ UNCHANGED <<conn, cut>>
  \/ StartTo("unreaped", "leaked") /\ cleaned' = TRUE /\ UNCHANGED <<conn, cut>>

---------------------------------------------------------------------------
(* WaitForEnd and PollTerminal                                             *)

WaitTo(from, to) ==
  /\ wait = from /\ wait' = to
  /\ UNCHANGED <<starting, mpv, exitError, sent, inbox, terminal, stopped, ended, polled,
                 close, killed, cleaned>>

CallWait == starting = "ready" /\ WaitTo("idle", "waiting") /\ UNCHANGED <<conn, cut, playEnd>>

(* playbackTerminalResult *)
Result(how) == IF how = "ok" /\ "wait" \in ended THEN "context" ELSE how

TakeEnd(from) ==
  /\ playEnd # <<>> /\ playEnd' = <<>>
  /\ WaitTo(from, Result(Head(playEnd))) /\ UNCHANGED <<conn, cut>>

SeeDisconnected == conn \in {"down", "read"} /\ WaitTo("waiting", "down") /\ UNCHANGED <<conn, cut, playEnd>>

SeeReadDone == conn = "read" /\ WaitTo("down", "recheck") /\ UNCHANGED <<conn, cut, playEnd>>

(* processCompletion when the child is reaped, the client's error if not. *)
Disconnected == IF "wait" \in ended THEN "context"
                ELSE IF ~Reaped THEN "disconnected" ELSE IF exitError THEN "exited" ELSE "quit"

(* Wrong variant: no second look at playbackEnd once the reader is done. *)
WaitFailsAtOnce ==
  /\ WaitTo("recheck", Disconnected) /\ UNCHANGED <<conn, cut, playEnd>>

WaitFails ==
  /\ playEnd = <<>>
  /\ WaitTo("recheck", Disconnected) /\ UNCHANGED <<conn, cut, playEnd>>

(* cancellationResult closes the client itself and waits for the reader. *)
PlayerWaitCanceled == "wait" \in ended /\ WaitTo("waiting", "canceling") /\ HangUp /\ UNCHANGED playEnd

CancellationResult ==
  /\ conn = "read"
  /\ \/ TakeEnd("canceling")
     \/ playEnd = <<>> /\ WaitTo("canceling", "context") /\ UNCHANGED <<conn, cut, playEnd>>

WaitForEnd ==
  \/ TakeEnd("waiting") \/ SeeDisconnected \/ TakeEnd("down") \/ SeeReadDone
  \/ TakeEnd("recheck") \/ WaitFails \/ PlayerWaitCanceled \/ CancellationResult

(* Asked, if at all, before anybody waits. *)
PollTerminal ==
  /\ starting = "ready" /\ polled = "no" /\ wait = "idle"
  /\ polled' = IF terminal # <<>> THEN terminal[1]
               ELSE IF conn # "read" THEN "no"
               ELSE IF ~Reaped THEN "disconnected" ELSE IF exitError THEN "exited" ELSE "quit"
  /\ polled' # "no"
  /\ UNCHANGED <<starting, mpv, exitError, sent, inbox, conn, cut, terminal, playEnd,
                 stopped, ended, wait, close, killed, cleaned>>

---------------------------------------------------------------------------
(* Close                                                                   *)

CloseTo(from, to) ==
  /\ close = from /\ close' = to
  /\ UNCHANGED <<starting, mpv, exitError, sent, inbox, terminal, playEnd, stopped, ended,
                 wait, polled>>

(* requestQuit only for a child that still runs. *)
CallClose ==
  /\ starting = "ready"
  /\ CloseTo("no", IF Reaped THEN "waiting" ELSE "quitting") /\ UNCHANGED <<conn, cut, killed, cleaned>>

(* closeOnLifecycleCancellation, unless the child was gone first. *)
CloseOnCancellation == "session" \in ended /\ ~Reaped /\ CallClose

QuitAnswered == CloseTo("quitting", "waiting") /\ UNCHANGED <<conn, cut, killed, cleaned>>

(* waitForDone has timed out: TERM, then KILL, for the whole group. *)
Terminate == CloseTo("waiting", "terminated") /\ killed' = TRUE /\ UNCHANGED <<conn, cut, cleaned>>
Kill == CloseTo("terminated", "killing") /\ UNCHANGED <<conn, cut, killed, cleaned>>

(* The group cannot be signalled: the exact child is killed. *)
KillExactChild ==
  /\ \E from \in {"waiting", "terminated"} : CloseTo(from, "killingExact")
  /\ UNCHANGED <<conn, cut, killed, cleaned>>

(* Wrong variant: after the signal the child is taken for gone. *)
SeeExitAtOnce ==
  /\ Reaped \/ close = "terminated"
  /\ \E from \in {"waiting", "terminated", "killing"} :
       CloseTo(from, IF killed \/ "session" \in ended \/ ~exitError THEN "closed" ELSE "exitError")
  /\ HangUp /\ cleaned' = TRUE /\ UNCHANGED killed

(* The child is gone: clean-up, the client, and the child's error unless it
   was signalled or the session's context has ended. *)
SeeExit ==
  /\ Reaped
  /\ \E from \in {"waiting", "terminated", "killing"} :
       CloseTo(from, IF killed \/ "session" \in ended \/ ~exitError THEN "closed" ELSE "exitError")
  /\ HangUp /\ cleaned' = TRUE /\ UNCHANGED killed

(* finishClose with an error: the child may be left. *)
CloseGivesUp ==
  /\ \E from \in {"killing", "killingExact"} : CloseTo(from, "error")
  /\ HangUp /\ cleaned' = TRUE /\ UNCHANGED killed

Closing == QuitAnswered \/ Terminate \/ Kill \/ KillExactChild \/ SeeExit \/ CloseGivesUp

PsProgress ==
  \/ ReapProcess \/ AcceptEvent \/ Disconnect \/ ReaderEnds \/ CloseEventsOnDisconnect
  \/ Connect \/ ConnectFails \/ Observed \/ ObserveFails \/ AbortStartup \/ AbortKills \/ StartFailed
  \/ WaitForEnd \/ CloseOnCancellation \/ Closing

PsNext ==
  \/ PsProgress \/ MpvEnds \/ MpvExits \/ Break \/ CallWait \/ PollTerminal \/ CallClose
  \/ \E c \in {"session", "wait"} : SessionContextEnds(c)

(* A goroutine that can go on does, and timers fire.  Nothing is asked of
   mpv, not even that it dies of a signal. *)
PsFairness == WF_psVars(PsProgress)

---------------------------------------------------------------------------
Results == {"ok", "error", "context", "disconnected", "exited", "quit"}
PsTypeOK ==
  /\ wait \in {"idle", "waiting", "down", "recheck", "canceling"} \union Results
  /\ polled \in (Results \union {"no"}) \ {"context"} /\ Len(playEnd) <= 1

(* How playback ended is the first end the reader saw, and it wins over a
   disconnection and over a cancellation that finds it recorded; a clean end
   is only reported for a context that still lives. *)
EndWins ==
  /\ wait \in {"disconnected", "exited", "quit"} => terminal = <<>>
  /\ wait = "context" => terminal # <<"error">>
  /\ wait \in {"ok", "error"} => terminal = <<wait>>

(* If mpv ends the connection itself, no end it sent before is missed. *)
EndNotLost == conn = "read" /\ mpv # "running" /\ ~cut => inbox = <<>>

(* What PollTerminal has once reported WaitForEnd does not contradict. *)
PollAgrees ==
  /\ polled \in {"ok", "error"} => terminal = <<polled>>
  /\ polled \in {"disconnected", "exited", "quit"} => terminal = <<>> /\ wait \notin {"ok", "error"}

(* A Close without error of its own leaves no child behind; any Close leaves
   neither the connection nor the runtime directory. *)
CloseCleans ==
  /\ close \in {"closed", "exitError"} => Reaped
  /\ close \in {"closed", "exitError", "error"} => conn # "up" /\ cleaned

(* A Start that failed leaves nothing, unless it reports the child. *)
StartCleans ==
  /\ starting \in {"failed", "leaked"} => conn # "up" /\ cleaned
  /\ starting = "failed" => Reaped

EventsClosedLast == stopped => conn = "read"

PsSafe == PsTypeOK /\ EndWins /\ EndNotLost /\ PollAgrees /\ CloseCleans /\ StartCleans /\ EventsClosedLast

(* Start and Close return, a canceled session is closed, and nobody waits for
   the end of a session that is closed or of a wait that is canceled. *)
PsAnswered ==
  /\ starting \in {"ready", "failed", "leaked"}
  /\ close \in {"no", "closed", "exitError", "error"}
  /\ starting = "ready" /\ "session" \in ended => close # "no" \/ Reaped
  /\ close # "no" \/ "wait" \in ended \/ mpv # "running" => wait \in {"idle"} \union Results
=============================================================================
