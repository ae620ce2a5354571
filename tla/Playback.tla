------------------------------ MODULE Playback ------------------------------
(***************************************************************************)
(* Playback of lectures (app/playback.go, StartLecture of app/frontend.go) *)
(* over the private HLS proxy (downloader/play.go) and the supervised      *)
(* player, of which PlayerSession has the details: here it is a child that *)
(* reports events and ends once.  One caller starts, waits and closes, as  *)
(* the operation of the interface (one lecture, perhaps resumed) and       *)
(* PlaySequential (one after the other) do; the segment handlers of the    *)
(* proxy and the player run beside it.                                     *)
(***************************************************************************)
EXTENDS Integers, Sequences

CONSTANTS Segments,     \* bound: requests for segments, per lecture
          MaxLectures   \* bound: lectures of PlaySequential

ASSUME PlaybackAssumption == MaxLectures \in Nat \ {0}

VARIABLES
  lecture,    \* the lecture that is played
  resume,     \* StartLecture has a position to resume at
  flow,       \* where the caller stands
  outcome,    \* what StartLecture or WaitForEnd has returned
  proxy,      \* the stream: none, serving, closed
  key,        \* playbackKey: "" before it is fetched, material, zeroed
  segment,    \* the handlers of the segment requests
  failures,   \* the channel playbackFailures.channel
  reported,   \* playbackFailures.once
  sticky,     \* proxyFailureReady
  owned,      \* failureWaitOwned
  child,      \* the player: none, running, closed
  end,        \* its terminal result
  events,     \* its events: ready (a duration), end (end-file)
  result,     \* the channel playerResult: none, pending, or what it holds
  ctx,        \* the caller's context has ended
  knew,       \* history: an end was observable when the readiness timer fired
  before      \* history: the failure had been reported when the player's result came

pbVars == <<lecture, resume, flow, outcome, proxy, key, segment, failures, reported,
            sticky, owned, child, end, events, result, ctx, knew, before>>
streamVars == <<key, segment, failures, reported>>
playerVars == <<end, events>>

Fresh ==
  /\ proxy' = "none" /\ key' = "" /\ segment' = [s \in Segments |-> "idle"]
  /\ failures' = <<>> /\ reported' = FALSE /\ sticky' = FALSE /\ owned' = FALSE
  /\ child' = "none" /\ end' = "no" /\ events' = <<>> /\ result' = "none"
  /\ outcome' = "none" /\ knew' = FALSE /\ before' = FALSE

PbInit ==
  /\ lecture = 1 /\ resume \in BOOLEAN /\ flow = "opening" /\ outcome = "none"
  /\ proxy = "none" /\ key = "" /\ segment = [s \in Segments |-> "idle"]
  /\ failures = <<>> /\ reported = FALSE /\ sticky = FALSE /\ owned = FALSE
  /\ child = "none" /\ end = "no" /\ events = <<>> /\ result = "none"
  /\ ctx = FALSE /\ knew = FALSE /\ before = FALSE

---------------------------------------------------------------------------
(* The proxy                                                               *)

SegmentTo(s, from, to) ==
  /\ segment[s] = from /\ segment' = [segment EXCEPT ![s] = to]
  /\ UNCHANGED <<lecture, resume, flow, outcome, proxy, sticky, owned, child, end, events,
                 result, ctx, knew, before>>

Request(s) == proxy = "serving" /\ SegmentTo(s, "idle", "fetching") /\ UNCHANGED <<key, failures, reported>>

(* The upstream refuses the login, or the origin is not one of the
   configured: reported, once. *)
UpstreamRefuses(s) ==
  /\ SegmentTo(s, "fetching", "done")
  /\ failures' = IF reported THEN failures ELSE <<"failure">>
  /\ reported' = TRUE /\ UNCHANGED key

(* Any other failure is the player's to see. *)
FetchFails(s) == SegmentTo(s, "fetching", "done") /\ UNCHANGED <<key, failures, reported>>

(* Wrong variant: acquire hands out the key itself. *)
AcquireShared(s) ==
  /\ SegmentTo(s, "fetching", IF key = "zeroed" THEN "done" ELSE "sharing")
  /\ UNCHANGED <<key, failures, reported>>

(* playbackKey.acquire: a copy, or 503 once the key is closed. *)
Acquire(s) ==
  /\ SegmentTo(s, "fetching", IF key = "zeroed" THEN "done" ELSE "decrypting")
  /\ UNCHANGED <<key, failures, reported>>

Serve(s) ==
  /\ \E from \in {"decrypting", "sharing"} : SegmentTo(s, from, "done")
  /\ UNCHANGED <<key, failures, reported>>

---------------------------------------------------------------------------
(* The player                                                              *)

PlayerTo(newEnd, event) ==
  /\ child = "running" /\ end = "no" /\ flow \notin {"starting", "loading"}
  /\ end' = newEnd /\ events' = IF event = "" THEN events ELSE Append(events, event)
  /\ UNCHANGED <<lecture, resume, flow, outcome, proxy, streamVars, sticky, owned, child,
                 result, ctx, knew, before>>

MediaReady == "ready" \notin {events[i] : i \in DOMAIN events} /\ resume /\ PlayerTo("no", "ready")
PlayerEnds == \E how \in {"ok", "error"} : PlayerTo(how, "end")

(* player.WaitForEnd returns into the channel, in its own goroutine. *)
PlayerResult ==
  /\ result = "pending"
  /\ \/ end # "no" /\ result' = (IF end = "ok" /\ ctx THEN "context" ELSE end)
     \/ end = "no" /\ ctx /\ result' = "context"
     \/ end = "no" /\ child = "closed" /\ result' = "error"
  /\ before' = reported
  /\ UNCHANGED <<lecture, resume, flow, outcome, proxy, streamVars, sticky, owned, child,
                 playerVars, ctx, knew>>

CallerContextEnds ==
  /\ ~ctx /\ ctx' = TRUE
  /\ UNCHANGED <<lecture, resume, flow, outcome, proxy, streamVars, sticky, owned, child,
                 playerVars, result, knew, before>>

---------------------------------------------------------------------------
(* StartPlayback and StartLecture                                          *)

FlowTo(from, to) ==
  /\ flow = from /\ flow' = to
  /\ UNCHANGED <<lecture, resume, segment, reported, ctx>>

(* StartPlaybackStream; on failure it gives the key up itself. *)
OpenStream ==
  /\ \/ FlowTo("opening", "starting") /\ proxy' = "serving" /\ key' = "material" /\ UNCHANGED outcome
     \/ FlowTo("opening", "returned") /\ outcome' = "failed" /\ key' \in {"", "zeroed"} /\ UNCHANGED proxy
  /\ UNCHANGED <<failures, sticky, owned, child, playerVars, result, knew, before>>

(* Wrong variant: a player that does not start leaves the stream open. *)
StartPlayerLeaks ==
  /\ \/ FlowTo("starting", "loading") /\ child' = "running" /\ UNCHANGED <<outcome, proxy, key>>
     \/ FlowTo("starting", "returned") /\ outcome' = "failed" /\ UNCHANGED <<child, proxy, key>>
  /\ UNCHANGED <<failures, sticky, owned, playerVars, result, knew, before>>

StartPlayer ==
  /\ \/ FlowTo("starting", "loading") /\ child' = "running" /\ UNCHANGED <<outcome, proxy, key>>
     \/ /\ FlowTo("starting", "returned") /\ outcome' = "failed"
        /\ proxy' = "closed" /\ key' = "zeroed" /\ UNCHANGED child
  /\ UNCHANGED <<failures, sticky, owned, playerVars, result, knew, before>>

Quiet == UNCHANGED <<proxy, key, failures, sticky, owned, child, end, result, before>>

Load ==
  /\ \/ FlowTo("loading", IF resume THEN "readying" ELSE "started") /\ UNCHANGED outcome
     \/ FlowTo("loading", "closing") /\ outcome' = "failed"
  /\ UNCHANGED <<events, knew>> /\ Quiet

(* waitForPlaybackReady: a duration is there, the file has ended, *)
TakeReadiness ==
  /\ events # <<>> /\ events' = Tail(events)
  /\ FlowTo("readying", IF Head(events) = "ready" THEN "seeking" ELSE "ended")
  /\ UNCHANGED <<outcome, knew>> /\ Quiet

(* or the time or the context is over. *)
ReadinessTimeout ==
  /\ FlowTo("readying", "draining")
  /\ knew' = (reported \/ end # "no")
  /\ UNCHANGED <<outcome, events>> /\ Quiet

(* One event is still looked at. *)
DrainOne ==
  /\ events' = IF events = <<>> THEN <<>> ELSE Tail(events)
  /\ FlowTo("draining", IF events # <<>> /\ Head(events) = "ready" THEN "seeking" ELSE "polling")
  /\ UNCHANGED <<outcome, knew>> /\ Quiet

(* pollProxyFailure; nobody waits for the end meanwhile. *)
TakeFailure == sticky' = (sticky \/ failures # <<>>) /\ failures' = <<>>

(* PollTerminal looks at the proxy, at the player, and at the proxy again. *)
PollFailure ==
  /\ FlowTo("polling", IF sticky \/ failures # <<>> THEN "closing" ELSE "pollingPlayer")
  /\ outcome' = IF sticky \/ failures # <<>> THEN "failure" ELSE outcome
  /\ TakeFailure
  /\ UNCHANGED <<proxy, key, owned, child, playerVars, result, knew, before>>

PollPlayer ==
  /\ FlowTo("pollingPlayer", IF end = "no" THEN "pollingLast" ELSE "pollingEnded")
  /\ UNCHANGED <<outcome, events, knew>> /\ Quiet

PollAgain ==
  /\ \E from \in {"pollingLast", "pollingEnded"} :
       /\ FlowTo(from, "closing")
       /\ outcome' = IF sticky \/ failures # <<>> THEN "failure"
                     ELSE IF from = "pollingEnded" THEN (IF end = "error" THEN "error" ELSE "ended")
                     ELSE IF ctx THEN "context" ELSE "timeout"
  /\ TakeFailure
  /\ UNCHANGED <<proxy, key, owned, child, playerVars, result, knew, before>>

(* SeekAbsolute, then the telemetry that waits is handed over. *)
Seek ==
  /\ \/ FlowTo("seeking", "started") /\ events' = <<>> /\ UNCHANGED outcome
     \/ FlowTo("seeking", "closing") /\ outcome' = "failed" /\ UNCHANGED events
  /\ UNCHANGED knew /\ Quiet

---------------------------------------------------------------------------
(* WaitForEnd, once while starting (the file ended before it was ready) and
   once for a started playback.                                            *)

Starting == flow \in {"ended", "started"}

BeginWait ==
  /\ Starting
  /\ IF sticky \/ failures # <<>>
     THEN /\ FlowTo(flow, "closing") /\ outcome' = "failure" /\ TakeFailure
          /\ UNCHANGED <<owned, result>>
     ELSE /\ FlowTo(flow, "waiting") /\ owned' = TRUE /\ result' = "pending"
          /\ UNCHANGED <<outcome, sticky, failures>>
  /\ UNCHANGED <<proxy, key, child, playerVars, knew, before>>

(* The failure is received; recordProxyFailure comes in another critical
   section. *)
ReceiveFailure ==
  /\ failures # <<>> /\ failures' = <<>>
  /\ \E from \in {"waiting", "canceled", "checking"} : FlowTo(from, "recording")
  /\ UNCHANGED <<outcome, proxy, key, sticky, owned, child, playerVars, result, knew, before>>

RecordFailure ==
  /\ FlowTo("recording", "closing")
  /\ sticky' = TRUE /\ outcome' = "failure" /\ owned' = FALSE
  /\ UNCHANGED <<proxy, key, failures, child, playerVars, result, knew, before>>

WaitCanceled == ctx /\ FlowTo("waiting", "canceled") /\ UNCHANGED <<outcome, events, knew>> /\ Quiet

ReceiveResult ==
  /\ result \in {"ok", "error", "context"}
  /\ \E from \in {"waiting", "canceled"} : FlowTo(from, "checking")
  /\ UNCHANGED <<outcome, events, knew>> /\ Quiet

(* Wrong variant: the failures are not looked at again. *)
ReturnAtOnce ==
  /\ FlowTo("checking", "closing") /\ owned' = FALSE
  /\ outcome' = IF result = "ok" /\ ctx THEN "context" ELSE result
  /\ UNCHANGED <<proxy, key, failures, sticky, child, playerVars, result, knew, before>>

(* A failure that is there wins over the player's result. *)
ReturnResult ==
  /\ failures = <<>>
  /\ FlowTo("checking", "closing") /\ owned' = FALSE
  /\ outcome' = IF result = "ok" /\ ctx THEN "context" ELSE result
  /\ UNCHANGED <<proxy, key, failures, sticky, child, playerVars, result, knew, before>>

---------------------------------------------------------------------------
(* Close and PlaySequential                                                *)

(* The caller may give a started playback up without waiting. *)
GiveUp == FlowTo("started", "closing") /\ outcome' = "given up" /\ UNCHANGED <<events, knew>> /\ Quiet

ClosePlayer ==
  /\ FlowTo("closing", "cleaning") /\ child' = "closed"
  /\ UNCHANGED <<outcome, proxy, key, failures, sticky, owned, playerVars, result, knew, before>>

(* Shutdown waits for the handlers, but not for long; then the key goes. *)
CleanUp ==
  /\ FlowTo("cleaning", "returned") /\ proxy' = "closed" /\ key' = "zeroed"
  /\ UNCHANGED <<outcome, failures, sticky, owned, child, playerVars, result, knew, before>>

NextLecture ==
  /\ flow = "returned" /\ outcome = "ok" /\ ~resume /\ lecture < MaxLectures
  /\ result # "pending" /\ \A s \in Segments : segment[s] \in {"idle", "done"}
  /\ lecture' = lecture + 1 /\ flow' = "opening" /\ Fresh /\ UNCHANGED <<resume, ctx>>

PbProgress ==
  \/ OpenStream \/ StartPlayer \/ Load \/ TakeReadiness \/ ReadinessTimeout \/ DrainOne
  \/ PollFailure \/ PollPlayer \/ PollAgain \/ Seek
  \/ BeginWait \/ ReceiveFailure \/ RecordFailure \/ WaitCanceled \/ ReceiveResult \/ ReturnResult
  \/ PlayerResult \/ ClosePlayer \/ CleanUp \/ NextLecture
  \/ \E s \in Segments : UpstreamRefuses(s) \/ FetchFails(s) \/ Acquire(s) \/ Serve(s)

PbNext ==
  \/ PbProgress \/ MediaReady \/ PlayerEnds \/ CallerContextEnds \/ GiveUp
  \/ \E s \in Segments : Request(s)

(* Goroutines that can go on do, upstream requests and timers end.  The player
   need not end. *)
PbFairness == WF_pbVars(PbProgress)

---------------------------------------------------------------------------
Outcomes == {"none", "failed", "failure", "error", "ended", "context", "timeout", "ok", "given up"}
PbTypeOK ==
  /\ outcome \in Outcomes /\ Len(failures) <= 1 /\ Len(events) <= 2
  /\ result \in {"none", "pending", "ok", "error", "context"} /\ lecture \in 1..MaxLectures

(* A reported failure of the proxy is in one place: the channel, the hands of
   WaitForEnd, or kept for good. *)
FailureKept ==
  reported =>
    (IF failures # <<>> THEN 1 ELSE 0) + (IF flow = "recording" THEN 1 ELSE 0) + (IF sticky THEN 1 ELSE 0) = 1

(* A failure reported before the player's result came is what WaitForEnd
   returns, however both became ready. *)
FailureWins == flow \in {"closing", "cleaning", "returned"} /\ outcome \in {"ok", "error", "context"} /\ owned = FALSE
                 /\ result # "none" /\ result # "pending" => ~before

(* A readiness wait is called a timeout only if no end was observable. *)
TimeoutHonest == outcome = "timeout" => ~knew

(* A handler never decrypts with a key that Close has zeroed. *)
KeyIntact == \A s \in Segments : segment[s] = "sharing" => key = "material"

(* Who gets an error from StartLecture, or has closed, owns nothing. *)
NothingLeft == flow = "returned" => proxy # "serving" /\ key # "material" /\ child # "running"

PbSafe == PbTypeOK /\ FailureKept /\ FailureWins /\ TimeoutHonest /\ KeyIntact /\ NothingLeft

(* Starting ends; waiting ends once something has happened; Close ends, and
   with it the goroutine that waits for the player. *)
PbAnswered ==
  /\ (flow = "returned" /\ result # "pending") \/ (flow = "waiting" /\ end = "no" /\ failures = <<>> /\ ~ctx)
  /\ \A s \in Segments : segment[s] \in {"idle", "done"}
=============================================================================
