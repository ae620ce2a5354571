----------------------------- MODULE Workspace -----------------------------
(***************************************************************************)
(* The controller of the terminal front end (ui/src: the workspace         *)
(* controller, its operations and main.ts).  The program is single         *)
(* threaded: an action is what one callback or continuation does before it *)
(* awaits again.  Answers to requests and the event stream are separate    *)
(* connections, so an event may overtake the answer it belongs to.  The    *)
(* session behind them is TuiSession; here an operation is only what it    *)
(* has told.                                                               *)
(***************************************************************************)
EXTENDS Integers, Sequences, FiniteSets

CONSTANTS MaxStarts,     \* bound: operations the session starts
          MaxInputs,     \* bound: commands of the user
          MaxCourses     \* bound: courses to open

ASSUME WorkspaceAssumption == {MaxStarts, MaxInputs, MaxCourses} \subseteq Nat

Operations == 1..MaxStarts
Courses == 1..MaxCourses
NoOperation == [id |-> 0, kind |-> "none", state |-> "none"]

VARIABLES
  ui,        \* FoundationState
  early,     \* #earlyOperationEvents: the last state told, by operation
  moved,     \* #navigationRevision is not the one goBack has remembered
  request,   \* the request in flight: its target, course and step
  start,     \* the start in flight: its kind, the operation the session made of it
  back,      \* the goBack that waits for a cancellation: its checkpoint
  server,    \* the state of each operation at the session
  queue,     \* events on their way
  told,      \* history: the last state of an operation that was delivered
  undone,    \* history: a goBack has undone a later navigation
  accepted,  \* history: navigations accepted since the goBack was pressed
  inputs,    \* commands so far
  quitting   \* the interface is leaving: everything in flight is aborted

wsVars == <<ui, early, moved, request, start, back, server, queue, told,
            undone, accepted, inputs, quitting>>
serverVars == <<server, queue, told>>

None == <<>>
TerminalStates == {"completed", "failed", "canceled"}

WsInit ==
  /\ \E auth \in {"ready", "unavailable"} :
       ui = [screen |-> "courses", loading |-> FALSE, pending |-> "none", auth |-> auth,
             operation |-> NoOperation, course |-> 0, lectures |-> 0]
  /\ early = [o \in Operations |-> "none"] /\ moved = FALSE /\ quitting = FALSE
  /\ request = None /\ start = None /\ back = None
  /\ server = [o \in Operations |-> "none"] /\ queue = <<>>
  /\ told = [o \in Operations |-> "running"]
  /\ undone = FALSE /\ accepted = FALSE /\ inputs = 0

---------------------------------------------------------------------------
(* #set: an event that came early is applied when its operation is there,  *)
(* and what is left of them goes when no start is under way.               *)

StartingOperation(s) == s.loading /\ s.pending = "none"

SameNavigation(s, t) ==
  /\ s.screen = t.screen /\ s.course = t.course /\ s.pending = t.pending
  /\ StartingOperation(s) = StartingOperation(t)
  /\ s.operation.id = t.operation.id /\ s.operation.kind = t.operation.kind

SetState(s) ==
  LET o == s.operation.id
      hit == o # 0 /\ early[o] # "none"
  IN /\ ui' = IF hit THEN [s EXCEPT !.operation.state = early[o]] ELSE s
     /\ early' = IF ~StartingOperation(s) THEN [p \in Operations |-> "none"]
                 ELSE IF hit THEN [early EXCEPT ![o] = "none"] ELSE early
     /\ moved' = (moved \/ ~SameNavigation(ui, s))

Input == ~quitting /\ inputs < MaxInputs /\ inputs' = inputs + 1 /\ accepted' = TRUE

---------------------------------------------------------------------------
(* Navigation                                                              *)

(* #begin, with what loadLectures sets before it awaits. *)
BeginRequest(target, course, step) ==
  /\ request' = <<[target |-> target, course |-> course, step |-> step]>>
  /\ SetState([ui EXCEPT !.loading = TRUE, !.pending = target, !.screen = target,
                         !.course = IF course # 0 THEN course ELSE @,
                         !.lectures = IF course \notin {0, ui.course} THEN 0 ELSE @])
  /\ UNCHANGED <<start, back, serverVars, undone, quitting>>

Navigate ==
  /\ ~ui.loading /\ Input
  /\ \/ ui.auth = "ready" /\ BeginRequest("courses", 0, "load")
     \/ ui.auth = "ready" /\ \E c \in Courses : BeginRequest("lectures", c, "load")
     \/ \E target \in {"library", "diagnostics"} : BeginRequest(target, 0, "load")

Retry ==
  /\ ~ui.loading /\ Input
  /\ IF ui.auth # "ready"
     THEN BeginRequest(IF ui.screen = "playback" THEN "courses" ELSE ui.screen, 0, "authenticate")
     ELSE IF ui.screen = "lectures" /\ ui.course # 0 THEN BeginRequest("lectures", ui.course, "load")
     ELSE BeginRequest(IF ui.screen \in {"library", "diagnostics"} THEN ui.screen ELSE "courses", 0, "load")

(* Only one request is under way at a time; abort takes its number away. *)
Current == ui.pending # "none"

(* #finish and #fail, and the second step of #retryAuthentication. *)
RequestAnswered ==
  /\ request # None
  /\ LET r == request[1]
         done == [ui EXCEPT !.loading = FALSE, !.pending = "none"]
     IN IF ~Current THEN request' = None /\ UNCHANGED <<ui, early, moved>>
        ELSE \/ /\ r.step = "load" /\ request' = None
                /\ SetState(IF r.target = "lectures" THEN [done EXCEPT !.lectures = r.course] ELSE done)
             \/ request' = None /\ SetState(done)
             \/ /\ r.step = "authenticate"
                /\ request' = <<[target |-> "courses", course |-> 0, step |-> "load"]>>
                /\ SetState([ui EXCEPT !.auth = "ready", !.screen = "courses"])
  /\ UNCHANGED <<start, back, serverVars, undone, accepted, inputs, quitting>>

---------------------------------------------------------------------------
(* Starting an operation                                                   *)

Unstarted == {o \in Operations : server[o] = "none"}

(* startPlayback leaves for the playback screen and forgets the operation
   before; a download and a self-test keep both. *)
StartOperation(kind) ==
  /\ Input /\ ui.operation.state # "running" /\ ~ui.loading /\ Unstarted # {} /\ start = None
  /\ start' = <<[kind |-> kind, id |-> 0]>>
  /\ SetState(IF kind = "playback"
              THEN [ui EXCEPT !.loading = TRUE, !.operation = NoOperation, !.screen = "playback"]
              ELSE [ui EXCEPT !.loading = TRUE])
  /\ UNCHANGED <<request, back, serverVars, undone, quitting>>

(* The session registers the operation and tells it on the stream. *)
SessionStarts ==
  /\ start # None /\ start[1].id = 0 /\ Unstarted # {}
  /\ LET o == CHOOSE o \in Unstarted : \A p \in Unstarted : o <= p
     IN /\ start' = <<[start[1] EXCEPT !.id = o]>>
        /\ server' = [server EXCEPT ![o] = "running"]
        /\ queue' = Append(queue, [id |-> o, state |-> "running"])
  /\ UNCHANGED <<ui, early, moved, request, back, told, undone, accepted, inputs, quitting>>

(* The answer: the operation as it was registered. *)
StartAnswered ==
  /\ start # None /\ start[1].id # 0 /\ ~quitting
  /\ start' = None
  /\ SetState([ui EXCEPT !.loading = FALSE,
                         !.operation = [id |-> start[1].id, kind |-> start[1].kind, state |-> "running"]])
  /\ UNCHANGED <<request, back, serverVars, undone, accepted, inputs, quitting>>

(* A refusal, or no answer, perhaps although the session has started it. *)
StartFails ==
  /\ start # None /\ ~quitting
  /\ start' = None
  /\ SetState([ui EXCEPT !.loading = FALSE])
  /\ UNCHANGED <<request, back, serverVars, undone, accepted, inputs, quitting>>

---------------------------------------------------------------------------
(* Events                                                                  *)

SessionEnds(o, state) ==
  /\ server[o] = "running"
  /\ server' = [server EXCEPT ![o] = state]
  /\ queue' = Append(queue, [id |-> o, state |-> state])
  /\ UNCHANGED <<ui, early, moved, request, start, back, told, undone, accepted, inputs, quitting>>

(* Wrong variant: an event of an operation that is not shown is dropped. *)
ApplyOnlyShown ==
  /\ ~quitting /\ queue # <<>> /\ queue' = Tail(queue)
  /\ LET e == Head(queue)
     IN /\ told' = [told EXCEPT ![e.id] = e.state]
        /\ IF e.id = ui.operation.id
           THEN SetState([ui EXCEPT !.operation.state = e.state])
           ELSE UNCHANGED <<ui, early, moved>>
  /\ UNCHANGED <<request, start, back, server, undone, accepted, inputs, quitting>>

ApplyEvent ==
  /\ ~quitting /\ queue # <<>> /\ queue' = Tail(queue)
  /\ LET e == Head(queue)
     IN /\ told' = [told EXCEPT ![e.id] = e.state]
        /\ IF e.id = ui.operation.id
           THEN SetState([ui EXCEPT !.operation.state = e.state])
           ELSE /\ early' = IF StartingOperation(ui) THEN [early EXCEPT ![e.id] = e.state] ELSE early
                /\ UNCHANGED <<ui, moved>>
  /\ UNCHANGED <<request, start, back, server, undone, accepted, inputs, quitting>>

---------------------------------------------------------------------------
(* Going back                                                              *)

MustCancel ==
  /\ ui.operation.state = "running"
  /\ ui.operation.kind = "download" \/ (ui.screen = "playback" /\ ui.operation.kind = "playback")

(* DELETE cancels at the session and is answered when the operation ends. *)
PressBack ==
  /\ ~quitting /\ back = None /\ inputs < MaxInputs /\ inputs' = inputs + 1
  /\ moved' = FALSE
  /\ back' = <<[screen |-> ui.screen, course |-> ui.course,
                cancel |-> IF MustCancel THEN ui.operation.id ELSE 0]>>
  /\ accepted' = FALSE
  /\ UNCHANGED <<ui, early, request, start, serverVars, undone, quitting>>

SessionCancels == back # None /\ back[1].cancel # 0 /\ SessionEnds(back[1].cancel, "canceled")

(* completeBackNavigation *)
BackFrom(s) ==
  IF s.screen = "playback" THEN "lectures"
  ELSE IF s.screen = "lectures" \/ s.course = 0 THEN "courses" ELSE "lectures"

Completes(b) == ui.screen = b.screen /\ ui.course = b.course /\ ~ui.loading

(* Wrong variant: the screen alone says whether the user is still there. *)
BackIfSameScreen ==
  /\ ~quitting /\ back # None /\ back' = None
  /\ IF Completes(back[1])
     THEN /\ SetState([ui EXCEPT !.screen = BackFrom(ui)])
          /\ undone' = (undone \/ accepted)
     ELSE UNCHANGED <<ui, early, moved, undone>>
  /\ UNCHANGED <<request, start, serverVars, accepted, inputs, quitting>>

(* The cancellation is answered, or has failed. *)
BackDone ==
  /\ ~quitting /\ back # None /\ back' = None
  /\ IF ~moved /\ Completes(back[1])
     THEN /\ SetState([ui EXCEPT !.screen = BackFrom(ui)])
          /\ undone' = (undone \/ accepted)
     ELSE UNCHANGED <<ui, early, moved, undone>>
  /\ UNCHANGED <<request, start, serverVars, accepted, inputs, quitting>>

---------------------------------------------------------------------------
(* Leaving                                                                 *)

(* The event stream and every request are aborted, and then the controller. *)
QuitInterface ==
  /\ ~quitting /\ quitting' = TRUE
  /\ SetState([ui EXCEPT !.loading = FALSE, !.pending = "none"])
  /\ UNCHANGED <<request, start, back, serverVars, undone, accepted, inputs>>

(* Who finds its signal aborted leaves the state alone. *)
AnswerAborted ==
  /\ quitting /\ (start # None \/ back # None)
  /\ start' = None /\ back' = None
  /\ UNCHANGED <<ui, early, moved, request, serverVars, undone, accepted, inputs, quitting>>

WsProgress == \/ RequestAnswered \/ SessionStarts \/ StartAnswered \/ StartFails \/ ApplyEvent
              \/ BackDone \/ AnswerAborted

WsNext ==
  \/ WsProgress \/ Navigate \/ Retry \/ PressBack \/ SessionCancels \/ QuitInterface
  \/ \E kind \in {"playback", "download", "selftest"} : StartOperation(kind)
  \/ \E o \in Operations, state \in {"completed", "failed"} : SessionEnds(o, state)

(* Requests are answered or fail, and delivered events are handled. *)
WsFairness == WF_wsVars(WsProgress)

---------------------------------------------------------------------------
WsTypeOK ==
  /\ ui.screen \in {"courses", "lectures", "library", "diagnostics", "playback"}
  /\ ui.operation.state \in TerminalStates \union {"none", "running"} /\ Len(queue) <= 2 * MaxStarts

(* The operation shown is in the state that was last told of it, although
   its events may have come before the answer that installs it. *)
ShownIsTold == ui.operation.id # 0 => ui.operation.state = told[ui.operation.id]

(* A slow goBack never undoes a navigation the user made after pressing it. *)
BackUndoesNothing == ~undone

(* The lectures on the screen are those of the course that is open. *)
LecturesOfCourse == ui.screen = "lectures" => ui.lectures \in {0, ui.course}

(* The screen loads exactly while something is on its way that will end it:
   one request, or one start, never both. *)
OneWaiting ==
  ~quitting => /\ ui.loading <=> request # None \/ start # None
               /\ ui.pending # "none" <=> request # None
               /\ request = None \/ start = None

WsSafe == WsTypeOK /\ ShownIsTold /\ BackUndoesNothing /\ LecturesOfCourse /\ OneWaiting

(* The user is never left with a screen that loads for ever, or with an
   operation that runs only on the screen. *)
WsAnswered ==
  /\ ~ui.loading /\ back = None
  /\ ~quitting /\ ui.operation.id # 0 => ui.operation.state = server[ui.operation.id]
=============================================================================
