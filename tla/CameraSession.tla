--------------------------- MODULE CameraSession ---------------------------
(***************************************************************************)
(* The USB camera session of the Pi (UsbCameraSessionManager): a page      *)
(* starts a session, a worker thread captures frames and looks for a QR    *)
(* code until one is found, the camera fails or the session is stopped.    *)
(*                                                                         *)
(* start runs on the event loop, so no two starts overlap; stop runs on    *)
(* threads of the pool.  A capture and the decoding of its frame run       *)
(* outside the lock.  A session id stands for its worker thread and for    *)
(* its stop event as well: start makes one of each.                        *)
(***************************************************************************)
EXTENDS FiniteSets

CONSTANTS Sessions,   \* the sessions that may be started
          Stoppers,   \* the threads that serve calls of stop
          Starter,    \* the thread of the event loop
          NoSession   \* an empty session id, and no thread

ASSUME SessionAssumption ==
  /\ NoSession \notin Sessions
  /\ Starter \notin Stoppers

VARIABLES state,      \* _state: what the page is shown, guarded by the lock
          installed,  \* _thread and _stop_event: the worker a stop would end
          told,       \* the sessions whose stop event is set
          worker,     \* how far the worker of each session is
          call        \* how far each call of start or stop is

vars == <<state, installed, told, worker, call>>

Callers == Stoppers \cup {Starter}
SessionOrNone == Sessions \cup {NoSession}

\* frame and result name the session whose worker stored them.
Empty == [session |-> NoSession, running |-> FALSE,
          frame |-> NoSession, result |-> NoSession]
Idle == [at |-> "idle", session |-> NoSession, victim |-> NoSession]

Init ==
  /\ state = Empty
  /\ installed = NoSession
  /\ told = {}
  /\ worker = [s \in Sessions |-> "unborn"]
  /\ call = [c \in Callers |-> Idle]

Alive(s) == worker[s] \notin {"unborn", "done"}

Fresh(s) == worker[s] = "unborn" /\ \A c \in Callers : call[c].session # s
----------------------------------------------------------------------------
(* Calls of start and stop.  Both end the installed worker first.          *)

BeginStart(s) ==
  /\ call[Starter] = Idle
  /\ Fresh(s)
  /\ call' = [call EXCEPT ![Starter].at = "halt", ![Starter].session = s]
  /\ UNCHANGED <<state, installed, told, worker>>

BeginStop(c) ==
  /\ call[c] = Idle
  /\ call' = [call EXCEPT ![c].at = "halt"]
  /\ UNCHANGED <<state, installed, told, worker>>

\* Under the lock: empty the state, take the worker and its event out.
Halt(c) ==
  /\ call[c].at = "halt"
  /\ state' = Empty
  /\ installed' = NoSession
  /\ call' = [call EXCEPT ![c].at = "signal", ![c].victim = installed]
  /\ UNCHANGED <<told, worker>>

\* Wrong: even if there was no worker to stop.
SignalAnyway(c) ==
  /\ call[c].at = "signal"
  /\ told' = told \cup {call[c].victim}
  /\ call' = [call EXCEPT ![c].at = "join"]
  /\ UNCHANGED <<state, installed, worker>>

\* Wrong: the worker is only waited for.
SignalNothing(c) ==
  /\ call[c].at = "signal"
  /\ call' = [call EXCEPT ![c].at = "join"]
  /\ UNCHANGED <<state, installed, told, worker>>

\* Set the stop event, and wait for the worker unless it is not running.
Signal(c) ==
  /\ call[c].at = "signal"
  /\ told' = told \cup ({call[c].victim} \ {NoSession})
  /\ call' = [call EXCEPT ![c].at = "join"]
  /\ UNCHANGED <<state, installed, worker>>

\* The wait ends after two seconds even if the worker has not: a capture
\* may take longer.
Join(c) ==
  /\ call[c].at = "join"
  /\ call' = IF c = Starter
             THEN [call EXCEPT ![c].at = "install", ![c].victim = NoSession]
             ELSE [call EXCEPT ![c] = Idle]
  /\ UNCHANGED <<state, installed, told, worker>>

Install ==
  /\ call[Starter].at = "install"
  /\ LET s == call[Starter].session
     IN  /\ state' = [Empty EXCEPT !.session = s, !.running = TRUE]
         /\ installed' = s
  /\ call' = [call EXCEPT ![Starter].at = "spawn"]
  /\ UNCHANGED <<told, worker>>

\* The worker starts outside the lock: it may have been stopped already.
Spawn ==
  /\ call[Starter].at = "spawn"
  /\ worker' = [worker EXCEPT ![call[Starter].session] = "loop"]
  /\ call' = [call EXCEPT ![Starter] = Idle]
  /\ UNCHANGED <<state, installed, told>>
----------------------------------------------------------------------------
(* The worker.                                                             *)

Move(s, to) == worker' = [worker EXCEPT ![s] = to]

\* while not stop_event.is_set()
TestEvent(s) ==
  /\ worker[s] = "loop"
  /\ Move(s, IF s \in told THEN "done" ELSE "check")
  /\ UNCHANGED <<state, installed, told, call>>

\* Is the session still the current one?  Nothing but an empty state is
\* inactive.
CheckSession(s) ==
  /\ worker[s] = "check"
  /\ Move(s, IF state.session # s THEN "done" ELSE "capture")
  /\ UNCHANGED <<state, installed, told, call>>

Capture(s) ==
  /\ worker[s] = "capture"
  /\ \E to \in {"publish", "fail"} : Move(s, to)
  /\ UNCHANGED <<state, installed, told, call>>

\* Wrong: whatever session is current.
PublishUnchecked(s) ==
  /\ worker[s] = "publish"
  /\ Move(s, "decode")
  /\ state' = [state EXCEPT !.frame = s, !.result = NoSession]
  /\ UNCHANGED <<installed, told, call>>

\* Wrong: another frame is captured if the session has changed.
PublishOrRetry(s) ==
  /\ worker[s] = "publish"
  /\ IF state.session # s
     THEN Move(s, "capture") /\ UNCHANGED state
     ELSE Move(s, "decode") /\ state' = [state EXCEPT !.frame = s, !.result = NoSession]
  /\ UNCHANGED <<installed, told, call>>

\* A worker stores nothing into the state of another session.
Publish(s) ==
  /\ worker[s] = "publish"
  /\ IF state.session # s
     THEN Move(s, "done") /\ UNCHANGED state
     ELSE Move(s, "decode") /\ state' = [state EXCEPT !.frame = s, !.result = NoSession]
  /\ UNCHANGED <<installed, told, call>>

\* No code in the frame, a code, or a failure of the decoder.
Decode(s) ==
  /\ worker[s] = "decode"
  /\ \E to \in {"wait", "found", "fail"} : Move(s, to)
  /\ UNCHANGED <<state, installed, told, call>>

\* Wrong: the session stays running.
FinishSilently(s) ==
  /\ worker[s] \in {"found", "fail"}
  /\ Move(s, "done")
  /\ state' = IF state.session # s THEN state ELSE [state EXCEPT !.result = s]
  /\ UNCHANGED <<installed, told, call>>

\* Wrong: after a failure the worker tries again.
FinishOrGoOn(s) ==
  /\ worker[s] \in {"found", "fail"}
  /\ Move(s, IF worker[s] = "fail" THEN "wait" ELSE "done")
  /\ state' = IF state.session # s THEN state
              ELSE [state EXCEPT !.result = s, !.running = FALSE]
  /\ UNCHANGED <<installed, told, call>>

\* A code that was found, or an error, ends the worker.
Finish(s) ==
  /\ worker[s] \in {"found", "fail"}
  /\ Move(s, "done")
  /\ state' = IF state.session # s THEN state
              ELSE [state EXCEPT !.result = s, !.running = FALSE]
  /\ UNCHANGED <<installed, told, call>>

Pause(s) ==
  /\ worker[s] = "wait"
  /\ Move(s, "loop")
  /\ UNCHANGED <<state, installed, told, call>>

Work(s) ==
  \/ TestEvent(s) \/ CheckSession(s) \/ Capture(s) \/ Publish(s)
  \/ Decode(s) \/ Finish(s) \/ Pause(s)

Serve(c) == Halt(c) \/ Signal(c) \/ Join(c)

Next ==
  \/ \E s \in Sessions : BeginStart(s) \/ Work(s)
  \/ \E c \in Stoppers : BeginStop(c)
  \/ \E c \in Callers : Serve(c)
  \/ Install \/ Spawn

Spec == Init /\ [][Next]_vars

\* A thread that can run does.  Nobody has to start or stop a session.
Fairness ==
  /\ \A s \in Sessions : WF_vars(Work(s))
  /\ \A c \in Callers : WF_vars(Serve(c))
  /\ WF_vars(Install \/ Spawn)

FairSpec == Spec /\ Fairness
----------------------------------------------------------------------------
TypeOK ==
  /\ state \in [session : SessionOrNone, running : BOOLEAN,
                frame : SessionOrNone, result : SessionOrNone]
  /\ installed \in SessionOrNone
  /\ told \subseteq Sessions
  /\ worker \in [Sessions -> {"unborn", "loop", "check", "capture", "publish",
                              "decode", "found", "fail", "wait", "done"}]
  /\ call \in [Callers -> [at : {"idle", "halt", "signal", "join", "install", "spawn"},
                           session : SessionOrNone, victim : SessionOrNone]]

\* The frame, the code and the error a page is shown come from the session
\* it is shown as current, although a replaced worker may still finish a
\* capture or a decoding it has begun (_capture_loop).
ShownOfSession ==
  /\ state.frame \in {NoSession, state.session}
  /\ state.result \in {NoSession, state.session}

\* A session that is shown as running has a worker that will go on, or one
\* that start is about to run: no page waits for frames nobody captures.
RunningHasWorker ==
  state.running =>
    /\ installed = state.session
    /\ state.session \notin told
    /\ \/ Alive(state.session)
       \/ call[Starter].at = "spawn" /\ call[Starter].session = state.session

\* A worker that is not the installed one has been told to stop, or a call
\* that took it out is about to tell it: none keeps the camera unnoticed.
NoWorkerForgotten ==
  \A s \in Sessions :
    Alive(s) /\ s # installed =>
      s \in told \/ \E c \in Callers : call[c].at = "signal" /\ call[c].victim = s

\* A page that polls snapshot sees what CameraPage promises, with starts, stops
\* and workers of older sessions going on at the same time: one session after
\* the other, each with frames until its code or error, which then stays.
Page == INSTANCE CameraPage WITH
  shown <- state,
  begun <- {s \in Sessions : \/ worker[s] # "unborn"
                             \/ call[Starter].at = "spawn" /\ call[Starter].session = s}
OneSessionAfterAnother == Page!Spec

\* The worker of a session that was stopped or replaced comes to an end and
\* frees the camera, even if the call that stopped it did not wait for it.
ReplacedWorkersEnd ==
  \A s \in Sessions : (Alive(s) /\ state.session # s) ~> worker[s] = "done"

============================================================================
