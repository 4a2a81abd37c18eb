------------------------ MODULE CameraSessionProofs ------------------------
(***************************************************************************)
(* Theorems about CameraSession, for every set of sessions and of threads  *)
(* that stop them.                                                         *)
(*                                                                         *)
(* The argument is about which sessions can be known at all: a session     *)
(* that start is still preparing has no worker, so nobody can have told    *)
(* it to stop, and a worker that is taken out stays the business of one    *)
(* call until its stop event is set.                                       *)
(***************************************************************************)
EXTENDS CameraSession, TLAPS

\* The worker of s is installed but has not been run yet.
Spawning(s) == call[Starter].at = "spawn" /\ call[Starter].session = s

\* A call has taken the worker of s out and is about to tell it.
Signalling(c, s) == call[c].at = "signal" /\ call[c].victim = s

Ending(s) == s \in told \/ \E c \in Callers : Signalling(c, s)

\* Somebody has seen session s.
Known(s) ==
    \/ s = installed \/ s = state.session \/ s \in told
    \/ \E c \in Callers : call[c].victim = s

\* Only start makes sessions known, and runs the worker of each at once.
KnownHasWorker == \A s \in Sessions : Known(s) => worker[s] # "unborn" \/ Spawning(s)

\* The session that start prepares has no worker until it is spawned.
PreparedUnborn ==
    call[Starter].at # "idle" =>
        call[Starter].session \in Sessions /\ worker[call[Starter].session] = "unborn"

\* A worker that a call took out is not installed again.
VictimsOut ==
    \A c \in Callers : \A s \in Sessions : Signalling(c, s) => s # installed

\* A stop may take out the worker before it runs.
SpawningIsNoticed == \A s \in Sessions : Spawning(s) => s = installed \/ Ending(s)

\* No worker is installed between the two locked parts of start.
StartHasTheCamera ==
    call[Starter].at \in {"signal", "join", "install"} => installed = NoSession

CameraInv ==
    /\ TypeOK
    /\ state.running => state.session # NoSession
    /\ KnownHasWorker /\ PreparedUnborn /\ VictimsOut
    /\ SpawningIsNoticed /\ StartHasTheCamera
    /\ ShownOfSession /\ RunningHasWorker /\ NoWorkerForgotten

----------------------------------------------------------------------------
(* The types. *)

CallState == [at : {"idle", "halt", "signal", "join", "install", "spawn"},
              session : SessionOrNone, victim : SessionOrNone]

LEMMA TypeNext ==
    ASSUME TypeOK, [Next]_vars
    PROVE  TypeOK'
  <1>1. Idle \in CallState /\ call \in [Callers -> CallState] /\ Starter \in Callers
    BY DEF Idle, CallState, SessionOrNone, TypeOK, Callers
  <1>2. ASSUME NEW s \in Sessions, BeginStart(s)  PROVE TypeOK'
    BY <1>1, <1>2 DEF BeginStart, TypeOK, CallState, SessionOrNone
  <1>3. ASSUME NEW c \in Stoppers, BeginStop(c)  PROVE TypeOK'
    BY <1>1, <1>3 DEF BeginStop, TypeOK, CallState, SessionOrNone
  <1>4. ASSUME NEW c \in Callers, Halt(c)  PROVE TypeOK'
    BY <1>1, <1>4 DEF Halt, TypeOK, CallState, SessionOrNone, Empty
  <1>5. ASSUME NEW c \in Callers, Signal(c)  PROVE TypeOK'
    <2>1. call[c].victim \in SessionOrNone
      BY <1>1 DEF CallState
    <2> QED
      BY <1>1, <1>5, <2>1 DEF Signal, TypeOK, CallState, SessionOrNone
  <1>6. ASSUME NEW c \in Callers, Join(c)  PROVE TypeOK'
    BY <1>1, <1>6 DEF Join, TypeOK, CallState, SessionOrNone
  <1>7. CASE Install
    <2>1. call[Starter].session \in SessionOrNone
      BY <1>1 DEF CallState
    <2> QED
      BY <1>1, <1>7, <2>1 DEF Install, TypeOK, CallState, SessionOrNone, Empty
  <1>8. CASE Spawn
    BY <1>1, <1>8 DEF Spawn, TypeOK, CallState
  <1>9. ASSUME NEW s \in Sessions, Work(s)  PROVE TypeOK'
    <2>1. UNCHANGED <<installed, told, call>>
      BY <1>9 DEF Work, TestEvent, CheckSession, Capture, Publish, Decode, Finish, Pause
    <2>2. worker' \in [Sessions -> {"unborn", "loop", "check", "capture", "publish",
                                    "decode", "found", "fail", "wait", "done"}]
      BY <1>9 DEF Work, TestEvent, CheckSession, Capture, Publish, Decode, Finish, Pause,
                  Move, TypeOK
    <2>3. state' \in [session : SessionOrNone, running : BOOLEAN,
                      frame : SessionOrNone, result : SessionOrNone]
      <3>1. CASE UNCHANGED state
        BY <3>1 DEF TypeOK
      <3>2. CASE Publish(s) \/ Finish(s)
        BY <3>2 DEF Publish, Finish, TypeOK, SessionOrNone
      <3> QED
        BY <1>9, <3>1, <3>2 DEF Work, TestEvent, CheckSession, Capture, Decode, Pause
    <2> QED
      BY <2>1, <2>2, <2>3 DEF TypeOK
  <1>10. CASE UNCHANGED vars
    BY <1>10 DEF vars, TypeOK
  <1> QED
    BY <1>2, <1>3, <1>4, <1>5, <1>6, <1>7, <1>8, <1>9, <1>10 DEF Next, Serve

----------------------------------------------------------------------------
(* The invariant is kept by the calls. *)

LEMMA BeginStartInv ==
    ASSUME CameraInv, TypeOK', NEW s \in Sessions, BeginStart(s)
    PROVE  CameraInv'
  <1>1. Fresh(s) /\ call[Starter] = Idle
    BY DEF BeginStart
  <1>2. /\ call'[Starter].at = "halt" /\ call'[Starter].session = s
        /\ \A c \in Callers : /\ call'[c].victim = call[c].victim
                              /\ c # Starter => call'[c] = call[c]
    BY DEF BeginStart, CameraInv, TypeOK, Callers
  <1>3. call[Starter].at = "idle" /\ UNCHANGED <<state, installed, told, worker>>
    BY <1>1 DEF BeginStart, Idle
  <1>4. \A c \in Callers, q \in Sessions : Signalling(c, q)' <=> Signalling(c, q)
    BY <1>2, <1>3 DEF Signalling
  <1>5. \A q \in Sessions : /\ Known(q)' => Known(q)
                            /\ ~Spawning(q) /\ ~Spawning(q)'
    BY <1>2, <1>3 DEF Known, Spawning
  <1>6. KnownHasWorker' /\ PreparedUnborn'
    BY <1>1, <1>2, <1>3, <1>5 DEF Fresh, CameraInv, KnownHasWorker, PreparedUnborn
  <1>7. VictimsOut' /\ SpawningIsNoticed' /\ StartHasTheCamera'
    BY <1>2, <1>3, <1>4, <1>5 DEF CameraInv, VictimsOut, SpawningIsNoticed, StartHasTheCamera
  <1>8. ShownOfSession' /\ RunningHasWorker'
    BY <1>3 DEF CameraInv, ShownOfSession, RunningHasWorker, Alive
  <1>9. NoWorkerForgotten'
    BY <1>3, <1>4 DEF CameraInv, NoWorkerForgotten, Alive, Signalling
  <1> QED
    BY <1>3, <1>6, <1>7, <1>8, <1>9 DEF CameraInv

LEMMA BeginStopInv ==
    ASSUME CameraInv, TypeOK', NEW c \in Stoppers, BeginStop(c)
    PROVE  CameraInv'
  <1>1. /\ Starter \in Callers /\ call'[Starter] = call[Starter]
        /\ \A d \in Callers : /\ call'[d].victim = call[d].victim
                              /\ d # c => call'[d] = call[d]
        /\ call'[c].at = "halt" /\ call[c].at = "idle"
    BY SessionAssumption DEF BeginStop, Idle, CameraInv, TypeOK, Callers
  <1>2. \A d \in Callers, q \in Sessions : Signalling(d, q)' <=> Signalling(d, q)
    BY <1>1 DEF Signalling
  <1>3. \A q \in Sessions : /\ Known(q)' <=> Known(q)
                            /\ Spawning(q)' <=> Spawning(q)
    BY <1>1 DEF BeginStop, Known, Spawning
  <1>4. KnownHasWorker' /\ PreparedUnborn' /\ VictimsOut'
    BY <1>1, <1>2, <1>3 DEF BeginStop, CameraInv, KnownHasWorker, PreparedUnborn, VictimsOut
  <1>5. SpawningIsNoticed' /\ StartHasTheCamera'
    BY <1>1, <1>2 DEF BeginStop, CameraInv, SpawningIsNoticed, Spawning, Ending, StartHasTheCamera
  <1>6. ShownOfSession' /\ RunningHasWorker' /\ NoWorkerForgotten'
    BY <1>1, <1>2 DEF BeginStop, CameraInv, ShownOfSession, RunningHasWorker,
                      NoWorkerForgotten, Alive, Signalling
  <1> QED
    BY <1>4, <1>5, <1>6 DEF CameraInv, BeginStop

LEMMA HaltInv ==
    ASSUME CameraInv, TypeOK', NEW c \in Callers, Halt(c)
    PROVE  CameraInv'
  <1>1. /\ Starter \in Callers
        /\ call'[c].at = "signal" /\ call'[c].victim = installed
        /\ call[c].at = "halt" /\ call'[c].session = call[c].session
        /\ \A d \in Callers \ {c} : call'[d] = call[d]
    BY DEF Halt, CameraInv, TypeOK, Callers
  <1>2. \A q \in Sessions : Known(q)' => Known(q)
    BY <1>1, SessionAssumption DEF Halt, Known, Empty
  <1>3. \A q \in Sessions : Spawning(q)' <=> Spawning(q)
    BY <1>1 DEF Spawning
  <1>4. \A d \in Callers, q \in Sessions :
           Signalling(d, q)' <=> Signalling(d, q) \/ (d = c /\ q = installed)
    BY <1>1 DEF Signalling
  <1>5. KnownHasWorker' /\ PreparedUnborn'
    BY <1>1, <1>2, <1>3 DEF Halt, CameraInv, KnownHasWorker, PreparedUnborn
  <1>6. VictimsOut' /\ StartHasTheCamera'
    BY SessionAssumption DEF Halt, VictimsOut, StartHasTheCamera
  <1>7. SpawningIsNoticed'
    BY <1>3, <1>4 DEF Halt, CameraInv, SpawningIsNoticed, Ending
  <1>8. ShownOfSession' /\ RunningHasWorker' /\ ~state'.running
    BY DEF Halt, Empty, ShownOfSession, RunningHasWorker
  <1>9. \A q \in Sessions : Alive(q) => q = installed \/ Ending(q)
    BY DEF CameraInv, NoWorkerForgotten, Ending, Signalling
  <1>10. \A q \in Sessions : Alive(q) => Ending(q)'
    BY <1>4, <1>9 DEF Halt, Ending
  <1>11. NoWorkerForgotten'
    BY <1>10 DEF Halt, NoWorkerForgotten, Alive, Ending, Signalling
  <1> QED
    BY <1>5, <1>6, <1>7, <1>8, <1>11 DEF CameraInv

LEMMA SignalInv ==
    ASSUME CameraInv, TypeOK', NEW c \in Callers, Signal(c)
    PROVE  CameraInv'
  <1>1. /\ Starter \in Callers
        /\ call'[c].at = "join" /\ call[c].at = "signal"
        /\ call'[c].victim = call[c].victim /\ call'[c].session = call[c].session
        /\ \A d \in Callers \ {c} : call'[d] = call[d]
    BY DEF Signal, CameraInv, TypeOK, Callers
  <1>2. \A q \in Sessions : /\ Known(q)' => Known(q)
                            /\ Spawning(q)' <=> Spawning(q)
    BY <1>1 DEF Signal, Known, Spawning
  <1>3. \A q \in Sessions : Ending(q) => Ending(q)'
    <2>1. \A q \in Sessions : Signalling(c, q) => q \in told'
      BY SessionAssumption DEF Signal, Signalling
    <2>2. \A q \in Sessions : \A d \in Callers \ {c} : Signalling(d, q)' <=> Signalling(d, q)
      BY <1>1 DEF Signalling
    <2> QED
      BY <2>1, <2>2 DEF Signal, Ending
  <1>4. \A d \in Callers, q \in Sessions : Signalling(d, q)' => Signalling(d, q)
    BY <1>1 DEF Signalling
  <1>5. KnownHasWorker' /\ PreparedUnborn'
    BY <1>1, <1>2 DEF Signal, CameraInv, KnownHasWorker, PreparedUnborn
  <1>6. VictimsOut' /\ SpawningIsNoticed' /\ StartHasTheCamera'
    BY <1>1, <1>2, <1>4, <1>3 DEF Signal, CameraInv, VictimsOut, SpawningIsNoticed, StartHasTheCamera
  <1>7. ShownOfSession'
    BY DEF Signal, CameraInv, ShownOfSession
  <1>8. RunningHasWorker'
    <2>1. ASSUME state.running  PROVE state.session \notin told'
      <3>1. /\ state.session \in Sessions /\ installed = state.session
            /\ state.session \notin told
        BY <2>1 DEF CameraInv, RunningHasWorker, TypeOK, SessionOrNone
      <3>2. call[c].victim # state.session
        BY <1>1, <3>1 DEF CameraInv, VictimsOut, Signalling
      <3> QED
        BY <3>1, <3>2 DEF Signal
    <2> QED
      BY <1>1, <2>1 DEF Signal, CameraInv, RunningHasWorker, Alive
  <1>9. NoWorkerForgotten'
    <2>1. \A q \in Sessions : Alive(q) => q = installed \/ Ending(q)
      BY DEF CameraInv, NoWorkerForgotten, Ending, Signalling
    <2> QED
      BY <1>3, <2>1 DEF Signal, NoWorkerForgotten, Alive, Ending, Signalling
  <1> QED
    BY <1>5, <1>6, <1>7, <1>8, <1>9 DEF CameraInv, Signal

LEMMA JoinInv ==
    ASSUME CameraInv, TypeOK', NEW c \in Callers, Join(c)
    PROVE  CameraInv'
  <1>1. /\ Starter \in Callers /\ call[c].at = "join"
        /\ call'[c].victim = NoSession
        /\ c # Starter => call'[c].at = "idle"
        /\ c = Starter => call'[c].at = "install" /\ call'[c].session = call[c].session
        /\ \A d \in Callers \ {c} : call'[d] = call[d]
    BY DEF Join, CameraInv, TypeOK, Callers, Idle
  <1>2. \A q \in Sessions : Known(q)' => Known(q)
    BY <1>1, SessionAssumption DEF Join, Known
  <1>3. \A q \in Sessions : Spawning(q)' <=> Spawning(q)
    BY <1>1 DEF Spawning
  <1>4. \A d \in Callers, q \in Sessions : Signalling(d, q)' <=> Signalling(d, q)
    BY <1>1 DEF Signalling
  <1>5. KnownHasWorker' /\ PreparedUnborn'
    BY <1>1, <1>2, <1>3 DEF Join, CameraInv, KnownHasWorker, PreparedUnborn
  <1>6. VictimsOut' /\ SpawningIsNoticed' /\ StartHasTheCamera'
    BY <1>1, <1>3, <1>4 DEF Join, CameraInv, VictimsOut, SpawningIsNoticed, Ending, StartHasTheCamera
  <1>7. ShownOfSession' /\ RunningHasWorker'
    <2>1. state.running => state.session \in Sessions
      BY DEF CameraInv, TypeOK, SessionOrNone
    <2>2. state.running => Alive(state.session) \/ Spawning(state.session)
      BY DEF CameraInv, RunningHasWorker, Spawning
    <2>3. state.running => Alive(state.session) \/ Spawning(state.session)'
      BY <1>1, <2>2 DEF Join, Spawning
    <2> QED
      BY <2>3 DEF Join, CameraInv, ShownOfSession, RunningHasWorker, Alive, Spawning
  <1>8. NoWorkerForgotten'
    <2> SUFFICES ASSUME NEW q \in Sessions, Alive(q)', q # installed'
                 PROVE  q \in told' \/ \E d \in Callers : Signalling(d, q)'
      BY DEF NoWorkerForgotten, Signalling
    <2>1. UNCHANGED <<installed, told, worker>>
      BY DEF Join
    <2>2. q \in told \/ \E d \in Callers : Signalling(d, q)
      BY <2>1 DEF CameraInv, NoWorkerForgotten, Alive, Signalling
    <2> QED
      BY <1>4, <2>1, <2>2
  <1> QED
    BY <1>5, <1>6, <1>7, <1>8 DEF CameraInv, Join

LEMMA InstallInv ==
    ASSUME CameraInv, TypeOK', Install
    PROVE  CameraInv'
  <1> DEFINE s == call[Starter].session
  <1>1. /\ Starter \in Callers /\ call[Starter].at = "install"
        /\ call'[Starter].at = "spawn" /\ call'[Starter].session = s
        /\ call'[Starter].victim = call[Starter].victim
        /\ \A d \in Callers \ {Starter} : call'[d] = call[d]
    BY DEF Install, CameraInv, TypeOK, Callers
  <1>2. /\ s \in Sessions /\ worker[s] = "unborn" /\ ~Known(s) /\ installed = NoSession
    BY <1>1 DEF CameraInv, PreparedUnborn, KnownHasWorker, Spawning, StartHasTheCamera
  <1>3. /\ state'.session = s /\ state'.running
        /\ state'.frame = NoSession /\ state'.result = NoSession
        /\ installed' = s /\ told' = told /\ worker' = worker
    BY DEF Install, Empty
  <1>4. \A q \in Sessions : q # s => (Known(q)' => Known(q))
    BY <1>1, <1>3 DEF Known
  <1>5. \A d \in Callers, q \in Sessions : Signalling(d, q)' <=> Signalling(d, q)
    BY <1>1 DEF Signalling
  <1>6. \A q \in Sessions : Spawning(q)' <=> q = s
    BY <1>1 DEF Spawning
  <1>7. KnownHasWorker' /\ PreparedUnborn'
    BY <1>1, <1>2, <1>3, <1>4, <1>6 DEF CameraInv, KnownHasWorker, PreparedUnborn, Spawning
  <1>8. VictimsOut' /\ SpawningIsNoticed' /\ StartHasTheCamera'
    BY <1>1, <1>2, <1>3, <1>5, <1>6 DEF VictimsOut, SpawningIsNoticed, StartHasTheCamera,
                                        Signalling, Known
  <1>9. ShownOfSession' /\ RunningHasWorker' /\ NoWorkerForgotten'
    BY <1>1, <1>2, <1>3, <1>5, SessionAssumption
    DEF CameraInv, ShownOfSession, RunningHasWorker, NoWorkerForgotten, Alive, Signalling, Known
  <1> QED
    BY <1>2, <1>3, <1>7, <1>8, <1>9, SessionAssumption DEF CameraInv

LEMMA SpawnInv ==
    ASSUME CameraInv, TypeOK', Spawn
    PROVE  CameraInv'
  <1> DEFINE s == call[Starter].session
  <1>1. /\ Starter \in Callers /\ call[Starter].at = "spawn"
        /\ call'[Starter] = Idle
        /\ \A d \in Callers \ {Starter} : call'[d] = call[d]
    BY DEF Spawn, CameraInv, TypeOK, Callers
  <1>2. s \in Sessions /\ worker[s] = "unborn" /\ Spawning(s)
    BY <1>1 DEF CameraInv, PreparedUnborn, Spawning
  <1>3. /\ worker'[s] = "loop"
        /\ \A q \in Sessions \ {s} : worker'[q] = worker[q] /\ ~Spawning(q)
        /\ UNCHANGED <<state, installed, told>>
    BY <1>1, <1>2 DEF Spawn, CameraInv, TypeOK, Spawning
  <1>4. \A q \in Sessions : /\ Known(q)' => Known(q)
                            /\ Ending(q)' <=> Ending(q)
    BY <1>1, <1>3, SessionAssumption DEF Known, Ending, Signalling, Idle
  <1>5. KnownHasWorker' /\ PreparedUnborn'
    BY <1>1, <1>3, <1>4 DEF CameraInv, KnownHasWorker, PreparedUnborn, Idle
  <1>6. VictimsOut' /\ SpawningIsNoticed' /\ StartHasTheCamera'
    BY <1>1, <1>3 DEF CameraInv, VictimsOut, SpawningIsNoticed, StartHasTheCamera,
                      Signalling, Spawning, Idle
  <1>7. ShownOfSession' /\ RunningHasWorker'
    <2>1. state.running => state.session \in Sessions
      BY DEF CameraInv, TypeOK, SessionOrNone
    <2> QED
      BY <1>3, <2>1 DEF CameraInv, ShownOfSession, RunningHasWorker, Alive, Spawning
  <1>8. NoWorkerForgotten'
    <2>1. \A q \in Sessions : Alive(q)' => q = installed \/ Ending(q)
      BY <1>2, <1>3 DEF CameraInv, NoWorkerForgotten, SpawningIsNoticed, Alive, Ending, Signalling
    <2> QED
      BY <1>3, <1>4, <2>1 DEF NoWorkerForgotten, Ending, Signalling
  <1> QED
    BY <1>3, <1>5, <1>6, <1>7, <1>8 DEF CameraInv

----------------------------------------------------------------------------
(* The invariant is kept by the workers. *)

LEMMA WorkInv ==
    ASSUME CameraInv, TypeOK', NEW s \in Sessions, Work(s)
    PROVE  CameraInv'
  <1>1. /\ UNCHANGED <<installed, told, call>>
        /\ worker[s] \notin {"unborn", "done"} /\ worker'[s] # "unborn"
        /\ \A q \in Sessions \ {s} : worker'[q] = worker[q]
    BY DEF Work, TestEvent, CheckSession, Capture, Publish, Decode, Finish, Pause, Move,
           CameraInv, TypeOK
  <1>2. /\ state'.session = state.session
        /\ state'.running => state.running
        /\ state'.frame \in {state.frame, state.session}
        /\ state'.result \in {state.result, NoSession, state.session}
    <2>1. CASE UNCHANGED state
      BY <2>1
    <2>2. CASE Publish(s) /\ state.session = s
      <3>1. state' = [state EXCEPT !.frame = s, !.result = NoSession]
        BY <2>2 DEF Publish
      <3>2. /\ state'.session = state.session /\ state'.running = state.running
            /\ state'.frame = s /\ state'.result = NoSession
        BY <3>1 DEF CameraInv, TypeOK
      <3> QED
        BY <2>2, <3>2
    <2>3. CASE Finish(s) /\ state.session = s
      BY <2>3 DEF Finish, CameraInv, TypeOK
    <2> QED
      BY <2>1, <2>2, <2>3
      DEF Work, TestEvent, CheckSession, Capture, Publish, Decode, Finish, Pause
  <1>3. worker'[s] = "done" /\ s \notin told => state.session # s \/ ~state'.running
    BY DEF Work, TestEvent, CheckSession, Capture, Publish, Decode, Finish, Pause, Move,
           CameraInv, TypeOK
  <1>4. \A q \in Sessions : /\ Known(q)' <=> Known(q)
                            /\ Spawning(q)' <=> Spawning(q)
                            /\ \A c \in Callers : Signalling(c, q)' <=> Signalling(c, q)
    BY <1>1, <1>2 DEF Known, Spawning, Signalling
  <1>5. KnownHasWorker' /\ PreparedUnborn'
    BY <1>1, <1>4 DEF CameraInv, KnownHasWorker, PreparedUnborn
  <1>6. VictimsOut' /\ SpawningIsNoticed' /\ StartHasTheCamera'
    BY <1>1, <1>4 DEF CameraInv, VictimsOut, SpawningIsNoticed, Ending, StartHasTheCamera
  <1>7. ShownOfSession'
    BY <1>2 DEF CameraInv, ShownOfSession
  <1>8. RunningHasWorker'
    <2>1. state.running => state.session \in Sessions
      BY DEF CameraInv, TypeOK, SessionOrNone
    <2> QED
      BY <1>1, <1>2, <1>3, <2>1 DEF CameraInv, RunningHasWorker, Alive
  <1>9. NoWorkerForgotten'
    BY <1>1, <1>4 DEF CameraInv, NoWorkerForgotten, Alive, Signalling
  <1> QED
    BY <1>2, <1>5, <1>6, <1>7, <1>8, <1>9 DEF CameraInv

----------------------------------------------------------------------------

LEMMA InitInv == Init => CameraInv
  BY SessionAssumption
  DEF Init, Empty, Idle, Callers, SessionOrNone, CameraInv, TypeOK, KnownHasWorker, Known,
      Spawning, Signalling, Ending, PreparedUnborn, VictimsOut, SpawningIsNoticed,
      StartHasTheCamera, ShownOfSession, RunningHasWorker, NoWorkerForgotten, Alive

LEMMA NextInv ==
    ASSUME CameraInv, [Next]_vars
    PROVE  CameraInv'
  <1>1. TypeOK'
    BY TypeNext DEF CameraInv
  <1>2. CASE UNCHANGED vars
    BY <1>2 DEF vars, CameraInv, TypeOK, KnownHasWorker, Known, Spawning, Signalling, Ending,
                PreparedUnborn, VictimsOut, SpawningIsNoticed, StartHasTheCamera,
                ShownOfSession, RunningHasWorker, NoWorkerForgotten, Alive
  <1> QED
    BY <1>1, <1>2, BeginStartInv, BeginStopInv, HaltInv, SignalInv, JoinInv, InstallInv,
       SpawnInv, WorkInv
    DEF Next, Serve

\* The inductive invariant holds in every state.
THEOREM Invariance == Spec => []CameraInv
  <1> QED
    BY InitInv, NextInv, PTL DEF Spec

\* The types of the state.
THEOREM TypeCorrect == Spec => []TypeOK
  <1>1. CameraInv => TypeOK
    BY DEF CameraInv
  <1> QED
    BY Invariance, <1>1, PTL

\* What a page is shown comes from the session it is shown as current.
THEOREM PagesShowOneSession == Spec => []ShownOfSession
  <1>1. CameraInv => ShownOfSession
    BY DEF CameraInv
  <1> QED
    BY Invariance, <1>1, PTL

\* A session that is shown as running has a worker, or is about to.
THEOREM RunningIsServed == Spec => []RunningHasWorker
  <1>1. CameraInv => RunningHasWorker
    BY DEF CameraInv
  <1> QED
    BY Invariance, <1>1, PTL

\* No worker that was replaced goes on untold.
THEOREM WorkersAreTold == Spec => []NoWorkerForgotten
  <1>1. CameraInv => NoWorkerForgotten
    BY DEF CameraInv
  <1> QED
    BY Invariance, <1>1, PTL

----------------------------------------------------------------------------
(* The session keeps the promise of CameraPage.                            *)

\* A worker that can still store something finds its session running: only it
\* ends the session's run, and then it is done.
WorkedSessionRuns ==
  \A s \in Sessions : (Alive(s) \/ Spawning(s)) /\ state.session = s => state.running

\* There is no result while the session runs, and no state at all from the
\* moment start has emptied it: a stop meanwhile empties it again.
PageInv ==
  /\ WorkedSessionRuns
  /\ state.running => state.result = NoSession
  /\ call[Starter].at \in {"signal", "join", "install"} => state = Empty

\* Nothing a worker does changes the state unless it is the worker of the
\* session that is shown, and what it changes then is a frame or the result.
LEMMA WorkShows ==
    ASSUME TypeOK, PageInv, NEW s \in Sessions, Work(s)
    PROVE  \/ UNCHANGED state
           \/ /\ state.session = s /\ state.running /\ worker'[s] # "done"
              /\ state' = [state EXCEPT !.frame = s]
           \/ /\ state.session = s /\ state.running /\ worker'[s] = "done"
              /\ state' = [state EXCEPT !.result = s, !.running = FALSE]
  <1>1. CASE Publish(s) /\ state.session = s
    <2>1. state.running /\ state.result = NoSession
      BY <1>1 DEF Publish, PageInv, WorkedSessionRuns, Alive
    <2>2. state' = [state EXCEPT !.frame = s, !.result = NoSession] /\ worker'[s] = "decode"
      BY <1>1 DEF Publish, Move, TypeOK
    <2>3. state' = [state EXCEPT !.frame = s]
      BY <2>1, <2>2 DEF TypeOK
    <2> QED
      BY <1>1, <2>1, <2>2, <2>3
  <1>2. CASE Finish(s) /\ state.session = s
    BY <1>2 DEF Finish, Move, TypeOK, PageInv, WorkedSessionRuns, Alive
  <1>3. CASE (~Publish(s) /\ ~Finish(s)) \/ state.session # s
    BY <1>3 DEF Work, TestEvent, CheckSession, Capture, Publish, Decode, Finish, Pause
  <1> QED
    BY <1>1, <1>2, <1>3

LEMMA PageNext ==
    ASSUME CameraInv, TypeOK', PageInv, [Next]_vars
    PROVE  PageInv'
  <1>0. TypeOK /\ Starter \in Callers
    BY DEF CameraInv, Callers
  <1>1. ASSUME NEW s \in Sessions, BeginStart(s) PROVE PageInv'
    BY <1>0, <1>1 DEF BeginStart, PageInv, WorkedSessionRuns, Alive, Spawning, Idle, TypeOK
  <1>2. ASSUME NEW c \in Stoppers, BeginStop(c) PROVE PageInv'
    <2>1. call'[Starter] = call[Starter] /\ UNCHANGED <<state, worker>>
      BY <1>0, <1>2, SessionAssumption DEF BeginStop, TypeOK
    <2> QED
      BY <2>1 DEF PageInv, WorkedSessionRuns, Alive, Spawning
  <1>3. ASSUME NEW c \in Callers, Halt(c) PROVE PageInv'
    BY <1>3, SessionAssumption DEF Halt, PageInv, WorkedSessionRuns, Empty
  <1>4. ASSUME NEW c \in Callers, Signal(c) \/ Join(c) PROVE PageInv'
    <2>1. /\ UNCHANGED <<state, worker>>
          /\ call'[Starter].at = "spawn" => call'[Starter] = call[Starter]
          /\ call'[Starter].at \in {"signal", "join", "install"} =>
                 call[Starter].at \in {"signal", "join", "install"}
      BY <1>0, <1>4 DEF Signal, Join, TypeOK, Idle
    <2> QED
      BY <2>1 DEF PageInv, WorkedSessionRuns, Alive, Spawning
  <1>5. CASE Install
    <2>1. /\ state'.running /\ state'.result = NoSession
          /\ call'[Starter].at = "spawn"
      BY <1>0, <1>5 DEF Install, Empty, TypeOK
    <2> QED
      BY <2>1 DEF PageInv, WorkedSessionRuns
  <1>6. CASE Spawn
    <2> DEFINE s == call[Starter].session
    <2>1. /\ UNCHANGED state /\ call'[Starter].at = "idle" /\ Spawning(s)
          /\ \A q \in Sessions : q # s => worker'[q] = worker[q]
      BY <1>0, <1>6 DEF Spawn, TypeOK, Idle, Spawning
    <2> QED
      BY <2>1 DEF PageInv, WorkedSessionRuns, Alive, Spawning
  <1>7. ASSUME NEW s \in Sessions, Work(s) PROVE PageInv'
    <2>1. /\ UNCHANGED <<installed, told, call>> /\ worker[s] \notin {"unborn", "done"}
          /\ \A q \in Sessions : q # s => worker'[q] = worker[q]
      BY <1>0, <1>7 DEF Work, TestEvent, CheckSession, Capture, Publish, Decode, Finish, Pause,
                        Move, TypeOK
    <2>2. Empty.session = NoSession /\ NoSession \notin Sessions
      BY SessionAssumption DEF Empty
    <2>3. CASE UNCHANGED state
      BY <2>1, <2>3 DEF PageInv, WorkedSessionRuns, Alive, Spawning
    <2>4. CASE ~UNCHANGED state
      <3>1. /\ state.session = s /\ state.running /\ state'.session = s
            /\ \/ worker'[s] # "done" /\ state'.running /\ state'.result = state.result
               \/ worker'[s] = "done" /\ ~state'.running
        BY <1>0, <1>7, <2>4, WorkShows DEF TypeOK
      <3>2. ~Spawning(s)
        BY <2>1 DEF CameraInv, PreparedUnborn, Spawning
      <3> QED
        BY <2>1, <2>2, <3>1, <3>2 DEF PageInv, WorkedSessionRuns, Alive, Spawning
    <2> QED
      BY <2>3, <2>4
  <1>8. CASE UNCHANGED vars
    BY <1>8 DEF vars, PageInv, WorkedSessionRuns, Alive, Spawning
  <1> QED
    BY <1>1, <1>2, <1>3, <1>4, <1>5, <1>6, <1>7, <1>8 DEF Next, Serve

\* The camera session implements CameraPage: sessions are shown one after the
\* other, no old worker adds a frame or a result to a newer session, a result is
\* never overwritten by a later frame, and no session comes back.
THEOREM CameraImplementsCameraPage == Spec => OneSessionAfterAnother
  <1> DEFINE begun == {s \in Sessions : \/ worker[s] # "unborn"
                                        \/ call[Starter].at = "spawn" /\ call[Starter].session = s}
  <1>1. Init => PageInv /\ Page!Init
    BY DEF Init, PageInv, WorkedSessionRuns, Empty, Idle, Alive, Spawning, Callers,
           Page!Init, Page!Blank
  <1>2. CameraInv /\ TypeOK' /\ PageInv /\ [Next]_vars => [Page!Next]_<<state, begun>>
    <2> SUFFICES ASSUME CameraInv, TypeOK', PageInv, [Next]_vars
                 PROVE  Page!Next \/ UNCHANGED <<state, begun>>
      BY DEF Page!Next
    <2>0. TypeOK /\ Starter \in Callers /\ Empty = Page!Blank
      BY DEF CameraInv, Callers, Empty, Page!Blank
    <2>1. ASSUME \A s \in Sessions : /\ worker'[s] # "unborn" <=> worker[s] # "unborn"
                                     /\ Spawning(s)' <=> Spawning(s)
          PROVE  begun' = begun
      BY <2>1 DEF Spawning
    <2>2. ASSUME NEW s \in Sessions, BeginStart(s) PROVE UNCHANGED <<state, begun>>
      BY <2>0, <2>1, <2>2 DEF BeginStart, Spawning, Idle, TypeOK
    <2>3. ASSUME NEW c \in Stoppers, BeginStop(c) PROVE UNCHANGED <<state, begun>>
      <3>1. call'[Starter] = call[Starter] /\ UNCHANGED <<state, worker>>
        BY <2>0, <2>3, SessionAssumption DEF BeginStop, TypeOK
      <3> QED
        BY <2>1, <3>1 DEF Spawning
    <2>4. ASSUME NEW c \in Callers, Halt(c) PROVE Page!Close
      <3>1. begun' = begun
        BY <2>0, <2>1, <2>4 DEF Halt, Spawning, TypeOK
      <3> QED
        BY <2>0, <2>4, <3>1 DEF Halt, Page!Close, Spawning
    <2>5. ASSUME NEW c \in Callers, Signal(c) \/ Join(c) PROVE UNCHANGED <<state, begun>>
      <3>1. UNCHANGED <<state, worker>> /\ \A s \in Sessions : Spawning(s)' <=> Spawning(s)
        BY <2>0, <2>5 DEF Signal, Join, TypeOK, Idle, Spawning
      <3> QED
        BY <2>1, <3>1
    <2>6. CASE Install
      <3>0. PICK s \in Sessions : s = call[Starter].session
        BY <2>6 DEF Install, CameraInv, PreparedUnborn
      <3>1. /\ worker[s] = "unborn" /\ state = Empty
            /\ \A q \in Sessions : ~Spawning(q)
        BY <2>6, <3>0 DEF Install, CameraInv, PreparedUnborn, PageInv, Spawning
      <3>2. /\ state' = [Empty EXCEPT !.session = s, !.running = TRUE] /\ worker' = worker
            /\ \A q \in Sessions : Spawning(q)' <=> q = s
        BY <2>0, <2>6, <3>0 DEF Install, TypeOK, Spawning
      <3>3. s \notin begun /\ begun' = begun \cup {s}
        BY <3>1, <3>2 DEF Spawning
      <3>4. Page!Open(s)
        BY <2>0, <3>1, <3>2, <3>3 DEF Page!Open, Spawning
      <3> QED
        BY <3>4 DEF Page!Next
    <2>7. CASE Spawn
      <3> DEFINE s == call[Starter].session
      <3>1. /\ UNCHANGED state /\ s \in Sessions /\ worker'[s] = "loop" /\ Spawning(s)
            /\ \A q \in Sessions : /\ q # s => worker'[q] = worker[q] /\ ~Spawning(q)
                                   /\ ~Spawning(q)'
        BY <2>0, <2>7 DEF Spawn, TypeOK, Idle, Spawning, CameraInv, PreparedUnborn
      <3> QED
        BY <3>1 DEF Spawning
    <2>8. ASSUME NEW s \in Sessions, Work(s) PROVE Page!Next \/ UNCHANGED <<state, begun>>
      <3>1. /\ UNCHANGED call /\ worker[s] # "unborn" /\ worker'[s] # "unborn"
            /\ \A q \in Sessions : q # s => worker'[q] = worker[q]
        BY <2>0, <2>8 DEF Work, TestEvent, CheckSession, Capture, Publish, Decode, Finish,
                          Pause, Move, TypeOK
      <3>2. begun' = begun
        BY <2>1, <3>1 DEF Spawning
      <3> QED
        BY <2>0, <2>8, <3>2, WorkShows
        DEF Page!Next, Page!Photograph, Page!Conclude, Spawning
    <2>9. CASE UNCHANGED vars
      BY <2>9 DEF vars, Spawning
    <2> QED
      BY <2>2, <2>3, <2>4, <2>5, <2>6, <2>7, <2>8, <2>9 DEF Next, Serve, Page!Next
  <1>3. CameraInv => TypeOK
    BY DEF CameraInv
  <1> QED
    BY <1>1, <1>2, <1>3, Invariance, PageNext, PTL
    DEF Spec, OneSessionAfterAnother, Page!Spec

============================================================================
