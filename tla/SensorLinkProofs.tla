-------------------------- MODULE SensorLinkProofs --------------------------
(***************************************************************************)
(* Theorems about SensorLink, for every finite set of ports, any number of *)
(* sections and all timeouts, and whether or not an ESP32 is reset when    *)
(* its port is opened.                                                     *)
(***************************************************************************)
EXTENDS SensorLink, FiniteSetTheorems, TLAPS

\* After a header, a frame holds only weights of the open port.
FrameOfOpenPort ==
    at = "read" /\ headed => \A i \in Sections : frame.weight[i] # "earlier"

Weights == [Sections -> {"none", "error", "this", "earlier"}]
Frames == [active : BOOLEAN, weight : Weights]
Snapshots == [state : {"disconnected", "connecting", "live", "stale"}, port : Ports \cup {0},
              reading : {"none", "whole", "mixed"}, age : 0 .. StaleTicks - 1]
Readings == [port : Ports \cup {0}, reading : {"none", "whole", "mixed"}]

----------------------------------------------------------------------------
(* The types. *)

LEMMA NewFrame == NoFrame \in Frames /\ \A i \in Sections : NoFrame.weight[i] = "none"
  BY DEF NoFrame, Frames, Weights

\* What the snapshot may become.
LEMMA ShownTypes ==
    ASSUME TypeOK
    PROVE  /\ Connecting \in Snapshots /\ MarkStale \in Snapshots /\ ParseError \in Snapshots
           /\ Disconnected(port, snap.reading) \in Snapshots
           /\ Disconnected(0, snap.reading) \in Snapshots
           /\ Disconnected(stored.port, stored.reading) \in Snapshots
  <1>1. /\ snap \in Snapshots /\ stored \in Readings /\ port \in Ports \cup {0}
        /\ StaleTicks \in Nat \ {0} /\ 0 \in 0 .. StaleTicks - 1
    BY SensorAssumption DEF TypeOK, Snapshots, Readings
  <1>2. Connecting \in Snapshots
    BY <1>1 DEF Connecting, Snapshots
  <1>3. MarkStale \in Snapshots
    <2>1. CASE MarkStale = snap
      BY <1>1, <2>1
    <2>2. CASE snap.age + 1 < StaleTicks /\ MarkStale = [snap EXCEPT !.age = @ + 1]
      BY <1>1, <2>2 DEF Snapshots
    <2>3. CASE MarkStale = [snap EXCEPT !.state = "stale", !.port = port, !.age = 0]
      BY <1>1, <2>3 DEF Snapshots
    <2> QED
      BY <2>1, <2>2, <2>3 DEF MarkStale
  <1>4. ParseError \in Snapshots
    BY <1>1, <1>2 DEF ParseError, Snapshots
  <1>5. \A p \in Ports \cup {0}, r \in {"none", "whole", "mixed"} : Disconnected(p, r) \in Snapshots
    BY <1>1 DEF Disconnected, Snapshots
  <1> QED
    BY <1>1, <1>2, <1>3, <1>4, <1>5 DEF Snapshots, Readings

LEMMA TakeTypes ==
    ASSUME TypeOK, NEW reading \in {"none", "whole", "mixed"}, Take(reading)
    PROVE  snap' \in Snapshots /\ stored' \in Readings
  BY SensorAssumption DEF TypeOK, Take, Snapshots, Readings

\* A snapshot keeps its reading when no new one is taken.
LEMMA KeptReading ==
    ASSUME TypeOK
    PROVE  /\ Connecting.reading = snap.reading /\ MarkStale.reading = snap.reading
           /\ ParseError.reading = snap.reading
           /\ \A p, r : Disconnected(p, r).reading = r /\ Disconnected(p, r).state = "disconnected"
  BY DEF TypeOK, Connecting, MarkStale, ParseError, Disconnected

\* What the end of a frame stores.
LEMMA FinalizeKeeps ==
    ASSUME TypeOK, NEW weight \in Weights, Finalize(weight)
    PROVE  /\ snap' \in Snapshots /\ stored' \in Readings /\ frame' \in Frames
           /\ \A i \in Sections : frame'.weight[i] = "none"
           /\ \/ Show(Connecting)
              \/ Take("whole")
              \/ Take("mixed") /\ \E i \in Sections : weight[i] = "earlier"
  <1>1. frame' \in Frames /\ \A i \in Sections : frame'.weight[i] = "none"
    BY NewFrame DEF Finalize
  <1>2. \/ Show(Connecting)
        \/ Take("whole")
        \/ Take("mixed") /\ \E i \in Sections : weight[i] = "earlier"
    BY DEF Finalize
  <1>3. snap' \in Snapshots /\ stored' \in Readings
    BY <1>2, ShownTypes, TakeTypes DEF Show, TypeOK, Readings
  <1> QED
    BY <1>1, <1>2, <1>3

LEMMA SectionKeeps ==
    ASSUME TypeOK, NEW i \in Sections, NEW w \in {"this", "error"}, SectionLine(i, w)
    PROVE  /\ snap' \in Snapshots /\ stored' \in Readings /\ frame' \in Frames
           /\ (\A s \in Sections : frame.weight[s] # "earlier") =>
                 \A s \in Sections : frame'.weight[s] # "earlier"
           /\ \/ Show(snap) \/ Show(Connecting) \/ Take("whole")
              \/ Take("mixed") /\ \E s \in Sections : frame.weight[s] = "earlier"
  <1> DEFINE weight == [frame.weight EXCEPT ![i] = IF @ = "error" THEN @ ELSE w]
  <1>1. /\ weight \in Weights
        /\ \A s \in Sections : weight[s] = "earlier" => frame.weight[s] = "earlier"
    BY DEF TypeOK, Weights
  <1>2. \/ Finalize(weight)
        \/ Show(snap) /\ frame' = [active |-> TRUE, weight |-> weight]
    BY DEF SectionLine
  <1> HIDE DEF weight
  <1>3. CASE Finalize(weight)
    BY <1>1, <1>3, FinalizeKeeps
  <1>4. CASE Show(snap) /\ frame' = [active |-> TRUE, weight |-> weight]
    BY <1>1, <1>4 DEF Show, TypeOK, Frames, Snapshots, Readings
  <1> QED
    BY <1>2, <1>3, <1>4

\* A line of a frame.
LEMMA TextKeeps ==
    ASSUME TypeOK, ReadText
    PROVE  /\ snap' \in Snapshots /\ stored' \in Readings /\ frame' \in Frames
           /\ \/ \A s \in Sections : frame'.weight[s] # "earlier"
              \/ headed' = headed /\ \E s \in Sections : frame.weight[s] = "earlier"
           /\ headed' \in BOOLEAN
           /\ \/ Show(snap) \/ Show(Connecting) \/ Take("whole")
              \/ Take("mixed") /\ \E s \in Sections : frame.weight[s] = "earlier"
  <1>1. /\ snap \in Snapshots /\ stored \in Readings /\ frame \in Frames
        /\ frame.weight \in Weights /\ headed \in BOOLEAN
    BY DEF TypeOK, Snapshots, Readings, Frames, Weights
  <1>2. CASE HeaderLine
    <2>1. /\ frame' \in Frames
          /\ \A s \in Sections : frame'.weight[s] = "none"
      BY <1>2 DEF HeaderLine, NoFrame, Frames, Weights
    <2> QED
      BY <1>1, <1>2, <2>1 DEF HeaderLine, Show
  <1>3. CASE /\ line \in Sections /\ UNCHANGED headed
             /\ SectionLine(line, "this") \/ SectionLine(line, "error")
    BY <1>1, <1>3, SectionKeeps
  <1>4. CASE Show(snap) /\ UNCHANGED <<frame, headed>>
    BY <1>1, <1>4 DEF Show
  <1>5. CASE Finalize(frame.weight) /\ UNCHANGED headed
    BY <1>1, <1>5, FinalizeKeeps
  <1> QED
    BY <1>1, <1>2, <1>3, <1>4, <1>5 DEF ReadText

\* The ports are counted.
LEMMA Ranks ==
    ASSUME TypeOK, plugged # {}
    PROVE  LET n == Cardinality(plugged)
           IN  n \in Nat /\ n # 0 /\ n <= Cardinality(Ports) /\ Cardinality(Ports) \in Nat
               /\ IndexAfter(next % n, n) \in 0 .. Cardinality(Ports)
  <1>1. /\ IsFiniteSet(plugged) /\ Cardinality(plugged) <= Cardinality(Ports)
        /\ Cardinality(plugged) \in Nat /\ Cardinality(Ports) \in Nat
    BY SensorAssumption, FS_Subset, FS_CardinalityType DEF TypeOK
  <1>2. Cardinality(plugged) # 0
    BY <1>1, FS_EmptySet
  <1>3. next \in Nat
    BY <1>1 DEF TypeOK
  <1>4. \A k \in Nat, n \in Nat \ {0} : ((k % n) + 1) % n \in 0 .. n - 1
    OBVIOUS
  <1> QED
    BY <1>1, <1>2, <1>3, <1>4 DEF IndexAfter

LEMMA TroubleBounded ==
    ASSUME TypeOK, Trouble \/ UNCHANGED trouble
    PROVE  trouble' \in 0 .. MaxTrouble
  BY SensorAssumption DEF TypeOK, Trouble

LEMMA TypeNext ==
    ASSUME TypeOK, [Next]_vars
    PROVE  TypeOK'
  <1>1. /\ snap \in Snapshots /\ stored \in Readings /\ frame \in Frames
        /\ SilentTicks \in Nat \ {0} /\ N \in Nat \ {0}
    BY SensorAssumption DEF TypeOK, Snapshots, Readings, Frames, Weights
  <1>2. SUFFICES /\ snap' \in Snapshots /\ stored' \in Readings /\ frame' \in Frames
                 /\ plugged' \subseteq Ports /\ sends' = sends
                 /\ line' \in 0 .. N + 1 /\ leftover' \in BOOLEAN /\ headed' \in BOOLEAN
                 /\ at' \in {"scan", "open", "read"}
                 /\ next' \in 0 .. Cardinality(Ports) /\ port' \in Ports \cup {0}
                 /\ silent' \in 0 .. SilentTicks - 1 /\ trouble' \in 0 .. MaxTrouble
    BY DEF TypeOK, Snapshots, Readings, Frames, Weights
  <1>3. 0 \in 0 .. SilentTicks - 1 /\ 0 \in 0 .. Cardinality(Ports) /\ 0 \in 0 .. N + 1
    BY <1>1, SensorAssumption, FS_CardinalityType
  <1>4. CASE Scan
    <2>1. UNCHANGED <<plugged, sends, line, leftover, headed, silent, frame, trouble, stored>>
      BY <1>4 DEF Scan, Show
    <2>2. snap' \in Snapshots
      BY <1>1, <1>4, ShownTypes DEF Scan, Show
    <2>3. at' \in {"scan", "open"} /\ port' \in Ports \cup {0} /\ next' \in 0 .. Cardinality(Ports)
      <3>1. CASE plugged = {}
        BY <1>4, <3>1 DEF Scan, TypeOK
      <3>2. CASE plugged # {}
        BY <1>4, <3>2, Ranks DEF Scan, TypeOK
      <3> QED
        BY <3>1, <3>2
    <2> QED
      BY <1>1, <2>1, <2>2, <2>3 DEF TypeOK
  <1>5. CASE Open
    <2>1. line' \in 0 .. N + 1 /\ leftover' \in BOOLEAN /\ headed' \in BOOLEAN
      BY <1>5 DEF Open
    <2>2. frame' \in Frames
      BY <1>1, <1>5 DEF Open, Frames, Weights
    <2> QED
      BY <1>1, <1>3, <1>5, <2>1, <2>2, ShownTypes DEF Open, Show, TypeOK
  <1>6. CASE Fail
    BY <1>1, <1>3, <1>6, ShownTypes, TroubleBounded DEF Fail, Close, Show, TypeOK
  <1>7. CASE ReadNothing
    BY <1>1, <1>7, ShownTypes DEF ReadNothing, Show, TypeOK
  <1>8. CASE LeaveSilentPort
    BY <1>1, <1>3, <1>8, ShownTypes, TroubleBounded DEF LeaveSilentPort, Close, Show, TypeOK
  <1>9. CASE ReadReading
    BY <1>1, <1>3, <1>9, TakeTypes DEF ReadReading, Reads, Show, TypeOK
  <1>10. CASE ReadStatus \/ ReadOther
    BY <1>1, <1>3, <1>10, ShownTypes DEF ReadStatus, ReadOther, Reads, Show, TypeOK
  <1>11. CASE ReadText
    <2>1. line' \in 0 .. N + 1 /\ leftover' \in BOOLEAN
      <3>1. line \in 0 .. N + 1 /\ leftover \in BOOLEAN /\ NextLine
        BY <1>11 DEF ReadText, TypeOK
      <3>2. (IF line > N THEN 0 ELSE line + 1) \in 0 .. N + 1
        BY <1>1, <3>1
      <3> QED
        BY <1>3, <3>1, <3>2 DEF NextLine
    <2>2. trouble' \in 0 .. MaxTrouble
      BY <1>11, TroubleBounded DEF ReadText
    <2> QED
      BY <1>3, <1>11, <2>1, <2>2, TextKeeps DEF ReadText, Reads, TypeOK
  <1>12. ASSUME NEW p \in Ports, Plug(p)
         PROVE  /\ UNCHANGED <<sends, line, leftover, headed, at, next, port, silent, frame,
                               snap, stored>>
                /\ plugged' \subseteq Ports /\ trouble' \in 0 .. MaxTrouble
    BY <1>12, TroubleBounded DEF Plug, TypeOK
  <1>13. CASE Restart
    BY <1>1, <1>3, <1>13, NewFrame, ShownTypes, TroubleBounded DEF Restart, Close, Show, TypeOK
  <1>14. CASE UNCHANGED vars
    BY <1>1, <1>14 DEF vars, TypeOK
  <1>15. CASE \E p \in Ports : Plug(p)
    BY <1>1, <1>12, <1>15 DEF TypeOK
  <1> QED
    BY <1>4, <1>5, <1>6, <1>7, <1>8, <1>9, <1>10, <1>11, <1>13, <1>14, <1>15 DEF Next

----------------------------------------------------------------------------
(* What is live, and what is mixed. *)

\* A reading is taken from the open port, or the one there is, or the stored
\* one, is kept; nothing but taking one makes it live.
LEMMA SnapshotSteps ==
    ASSUME TypeOK, [Next]_vars
    PROVE  \/ /\ at' = "read" /\ port' = port
              /\ \/ Take("whole")
                 \/ Take("mixed") /\ at = "read"
                                  /\ \E i \in Sections : frame.weight[i] = "earlier"
           \/ /\ stored' = stored /\ snap'.reading \in {snap.reading, stored.reading}
              /\ snap'.state = "live" =>
                    /\ snap.state = "live" /\ snap'.port \in {snap.port, port}
                    /\ UNCHANGED <<at, port>> \/ at = "scan"
  <1> DEFINE Taken == \/ Take("whole")
                      \/ Take("mixed") /\ at = "read"
                                       /\ \E i \in Sections : frame.weight[i] = "earlier"
             Kept == /\ stored' = stored /\ snap'.reading \in {snap.reading, stored.reading}
                     /\ snap'.state = "live" =>
                           /\ snap.state = "live" /\ snap'.port \in {snap.port, port}
                           /\ UNCHANGED <<at, port>> \/ at = "scan"
  <1>1. /\ Connecting.state = "connecting" /\ Connecting.reading = snap.reading
        /\ MarkStale.reading = snap.reading /\ ParseError.reading = snap.reading
        /\ \A p, r : Disconnected(p, r).state = "disconnected" /\ Disconnected(p, r).reading = r
        /\ MarkStale.state = "live" => snap.state = "live" /\ MarkStale.port = snap.port
        /\ ParseError.state = "live" => snap.state = "live" /\ ParseError.port = port
    BY DEF TypeOK, Connecting, Disconnected, MarkStale, ParseError
  <1>2. ASSUME Show(Connecting)  PROVE Kept
    BY <1>1, <1>2 DEF Show
  <1>3. ASSUME Show(snap), UNCHANGED <<at, port>> \/ at = "scan"  PROVE Kept
    BY <1>3 DEF Show
  <1>4. ASSUME NEW p, NEW r \in {snap.reading, stored.reading}, Show(Disconnected(p, r))
        PROVE  Kept
    BY <1>1, <1>4 DEF Show
  <1>5. CASE Scan
    <2>1. CASE plugged = {}
      BY <1>4, <1>5, <2>1 DEF Scan
    <2>2. CASE plugged # {}
      BY <1>5, <2>2 DEF Scan
    <2> QED
      BY <2>1, <2>2
  <1>6. CASE Open \/ LeaveSilentPort
    BY <1>2, <1>6 DEF Open, LeaveSilentPort
  <1>7. CASE Fail \/ Restart
    BY <1>4, <1>7 DEF Fail, Restart
  <1>8. CASE ReadNothing
    BY <1>1, <1>8 DEF ReadNothing, Show
  <1>9. CASE ReadReading
    BY <1>3, <1>9 DEF ReadReading, Reads
  <1>10. CASE ReadStatus
    BY <1>2, <1>10 DEF ReadStatus
  <1>11. CASE ReadOther
    <2>1. UNCHANGED <<at, port>> /\ (Show(snap) \/ Show(ParseError))
      BY <1>11 DEF ReadOther
    <2>2. ASSUME Show(ParseError)  PROVE Kept
      BY <1>1, <2>1, <2>2 DEF Show
    <2> QED
      BY <1>3, <2>1, <2>2
  <1>12. CASE ReadText
    <2>1. UNCHANGED <<at, port>> /\ at = "read"
      BY <1>12 DEF ReadText, Reads
    <2> QED
      BY <1>2, <1>3, <1>12, <2>1, TextKeeps
  <1>13. CASE (\E p \in Ports : Plug(p)) \/ UNCHANGED vars
    BY <1>13 DEF Plug, vars
  <1> QED
    BY <1>5, <1>6, <1>7, <1>8, <1>9, <1>10, <1>11, <1>12, <1>13 DEF Next

LEMMA LiveNext ==
    ASSUME TypeOK, LiveFromOpenPort, [Next]_vars
    PROVE  LiveFromOpenPort'
  <1>1. ASSUME at' = "read", port' = port, Take("whole") \/ Take("mixed")
        PROVE  LiveFromOpenPort'
    BY <1>1 DEF Take, LiveFromOpenPort
  <1>2. ASSUME snap'.state = "live" =>
                  /\ snap.state = "live" /\ snap'.port \in {snap.port, port}
                  /\ UNCHANGED <<at, port>> \/ at = "scan"
        PROVE  LiveFromOpenPort'
    BY <1>2 DEF LiveFromOpenPort
  <1> QED
    BY <1>1, <1>2, SnapshotSteps

\* A header begins a new frame.
LEMMA FrameNext ==
    ASSUME TypeOK, FrameOfOpenPort, [Next]_vars
    PROVE  FrameOfOpenPort'
  <1>1. CASE Open
    BY <1>1 DEF Open, FrameOfOpenPort
  <1>2. CASE ReadText
    BY <1>2, TextKeeps DEF ReadText, Reads, FrameOfOpenPort
  <1>3. CASE Scan \/ Fail \/ LeaveSilentPort \/ Restart
    BY <1>3 DEF Scan, Fail, LeaveSilentPort, Restart, Close, FrameOfOpenPort
  <1>4. ASSUME UNCHANGED <<at, headed, frame>>  PROVE FrameOfOpenPort'
    BY <1>4 DEF FrameOfOpenPort
  <1>5. CASE ReadNothing \/ ReadReading \/ ReadStatus \/ ReadOther
    BY <1>4, <1>5 DEF ReadNothing, ReadReading, ReadStatus, ReadOther
  <1>6. CASE (\E p \in Ports : Plug(p)) \/ UNCHANGED vars
    BY <1>4, <1>6 DEF Plug, vars
  <1> QED
    BY <1>1, <1>2, <1>3, <1>5, <1>6 DEF Next

LEMMA MixedNext ==
    ASSUME TypeOK, FrameOfOpenPort, [Next]_vars, headed, Mixed'
    PROVE  Mixed
  <1>1. ASSUME Take("whole")  PROVE ~Mixed'
    BY <1>1 DEF Take, Mixed
  <1>2. ASSUME at = "read"  PROVE ~\E i \in Sections : frame.weight[i] = "earlier"
    BY <1>2 DEF FrameOfOpenPort
  <1>3. ASSUME stored' = stored, snap'.reading \in {snap.reading, stored.reading}
        PROVE  Mixed
    BY <1>3 DEF Mixed
  <1> QED
    BY <1>1, <1>2, <1>3, SnapshotSteps

----------------------------------------------------------------------------

LEMMA InitInv == Init => TypeOK /\ FrameOfOpenPort /\ LiveFromOpenPort
  <1> SUFFICES ASSUME Init  PROVE TypeOK /\ FrameOfOpenPort /\ LiveFromOpenPort
    OBVIOUS
  <1>1. /\ 0 \in 0 .. SilentTicks - 1 /\ 0 \in 0 .. StaleTicks - 1
        /\ 0 \in 0 .. N + 1 /\ 0 \in 0 .. MaxTrouble /\ 0 \in 0 .. Cardinality(Ports)
    BY SensorAssumption, FS_CardinalityType
  <1>2. TypeOK
    BY <1>1, NewFrame DEF Init, TypeOK, Disconnected, Frames, Weights
  <1>3. FrameOfOpenPort /\ LiveFromOpenPort
    BY DEF Init, FrameOfOpenPort, LiveFromOpenPort, Disconnected
  <1> QED
    BY <1>2, <1>3

\* The types of the state.
THEOREM TypeCorrect == Spec => []TypeOK
  <1>1. Init => TypeOK
    BY InitInv
  <1> QED
    BY <1>1, TypeNext, PTL DEF Spec

\* What is shown as live was read from the port that is open.
THEOREM LiveIsCurrent == Spec => []LiveFromOpenPort
  <1>1. Init => LiveFromOpenPort
    BY InitInv
  <1> QED
    BY <1>1, TypeCorrect, LiveNext, PTL DEF Spec

\* Whether or not an ESP32 is reset, and whether or not that succeeds: once a
\* header has been read on the open port, no reading comes to be shown or
\* stored that mixes two frames.
THEOREM NoneMixedAfterHeader == Spec => MixedOnlyAtFirst
  <1>1. Init => FrameOfOpenPort
    BY InitInv
  <1>2. Spec => []FrameOfOpenPort
    BY <1>1, TypeCorrect, FrameNext, PTL DEF Spec
  <1>3. ASSUME TypeOK, FrameOfOpenPort, [Next]_vars
        PROVE  [headed /\ Mixed' => Mixed]_vars
    BY <1>3, MixedNext
  <1> QED
    BY <1>2, <1>3, TypeCorrect, PTL DEF Spec, MixedOnlyAtFirst

=============================================================================
