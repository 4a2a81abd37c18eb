----------------------------- MODULE SensorLink -----------------------------
(***************************************************************************)
(* The serial link to the weight sensors of the bag: the reader thread of  *)
(* Esp32SensorSerialManager opens one serial port after the other until an *)
(* ESP32 answers, reads its lines, and keeps the snapshot that pages and   *)
(* phones are shown.  An ESP32 sends all weights in one line of JSON, or a *)
(* frame: a header, a line for each section, a footer.                     *)
(*                                                                         *)
(* Time is counted in read timeouts: an empty read is one tick.  A line is *)
(* read without delay, and no header or footer is lost on an open port.    *)
(***************************************************************************)
EXTENDS Integers, FiniteSets

CONSTANTS Ports,       \* serial devices, numbers in the order of their names
          Sensors,     \* the ports with an ESP32; the others send nothing
          N,           \* sections of the bag
          StaleTicks,  \* SENSOR_STALE_TIMEOUT_MS
          SilentTicks, \* SENSOR_SERIAL_SILENT_REOPEN_TIMEOUT_S
          ResetOnOpen, \* SENSOR_SERIAL_RESET_ON_OPEN
          OneFormat,   \* do all ESP32s send the same format?
          MaxTrouble   \* bound on cables plugged or pulled, failures, restarts

ASSUME SensorAssumption ==
  /\ Ports \subseteq Nat \ {0} /\ Sensors \subseteq Ports /\ IsFiniteSet(Ports)
  /\ N \in Nat \ {0} /\ StaleTicks \in Nat \ {0} /\ SilentTicks \in Nat \ {0}
  /\ ResetOnOpen \in BOOLEAN /\ OneFormat \in BOOLEAN /\ MaxTrouble \in Nat

VARIABLES plugged, \* the ports that are there
          sends,   \* the format of each ESP32
          line,    \* the next line of a frame on the open port, 0 is the header
          leftover,\* does it come before the reset that Open has made?
          headed,  \* has a header been read since the port was opened?
          at,      \* where the reader is
          next,    \* _next_serial_port_index
          port,    \* the port it opens or reads, or 0
          silent,  \* ticks since the reader got anything from this port
          frame,   \* _text_frame
          snap,    \* _snapshot
          stored,  \* the snapshot in the meta table: its port and reading
          trouble

vars == <<plugged, sends, line, leftover, headed, at, next, port, silent, frame, snap, stored, trouble>>

Sections == 1 .. N

\* The weight of a section in a frame was read since the port was opened,
\* or earlier, from another ESP32 or before a gap.
NoFrame == [active |-> FALSE, weight |-> [i \in Sections |-> "none"]]

\* Wrong: a reading that is kept is shown as live.
DisconnectedLive(p, reading) ==
  [state |-> IF reading = "none" THEN "disconnected" ELSE "live",
   port |-> p, reading |-> reading, age |-> 0]

\* reading: are the weights shown from one frame ("whole") or several?
\* age: ticks since the time staleness is counted from.
Disconnected(p, reading) ==
  [state |-> "disconnected", port |-> p, reading |-> reading, age |-> 0]

Init ==
  /\ plugged \in SUBSET Ports
  /\ sends \in [Sensors -> {"json", "text"}]
  /\ OneFormat => \A p, q \in Sensors : sends[p] = sends[q]
  /\ line = 0 /\ leftover = FALSE /\ headed = FALSE
  /\ at = "scan" /\ next = 0 /\ port = 0 /\ silent = 0
  /\ frame = NoFrame
  /\ snap = Disconnected(0, "none") /\ stored = [port |-> 0, reading |-> "none"]
  /\ trouble = 0

Trouble == trouble < MaxTrouble /\ trouble' = trouble + 1
----------------------------------------------------------------------------
(* What becomes of the snapshot.  The reading is kept until the next one.  *)

Show(s) == snap' = s /\ UNCHANGED stored

\* _set_connecting and _record_waiting_status.
Connecting == [snap EXCEPT !.state = "connecting", !.port = port, !.age = 0]

\* Wrong: the time is not looked at.
NeverStale ==
  IF snap.state \notin {"live", "connecting"} THEN snap ELSE [snap EXCEPT !.age = @ + 1]

\* _mark_stale_if_needed, a tick later.
MarkStale ==
  IF snap.state \notin {"live", "connecting"} THEN snap
  ELSE IF snap.age + 1 < StaleTicks THEN [snap EXCEPT !.age = @ + 1]
  ELSE [snap EXCEPT !.state = "stale", !.port = port, !.age = 0]

\* _record_parse_error: an unreadable line leaves a live reading live.
ParseError ==
  IF snap.state \in {"live", "stale"} THEN [snap EXCEPT !.port = port] ELSE Connecting

\* _snapshot_from_weights, which also stores the snapshot.
Take(reading) ==
  /\ snap' = [state |-> "live", port |-> port, reading |-> reading, age |-> 0]
  /\ stored' = [port |-> port, reading |-> reading]
----------------------------------------------------------------------------
(* The reader.                                                             *)

\* Wrong: the same port again.
SameIndex(k, n) == k % n

IndexAfter(k, n) == (k + 1) % n

\* Take the next of the ports that are there, in the order of their names.
Scan ==
  /\ at = "scan"
  /\ IF plugged = {}
     THEN Show(Disconnected(0, snap.reading)) /\ UNCHANGED <<at, next, port>>
     ELSE LET n == Cardinality(plugged)
              k == next % n
          IN  /\ \E p \in plugged : Cardinality({q \in plugged : q < p}) = k /\ port' = p
              /\ next' = IndexAfter(k, n)
              /\ at' = "open"
              /\ UNCHANGED <<snap, stored>>
  /\ UNCHANGED <<plugged, sends, line, leftover, headed, silent, frame, trouble>>

\* An ESP32 goes on where it is: if it is not to be reset, or the reset fails,
\* which is ignored.  A reset begins a frame, but lines received before it are
\* read first, since the buffer is emptied before the reset.  A frame begun
\* before the port was opened is kept.
Open ==
  /\ at = "open"
  /\ port \in plugged
  /\ at' = "read" /\ silent' = 0
  /\ line' \in 0 .. N + 1
  /\ leftover' \in (IF ResetOnOpen THEN BOOLEAN ELSE {FALSE})
  /\ headed' = FALSE
  /\ frame' = [frame EXCEPT !.weight = [i \in Sections |-> IF @[i] = "this" THEN "earlier" ELSE @[i]]]
  /\ Show(Connecting)
  /\ UNCHANGED <<plugged, sends, next, port, trouble>>

\* What an ESP32 sends while its port is closed is lost.
Close ==
  /\ at' = "scan" /\ port' = 0 /\ silent' = 0
  /\ line' = 0 /\ leftover' = FALSE /\ headed' = FALSE

\* The cable was pulled, or the port cannot be opened or read.
Fail ==
  /\ at \in {"open", "read"}
  /\ IF port \in plugged THEN Trouble ELSE UNCHANGED trouble
  /\ Show(Disconnected(port, snap.reading))
  /\ Close
  /\ UNCHANGED <<plugged, sends, next, frame>>

ReadNothing ==
  /\ at = "read"
  /\ port \in plugged
  /\ silent + 1 < SilentTicks
  /\ silent' = silent + 1
  /\ Show(MarkStale)
  /\ UNCHANGED <<plugged, sends, line, leftover, headed, at, next, port, frame, trouble>>

\* The port has been silent for too long: try the next one.
LeaveSilentPort ==
  /\ at = "read"
  /\ port \in plugged
  /\ silent + 1 >= SilentTicks
  /\ IF port \in Sensors THEN Trouble ELSE UNCHANGED trouble
  /\ Show(Connecting)
  /\ Close
  /\ UNCHANGED <<plugged, sends, next, frame>>

\* Whatever is read, the port is not silent.
Reads == at = "read" /\ port \in plugged \cap Sensors /\ silent' = 0

\* Once a frame has begun, a line of JSON is taken for a part of it.
ReadReading ==
  /\ Reads
  /\ sends[port] = "json"
  /\ IF frame.active THEN Show(snap) ELSE Take("whole")
  /\ UNCHANGED <<plugged, sends, line, leftover, headed, at, next, port, frame, trouble>>

\* publishJsonFrame has no weight for a section, and says so instead.
ReadStatus ==
  /\ Reads
  /\ sends[port] = "json"
  /\ Show(Connecting)
  /\ UNCHANGED <<plugged, sends, line, leftover, headed, at, next, port, frame, trouble>>

\* A broken line of weights, or another line, as the ESP32 prints at start.
ReadOther ==
  /\ Reads
  /\ \/ Show(snap)
     \/ ~frame.active /\ Show(ParseError)
  /\ UNCHANGED <<plugged, sends, line, leftover, headed, at, next, port, frame, trouble>>

\* _finalize_text_frame, and the frame is over.
Finalize(weight) ==
  /\ IF \A i \in Sections : weight[i] \in {"this", "earlier"}
     THEN Take(IF \A i \in Sections : weight[i] = "this" THEN "whole" ELSE "mixed")
     ELSE Show(Connecting)
  /\ frame' = NoFrame

\* An error of a section stays until the frame is over.
SectionLine(i, w) ==
  LET weight == [frame.weight EXCEPT ![i] = IF @ = "error" THEN @ ELSE w]
  IN  IF \A s \in Sections : weight[s] # "none"
      THEN Finalize(weight)
      ELSE Show(snap) /\ frame' = [active |-> TRUE, weight |-> weight]

\* Wrong: what the frame before has left is not dropped.
HeaderKeepsFrame ==
  /\ frame' = [frame EXCEPT !.active = TRUE]
  /\ headed' = TRUE
  /\ Show(snap)

HeaderLine ==
  /\ frame' = [NoFrame EXCEPT !.active = TRUE]
  /\ headed' = TRUE
  /\ Show(snap)

\* After the last line that was received before the reset comes a header.
NextLine ==
  \/ line' = (IF line > N THEN 0 ELSE line + 1) /\ UNCHANGED leftover
  \/ leftover /\ line' = 0 /\ leftover' = FALSE

\* _consume_text_status_line, for the line that comes next.  A section may be
\* without a weight, or its line broken and not recognised.
ReadText ==
  /\ Reads
  /\ sends[port] = "text"
  /\ NextLine
  /\ \/ line = 0 /\ HeaderLine /\ UNCHANGED trouble
     \/ line \in Sections /\ SectionLine(line, "this") /\ UNCHANGED <<headed, trouble>>
     \/ line \in Sections /\ SectionLine(line, "error") /\ Trouble /\ UNCHANGED headed
     \/ /\ line \in Sections /\ frame.active
        /\ Show(snap) /\ Trouble /\ UNCHANGED <<frame, headed>>
     \/ /\ line = N + 1
        /\ IF frame.active THEN Finalize(frame.weight) ELSE Show(snap) /\ UNCHANGED frame
        /\ UNCHANGED <<headed, trouble>>
  /\ UNCHANGED <<plugged, sends, at, next, port>>
----------------------------------------------------------------------------
(* The cable and the process.                                              *)

\* A port that was pulled does not come back before the reader has closed it.
Plug(p) ==
  /\ Trouble
  /\ p \notin plugged => port # p
  /\ plugged' = IF p \in plugged THEN plugged \ {p} ELSE plugged \cup {p}
  /\ UNCHANGED <<sends, line, leftover, headed, at, next, port, silent, frame, snap, stored>>

\* The server ends and starts again: load_persisted_snapshot, start.
Restart ==
  /\ Trouble
  /\ Close /\ next' = 0
  /\ frame' = NoFrame
  /\ Show(Disconnected(stored.port, stored.reading))
  /\ UNCHANGED <<plugged, sends>>
----------------------------------------------------------------------------
Next ==
  \/ Scan \/ Open \/ Fail \/ ReadNothing \/ LeaveSilentPort
  \/ ReadReading \/ ReadStatus \/ ReadOther \/ ReadText
  \/ \E p \in Ports : Plug(p)
  \/ Restart

Spec == Init /\ [][Next]_vars

\* The reader thread runs.  An ESP32 that is read goes on sending; one that
\* sends JSON has all its weights again and again.
Fairness ==
  /\ WF_vars(Scan) /\ WF_vars(Open) /\ WF_vars(port \notin plugged /\ Fail)
  /\ WF_vars(ReadNothing \/ LeaveSilentPort)
  /\ SF_vars(ReadReading) /\ SF_vars(ReadText)

FairSpec == Spec /\ Fairness
----------------------------------------------------------------------------
TypeOK ==
  /\ plugged \subseteq Ports
  /\ sends \in [Sensors -> {"json", "text"}]
  /\ line \in 0 .. N + 1
  /\ leftover \in BOOLEAN /\ headed \in BOOLEAN
  /\ at \in {"scan", "open", "read"}
  /\ next \in 0 .. Cardinality(Ports)
  /\ port \in Ports \cup {0}
  /\ silent \in 0 .. SilentTicks - 1
  /\ frame \in [active : BOOLEAN, weight : [Sections -> {"none", "error", "this", "earlier"}]]
  /\ snap \in [state : {"disconnected", "connecting", "live", "stale"}, port : Ports \cup {0},
               reading : {"none", "whole", "mixed"}, age : 0 .. StaleTicks - 1]
  /\ stored \in [port : Ports \cup {0}, reading : {"none", "whole", "mixed"}]
  /\ trouble \in 0 .. MaxTrouble

\* Whatever was pulled, left or failed to reset in the middle of a frame: once
\* a header has been read on the open port, no reading that is shown or stored
\* is replaced by one computed from the weights of several frames
\* (_consume_text_status_line, _finalize_text_frame).
Mixed == "mixed" \in {snap.reading, stored.reading}
MixedOnlyAtFirst == [][headed /\ Mixed' => Mixed]_vars

\* What is shown as live was read from the port that is open now: whenever
\* the reader leaves a port, the reading is an old one until the next.
LiveFromOpenPort == snap.state = "live" => at = "read" /\ snap.port = port

\* If an ESP32 stays plugged in, its weights are shown again and again,
\* whatever cables were pulled before, beside other ESP32s and ports that send
\* nothing.
EventuallyLive ==
  <>[](plugged \cap Sensors # {}) => []<>(snap.state = "live")

=============================================================================
