----------------------------- MODULE CameraPage -----------------------------
(***************************************************************************)
(* What the camera session promises a page that polls its state.  One      *)
(* session is shown at a time.  It runs and shows frames until it shows a  *)
(* result, a code or an error; the result stays until the session is       *)
(* stopped or replaced.  A session that is gone is never shown again.      *)
(***************************************************************************)

CONSTANTS Sessions, NoSession

VARIABLES
    shown,   \* the state the page is shown
    begun    \* the sessions that have been shown

Blank == [session |-> NoSession, running |-> FALSE,
          frame |-> NoSession, result |-> NoSession]

Init == shown = Blank /\ begun = {}

Open(s) ==
    /\ shown = Blank
    /\ s \notin begun
    /\ shown' = [Blank EXCEPT !.session = s, !.running = TRUE]
    /\ begun' = begun \cup {s}

Photograph ==
    /\ shown.running
    /\ shown' = [shown EXCEPT !.frame = shown.session]
    /\ UNCHANGED begun

Conclude ==
    /\ shown.running
    /\ shown' = [shown EXCEPT !.result = shown.session, !.running = FALSE]
    /\ UNCHANGED begun

Close == shown' = Blank /\ UNCHANGED begun

Next == (\E s \in Sessions : Open(s)) \/ Photograph \/ Conclude \/ Close

Spec == Init /\ [][Next]_<<shown, begun>>

=============================================================================
