----------------------------- MODULE RemoteCall -----------------------------
(***************************************************************************)
(* What the relay promises a phone that calls the Pi through it: each      *)
(* request runs at most once, even if the phone has given it up, and an    *)
(* answer tells the phone what happened.  "failed" tells it nothing: the   *)
(* request may have run, or may still run.  If the relay itself died       *)
(* during the call, the request may run any number of times.               *)
(***************************************************************************)
EXTENDS Naturals

CONSTANT Requests

VARIABLES
    phase,   \* phase[r]: what the phone knows of request r
    runs,    \* runs[r]: how often the Pi has run it
    lost     \* the requests whose call died with the relay

Answers == {"done", "refused", "failed"}

Init ==
    /\ phase = [r \in Requests |-> "unsent"]
    /\ runs = [r \in Requests |-> 0]
    /\ lost = {}

Call(r) ==
    /\ phase[r] = "unsent"
    /\ phase' = [phase EXCEPT ![r] = "open"]
    /\ UNCHANGED <<runs, lost>>

\* The phone is told at once that the Pi is offline.
TurnAway(r) ==
    /\ phase[r] = "unsent"
    /\ phase' = [phase EXCEPT ![r] = "offline"]
    /\ UNCHANGED <<runs, lost>>

Run(r) ==
    /\ phase[r] \notin {"unsent", "offline"}
    /\ runs[r] = 0 \/ r \in lost
    /\ runs' = [runs EXCEPT ![r] = @ + 1]
    /\ UNCHANGED <<phase, lost>>

Answer(r, a) ==
    /\ phase[r] = "open"
    /\ a = "done" => runs[r] > 0
    /\ a = "refused" => runs[r] = 0
    /\ phase' = [phase EXCEPT ![r] = a]
    /\ UNCHANGED <<runs, lost>>

\* The relay dies; every call it was serving fails.
Lose(some) ==
    /\ lost' = lost \cup some
    /\ phase' = [r \in Requests |-> IF r \in some /\ phase[r] = "open" THEN "failed" ELSE phase[r]]
    /\ UNCHANGED runs

Next ==
    \/ \E r \in Requests : Call(r) \/ TurnAway(r) \/ Run(r) \/ \E a \in Answers : Answer(r, a)
    \/ \E some \in SUBSET Requests : Lose(some)

Spec == Init /\ [][Next]_<<phase, runs, lost>>

=============================================================================
