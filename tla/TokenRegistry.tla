--------------------------- MODULE TokenRegistry ---------------------------
(***************************************************************************)
(* What pairing promises.  The bag grants tokens, each to one phone, and   *)
(* keeps at most one of them valid for each phone.  A phone's token stops  *)
(* being valid only if the phone is paired again, is unpaired, everything  *)
(* is revoked, or - the phone being one of an older app - a phone with a   *)
(* stable id takes its place.  Once invalid it stays so.  A phone holds no *)
(* token but one it was granted.                                           *)
(***************************************************************************)
EXTENDS Integers, Sequences

CONSTANTS Phones, Stable, Legacy

VARIABLES
    granted,  \* granted[t]: the phone token t was granted to
    valid,    \* valid[p]: the valid token of phone p, or 0
    held      \* held[p]: the token phone p holds, or 0

None == [p \in Phones |-> 0]

Init == granted = <<>> /\ valid = None /\ held = None

Replaces(p, q) == p \in Stable /\ q \in Legacy

Grant(p) ==
    /\ granted' = Append(granted, p)
    /\ \E gone \in SUBSET {q \in Phones : Replaces(p, q)} :
          valid' = [q \in Phones |-> IF q = p THEN Len(granted) + 1
                                     ELSE IF q \in gone THEN 0 ELSE valid[q]]
    /\ UNCHANGED held

Unpair(p) ==
    /\ valid' = [valid EXCEPT ![p] = 0]
    /\ UNCHANGED <<granted, held>>

RevokeAll ==
    /\ valid' = None
    /\ UNCHANGED <<granted, held>>

Hold(p, t) ==
    /\ t # 0 => granted[t] = p
    /\ held' = [held EXCEPT ![p] = t]
    /\ UNCHANGED <<granted, valid>>

Next ==
    \/ \E p \in Phones : Grant(p) \/ Unpair(p) \/ \E t \in 0 .. Len(granted) : Hold(p, t)
    \/ RevokeAll

Spec == Init /\ [][Next]_<<granted, valid, held>>

=============================================================================
