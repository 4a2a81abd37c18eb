----------------------------- MODULE PhoneFlags -----------------------------
(***************************************************************************)
(* The conflicts a phone has stored (Room) and two preferences that depend *)
(* on them (DataStore): has_unresolved_conflicts and auto_sync_enabled.    *)
(* A sync that stores its conflicts, the resolution of a conflict and the  *)
(* switch of the auto sync are coroutines, and every read or write of Room *)
(* or DataStore is a point where another one may go on.                    *)
(***************************************************************************)
EXTENDS FiniteSets

CONSTANTS Conflicts,  \* the items that can be in conflict
          Coroutines

VARIABLES conflicts,   \* ConflictDao
          unresolved,  \* has_unresolved_conflicts
          auto,        \* auto_sync_enabled
          co           \* what each coroutine is about to do

vars == <<conflicts, unresolved, auto, co>>

\* arg: the conflicts of a reply, or the conflict that is resolved.
\* value: what has been asked for or read.
Idle == [next |-> "idle", arg |-> {}, value |-> FALSE]

Init ==
  /\ conflicts = {}
  /\ unresolved = FALSE
  /\ auto = FALSE
  /\ co = [c \in Coroutines |-> Idle]

Go(c, step) == co' = [co EXCEPT ![c] = step]
----------------------------------------------------------------------------
\* run_sync_now once the Pi has answered with the conflicts cs.
BeginSync(c, cs) ==
  /\ co[c] = Idle
  /\ Go(c, [next |-> "clear", arg |-> cs, value |-> FALSE])
  /\ UNCHANGED <<conflicts, unresolved, auto>>

ClearAll(c) ==
  /\ co[c].next = "clear"
  /\ conflicts' = {}
  /\ Go(c, [co[c] EXCEPT !.next = IF co[c].arg # {} THEN "store" ELSE "flag"])
  /\ UNCHANGED <<unresolved, auto>>

StoreConflicts(c) ==
  /\ co[c].next = "store"
  /\ conflicts' = conflicts \cup co[c].arg
  /\ Go(c, [co[c] EXCEPT !.next = "flag"])
  /\ UNCHANGED <<unresolved, auto>>

SetFlagOfSync(c) ==
  /\ co[c].next = "flag"
  /\ unresolved' = (co[c].arg # {})
  /\ Go(c, IF co[c].arg # {} THEN [co[c] EXCEPT !.next = "autoOff"] ELSE Idle)
  /\ UNCHANGED <<conflicts, auto>>

AutoOff(c) ==
  /\ co[c].next = "autoOff"
  /\ auto' = FALSE
  /\ Go(c, Idle)
  /\ UNCHANGED <<conflicts, unresolved>>
----------------------------------------------------------------------------
\* The four resolutions: the row has been written, the conflict goes.
BeginResolve(c, i) ==
  /\ co[c] = Idle
  /\ i \in conflicts
  /\ Go(c, [next |-> "drop", arg |-> {i}, value |-> FALSE])
  /\ UNCHANGED <<conflicts, unresolved, auto>>

Drop(c) ==
  /\ co[c].next = "drop"
  /\ conflicts' = conflicts \ co[c].arg
  /\ Go(c, [co[c] EXCEPT !.next = "count"])
  /\ UNCHANGED <<unresolved, auto>>

Count(c) ==
  /\ co[c].next = "count"
  /\ Go(c, [co[c] EXCEPT !.next = "setFlag", !.value = (conflicts # {})])
  /\ UNCHANGED <<conflicts, unresolved, auto>>

SetFlag(c) ==
  /\ co[c].next = "setFlag"
  /\ unresolved' = co[c].value
  /\ Go(c, Idle)
  /\ UNCHANGED <<conflicts, auto>>
----------------------------------------------------------------------------
\* set_auto_sync.
BeginSwitch(c, enabled) ==
  /\ co[c] = Idle
  /\ Go(c, [next |-> "look", arg |-> {}, value |-> enabled])
  /\ UNCHANGED <<conflicts, unresolved, auto>>

Look(c) ==
  /\ co[c].next = "look"
  /\ Go(c, [co[c] EXCEPT !.next = "setAuto", !.value = @ /\ conflicts = {}])
  /\ UNCHANGED <<conflicts, unresolved, auto>>

SetAuto(c) ==
  /\ co[c].next = "setAuto"
  /\ auto' = co[c].value
  /\ Go(c, Idle)
  /\ UNCHANGED <<conflicts, unresolved>>
----------------------------------------------------------------------------
Next ==
  \E c \in Coroutines :
    \/ \E cs \in SUBSET Conflicts : BeginSync(c, cs)
    \/ \E i \in Conflicts : BeginResolve(c, i)
    \/ \E enabled \in BOOLEAN : BeginSwitch(c, enabled)
    \/ ClearAll(c) \/ StoreConflicts(c) \/ SetFlagOfSync(c) \/ AutoOff(c)
    \/ Drop(c) \/ Count(c) \/ SetFlag(c)
    \/ Look(c) \/ SetAuto(c)

Spec == Init /\ [][Next]_vars

\* "Auto-sync is disabled when conflicts exist", once nothing is under way.
\* A coroutine that looked for conflicts before a sync stored some turns the
\* auto sync on after the sync has turned it off (set_auto_sync).
AutoSyncOff ==
  (\A c \in Coroutines : co[c] = Idle) => ~(auto /\ conflicts # {})

=============================================================================
