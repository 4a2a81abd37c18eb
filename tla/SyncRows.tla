------------------------------ MODULE SyncRows ------------------------------
(***************************************************************************)
(* The rows that a phone and the Raspberry Pi exchange, and the decision   *)
(* the Pi takes for each of them in POST /sync (run_sync_request).         *)
(*                                                                         *)
(* One bag is shared: its profile is the row Bag, its contents the rows of *)
(* Items.  A row keeps what the comparison of two copies can tell apart:   *)
(* the time stamp updated_at, the packed flag, the soft-delete flag, and   *)
(* one value that stands for every other column.                           *)
(***************************************************************************)
EXTENDS Integers

CONSTANTS
    Items,   \* identifiers of the items of the bag
    Bag,     \* identifier of the bag's own row (name, size, template)
    Vals,    \* what the columns other than packed and deleted can hold
    NoVal    \* the value of a row that does not exist

ASSUME RowsAssumption == Bag \notin Items /\ NoVal \notin Vals

Rows == Items \cup {Bag}

\* updated_at is positive in every row the programs write; 0 marks "no row".
Row == [t : Nat, val : Vals \cup {NoVal}, packed : BOOLEAN, deleted : BOOLEAN]
NoRow == [t |-> 0, val |-> NoVal, packed |-> FALSE, deleted |-> FALSE]
Exists(r) == r.t > 0

Table == [Rows -> Row]
NoRows == [r \in Rows |-> NoRow]

\* The body of POST /sync: last_sync_at and the rows changed since then.
Request == [ls : Nat, sent : Table]
NoRequest == [ls |-> 0, sent |-> NoRows]

-----------------------------------------------------------------------------
(* diff_item: s is the Pi's copy, p the phone's. *)

Same(s, p) == s.val = p.val /\ s.packed = p.packed /\ s.deleted = p.deleted

OnlyPackedDiffers(s, p) ==
    s.val = p.val /\ s.deleted = p.deleted /\ s.packed # p.packed

BothChanged(s, p, ls) == p.t > ls /\ s.t > ls

(* The verdict on an item: the Pi takes the phone's copy, sends its own,   *)
(* reports a conflict, or does nothing.                                    *)

\* Wrong: the stamps of two changed copies are not compared.
TakesItemUnordered(s, p, ls) ==
    /\ Exists(p)
    /\ \/ ~Exists(s)
       \/ p.t > ls /\ s.t <= ls
       \/ BothChanged(s, p, ls) /\ (Same(s, p) \/ OnlyPackedDiffers(s, p))

TakesItem(s, p, ls) ==
    /\ Exists(p)
    /\ \/ ~Exists(s)
       \/ p.t > ls /\ s.t <= ls
       \/ /\ BothChanged(s, p, ls)
          /\ Same(s, p) \/ OnlyPackedDiffers(s, p)
          /\ p.t > s.t

\* Wrong: only rows the phone has never had are sent.
SendsNewItem(s, p, ls) == Exists(s) /\ s.t > ls /\ ~Exists(p) /\ ~s.deleted

SendsItem(s, p, ls) ==
    /\ Exists(s)
    /\ s.t > ls
    /\ \/ ~Exists(p)
       \/ p.t <= ls
       \/ OnlyPackedDiffers(s, p) /\ p.t <= s.t

\* Wrong: an edit against a delete is no conflict.
ConflictingEditsOnly(s, p, ls) ==
    /\ Exists(s) /\ Exists(p)
    /\ BothChanged(s, p, ls)
    /\ ~Same(s, p) /\ ~OnlyPackedDiffers(s, p)
    /\ s.deleted = p.deleted

ConflictingItem(s, p, ls) ==
    /\ Exists(s) /\ Exists(p)
    /\ BothChanged(s, p, ls)
    /\ ~Same(s, p) /\ ~OnlyPackedDiffers(s, p)

(* The bag's row: the later copy wins.  The Pi always has a bag row.  *)

TakesBag(s, p, ls) == Exists(p) /\ p.t > ls /\ (s.t <= ls \/ p.t >= s.t)

SendsBag(s, p, ls) == s.t > ls /\ (~Exists(p) \/ p.t <= ls \/ p.t < s.t)

\* ensure_single_bag with a preferred name and size: before any comparison
\* the Pi's bag row takes over what the request's bag row says, restamped.
Realigns(s, p) == Exists(p) /\ p.val # s.val

Aligned(s, p, now) ==
    IF Realigns(s, p)
    THEN [s EXCEPT !.val = p.val, !.t = IF now > s.t THEN now ELSE s.t]
    ELSE s

-----------------------------------------------------------------------------
(* The request as a whole, on the Pi's table tbl at time now. *)

Compared(q, tbl, now) == [tbl EXCEPT ![Bag] = Aligned(@, q.sent[Bag], now)]

Takes(r, s, p, ls) == IF r = Bag THEN TakesBag(s, p, ls) ELSE TakesItem(s, p, ls)
Sends(r, s, p, ls) == IF r = Bag THEN SendsBag(s, p, ls) ELSE SendsItem(s, p, ls)

PiAfter(q, tbl, now) ==
    [r \in Rows |-> LET s == Compared(q, tbl, now)[r]
                    IN  IF Takes(r, s, q.sent[r], q.ls) THEN q.sent[r] ELSE s]

ServerChanges(q, tbl, now) ==
    [r \in Rows |-> LET s == Compared(q, tbl, now)[r]
                    IN  IF Sends(r, s, q.sent[r], q.ls) THEN s ELSE NoRow]

ServerConflicts(q, tbl) ==
    [i \in Items |-> IF ConflictingItem(tbl[i], q.sent[i], q.ls) THEN tbl[i] ELSE NoRow]

=============================================================================
