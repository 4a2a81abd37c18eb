------------------------------ MODULE BagStore ------------------------------
(***************************************************************************)
(* The one bag of the Pi and its item rows: init_db and ensure_single_bag  *)
(* keep a single bag whatever ids older versions and phones bring, and     *)
(* merge_or_write_item_record adds what is put in to the row of the same   *)
(* batch.                                                                  *)
(*                                                                         *)
(* SQLite lets one connection write at a time.  The handlers of the        *)
(* dashboard ("ui") write before they read, through ensure_single_bag, and *)
(* so read under the lock they commit with.  Those of the REST routes      *)
(* ("rest") read first and take the lock for the write.  POST /sync and    *)
(* init_db hold it from the beginning.  A page whose bag is renamed before *)
(* it has the lock fails and changes nothing; other pages find the bag as  *)
(* it is and change nothing either.                                        *)
(***************************************************************************)
EXTENDS Naturals, FiniteSets

CONSTANTS BagIds,   \* ids of the bag: phones and older versions bring theirs
          Items,    \* item ids
          Batches,  \* what makes two rows one batch: name, unit, category, expiry
          MaxQty,   \* bound on a quantity
          Threads,  \* the threads that serve requests
          Kinds,    \* which handlers run: "ui", "rest"
          None

ASSUME StoreAssumption ==
  /\ None \notin BagIds \cup Items \cup Threads
  /\ MaxQty \in Nat \ {0}
  /\ Kinds \subseteq {"ui", "rest"}

VARIABLES up,     \* the server runs
          bags,   \* table bags: the ids
          chosen, \* meta single_bag_id and settings.default_bag_id
          items,  \* table items
          lock,   \* the thread that holds the write lock
          work    \* what each thread has read and is about to write

db == <<bags, chosen, items>>
vars == <<up, bags, chosen, items, lock, work>>

Row == [bag : BagIds, batch : Batches, qty : 0 .. MaxQty, deleted : BOOLEAN]

\* The thread is to store [batch |-> batch, qty |-> base + added] in target,
\* where base is the quantity of the row it merges with, and to delete src,
\* the row that was edited, unless it is the target.
Task ==
  {k \in [bag : BagIds, batch : Batches, target : Items, src : Items \cup {None},
          base : 0 .. MaxQty, added : 0 .. MaxQty] : k.base + k.added <= MaxQty}

\* Rows of an older version may be spread over several bags.
Init ==
  /\ up = FALSE
  /\ bags \in SUBSET BagIds
  /\ chosen \in BagIds \cup {None}
  /\ items \in [Items -> [bag : bags, batch : Batches, qty : {1}, deleted : {FALSE}] \cup {None}]
  /\ lock = None
  /\ work = [t \in Threads |-> None]

Has(i) == items[i] # None
Live(i) == Has(i) /\ ~items[i].deleted
----------------------------------------------------------------------------
\* Wrong: the chosen bag, even if it is not there.
CanonicalChosen(preferred) == {IF preferred # None THEN preferred ELSE chosen}

\* preferred_single_bag_row, and the bag that is made if there is none or
\* renamed if the caller prefers another id: the preferred bag, the one of
\* the meta table and the settings, or any (the fullest, in the code).
Canonical(preferred) ==
  IF preferred # None THEN {preferred}
  ELSE IF chosen \in bags THEN {chosen}
  ELSE IF bags # {} THEN bags ELSE BagIds

\* Wrong: the other bags stay.
SingleBagAdded(preferred, rows) ==
  \E c \in Canonical(preferred) :
    /\ bags' = bags \cup {c}
    /\ chosen' = c
    /\ items' = rows

\* Wrong: the items stay in the bags they were in.
SingleBagOnly(preferred, rows) ==
  \E c \in Canonical(preferred) :
    /\ bags' = {c}
    /\ chosen' = c
    /\ items' = rows

\* ensure_single_bag: the canonical bag takes the place of all others, and
\* their rows with it.  Rows of no bag stay as they are.
SingleBag(preferred, rows) ==
  \E c \in Canonical(preferred) :
    /\ bags' = {c}
    /\ chosen' = c
    /\ items' = [i \in Items |-> IF rows[i] # None /\ rows[i].bag \in bags
                                 THEN [rows[i] EXCEPT !.bag = c] ELSE rows[i]]

\* init_db.
Startup ==
  /\ ~up
  /\ up' = TRUE
  /\ SingleBag(None, items)
  /\ UNCHANGED <<lock, work>>

\* The process ends; SQLite rolls back what was not committed.
Crash ==
  /\ up
  /\ up' = FALSE
  /\ lock' = None
  /\ work' = [t \in Threads |-> None]
  /\ UNCHANGED db

\* POST /sync of a phone that names its bag b, and stores the phone's row of
\* item i, or only rows of the Pi are sent.
Sync(b) ==
  /\ up
  /\ lock = None
  /\ \/ SingleBag(b, items)
     \/ \E i \in Items, batch \in Batches, d \in BOOLEAN, own \in bags :
          SingleBag(b, [items EXCEPT ![i] = [bag |-> own, batch |-> batch,
                                             qty |-> 1, deleted |-> d]])
  /\ UNCHANGED <<up, lock, work>>

\* The rows an edit of src, or an addition, may merge with: find_matching_item_rows.
Matches(b, batch, src) ==
  {i \in Items : i # src /\ Live(i) /\ items[i].bag = b /\ items[i].batch = batch}

\* The row that is written: a match, the row that was edited, or a new one.
Target(b, batch, src) ==
  IF Matches(b, batch, src) # {} THEN Matches(b, batch, src)
  ELSE IF src # None THEN {src} ELSE {i \in Items : ~Has(i)}

\* Wrong: a page reads before it writes, too.
NoLockAfterRead(kind, t) == lock

\* The write lock once the bag has been looked up (canonical_ui_bag_row).
LockAfterRead(kind, t) == IF kind = "ui" THEN t ELSE lock

\* merge_or_write_item_record up to the write: add q of a batch to bag b, or
\* store an edited row src there.  A page edits the single bag, a REST route
\* the bag of its URL or of the row.
ReadItem(t) ==
  /\ up
  /\ work[t] = None
  /\ \E kind \in Kinds, b \in bags, batch \in Batches, src \in Items \cup {None}, q \in 1 .. MaxQty :
       /\ kind = "ui" => lock = None
       /\ kind = "rest" /\ src # None => Has(src) /\ items[src].bag = b
       /\ lock' = LockAfterRead(kind, t)
       /\ \E i \in Target(b, batch, src) :
            LET base == IF i \in Matches(b, batch, src) THEN items[i].qty ELSE 0
            IN  /\ base + q <= MaxQty
                /\ work' = [work EXCEPT ![t] = [bag |-> b, batch |-> batch, target |-> i,
                                                src |-> src, base |-> base, added |-> q]]
  /\ UNCHANGED <<up, db>>

\* write_item_record, the deletion of a row that was merged, and the commit.
\* The row is stored as live even if it was deleted meanwhile.
Written(k) ==
  [i \in Items |->
     IF i = k.target
     THEN [bag |-> k.bag, batch |-> k.batch, qty |-> k.base + k.added, deleted |-> FALSE]
     ELSE IF i = k.src /\ Has(i) THEN [items[i] EXCEPT !.deleted = TRUE] ELSE items[i]]

WriteItem(t) ==
  /\ work[t] # None
  /\ lock \in {None, t}
  /\ items' = Written(work[t])
  /\ lock' = None
  /\ work' = [work EXCEPT ![t] = None]
  /\ UNCHANGED <<up, bags, chosen>>

\* DELETE /items/{id} and its dashboard form.
DeleteItem(i) ==
  /\ up
  /\ lock = None
  /\ Has(i)
  /\ items' = [items EXCEPT ![i].deleted = TRUE]
  /\ UNCHANGED <<up, bags, chosen, lock, work>>

Next ==
  \/ Startup \/ Crash
  \/ \E b \in BagIds \cup {None} : Sync(b)
  \/ \E t \in Threads : ReadItem(t) \/ WriteItem(t)
  \/ \E i \in Items : DeleteItem(i)

Spec == Init /\ [][Next]_vars
----------------------------------------------------------------------------
TypeOK ==
  /\ up \in BOOLEAN
  /\ bags \subseteq BagIds
  /\ chosen \in BagIds \cup {None}
  /\ items \in [Items -> Row \cup {None}]
  /\ lock \in Threads \cup {None}
  /\ work \in [Threads -> Task \cup {None}]

\* While the server runs there is one bag, the chosen one, whatever bags an
\* older version left behind and whatever ids phones bring (ensure_single_bag).
OneBag == up => bags = {chosen}

\* Every item belongs to a bag: a row of another bag id would be in no list
\* of the bag and no phone would be sent it as an item of the bag.
NoOrphan == \A i \in Items : Has(i) => items[i].bag \in bags

\* What is added to a batch is added to what is there when it is stored: no
\* addition is lost and none is counted twice, with requests that overlap.
AddsCount ==
  [][\A t \in Threads :
       work[t] # None /\ work'[t] = None /\ up' =>
         LET k == work[t] IN
         k.target # k.src =>
           items'[k.target].qty = k.added + (IF Live(k.target) THEN items[k.target].qty ELSE 0)]_vars

=============================================================================
