--------------------------- MODULE BagStoreProofs ---------------------------
(***************************************************************************)
(* Theorems about BagStore, for every set of bags, items, batches and      *)
(* threads.  That there is one bag holds with all handlers; what the       *)
(* handlers of the dashboard promise of the rows is proved for them alone: *)
(* a REST route reads before it has the lock, and breaks it.               *)
(***************************************************************************)
EXTENDS BagStore, TLAPS

OnlyPages == Kinds \subseteq {"ui"}

\* A thread that has read has the lock until it has written.
ReadersLock == \A t \in Threads : work[t] # None => lock = t /\ up

\* What was read is still so.
TasksFresh ==
    \A t \in Threads :
        work[t] # None =>
            /\ work[t].bag \in bags
            /\ work[t].target # work[t].src =>
                  work[t].base = IF Live(work[t].target) THEN items[work[t].target].qty ELSE 0

StoreInv == TypeOK /\ OneBag /\ NoOrphan /\ ReadersLock /\ TasksFresh

----------------------------------------------------------------------------
(* The types, and the one bag, with all handlers. *)

LEMMA OneCanonical ==
    ASSUME TypeOK, NEW b \in BagIds \cup {None}, NEW c \in Canonical(b)
    PROVE  c \in BagIds
  BY DEF TypeOK, Canonical

\* All rows that belong to a bag belong to the one bag afterwards.
LEMMA SingleBagKeeps ==
    ASSUME TypeOK, NEW b \in BagIds \cup {None},
           NEW rows \in [Items -> Row \cup {None}], SingleBag(b, rows)
    PROVE  /\ bags' \subseteq BagIds /\ chosen' \in BagIds /\ bags' = {chosen'}
           /\ items' \in [Items -> Row \cup {None}]
           /\ (\A i \in Items : rows[i] # None => rows[i].bag \in bags) => NoOrphan'
  <1>1. PICK c \in Canonical(b) :
           /\ bags' = {c} /\ chosen' = c
           /\ items' = [i \in Items |-> IF rows[i] # None /\ rows[i].bag \in bags
                                        THEN [rows[i] EXCEPT !.bag = c] ELSE rows[i]]
    BY DEF SingleBag
  <1>2. c \in BagIds
    BY OneCanonical
  <1>3. \A r \in Row : [r EXCEPT !.bag = c] \in Row /\ [r EXCEPT !.bag = c].bag = c
    BY <1>2 DEF Row
  <1>4. items' \in [Items -> Row \cup {None}]
    BY <1>1, <1>3
  <1>5. ASSUME \A i \in Items : rows[i] # None => rows[i].bag \in bags
        PROVE  NoOrphan'
    <2>1. ASSUME NEW i \in Items, items'[i] # None  PROVE items'[i].bag = c
      <3>1. CASE rows[i] = None
        BY <1>1, <2>1, <3>1
      <3>2. CASE rows[i] \in Row /\ rows[i] # None
        BY <1>1, <1>3, <1>5, <3>2
      <3> QED
        BY <3>1, <3>2
    <2> QED
      BY <1>1, <2>1 DEF NoOrphan, Has
  <1> QED
    BY <1>1, <1>2, <1>4, <1>5

\* The rows a sync has stored when it comes to the bag.
LEMMA SyncedRows ==
    ASSUME TypeOK, NEW i \in Items, NEW batch \in Batches, NEW d \in BOOLEAN, NEW own \in bags
    PROVE  LET row == [bag |-> own, batch |-> batch, qty |-> 1, deleted |-> d]
               rows == [items EXCEPT ![i] = row]
           IN  /\ rows \in [Items -> Row \cup {None}]
               /\ rows[i] = row /\ row.bag = own
               /\ \A j \in Items \ {i} : rows[j] = items[j]
  <1>1. [bag |-> own, batch |-> batch, qty |-> 1, deleted |-> d] \in Row
    BY StoreAssumption DEF TypeOK, Row
  <1> QED
    BY <1>1 DEF TypeOK

\* POST /sync leaves one bag, and the rows in it.
LEMMA SyncKeeps ==
    ASSUME TypeOK, NEW b \in BagIds \cup {None}, Sync(b)
    PROVE  /\ bags' \subseteq BagIds /\ chosen' \in BagIds /\ bags' = {chosen'}
           /\ items' \in [Items -> Row \cup {None}]
           /\ NoOrphan => NoOrphan'
  <1>1. CASE SingleBag(b, items)
    BY <1>1, SingleBagKeeps DEF TypeOK, NoOrphan, Has
  <1>2. ASSUME NEW i \in Items, NEW batch \in Batches, NEW d \in BOOLEAN, NEW own \in bags,
               SingleBag(b, [items EXCEPT ![i] = [bag |-> own, batch |-> batch,
                                                  qty |-> 1, deleted |-> d]])
        PROVE  /\ bags' \subseteq BagIds /\ chosen' \in BagIds /\ bags' = {chosen'}
               /\ items' \in [Items -> Row \cup {None}]
               /\ NoOrphan => NoOrphan'
    <2> DEFINE rows == [items EXCEPT ![i] = [bag |-> own, batch |-> batch,
                                             qty |-> 1, deleted |-> d]]
    <2>1. /\ rows \in [Items -> Row \cup {None}] /\ rows[i].bag = own
          /\ \A j \in Items \ {i} : rows[j] = items[j]
      BY <1>2, SyncedRows
    <2>2. SingleBag(b, rows)
      BY <1>2
    <2> HIDE DEF rows
    <2>3. NoOrphan => \A j \in Items : rows[j] # None => rows[j].bag \in bags
      BY <2>1 DEF NoOrphan, Has
    <2> QED
      BY <2>1, <2>2, <2>3, SingleBagKeeps
  <1> QED
    BY <1>1, <1>2 DEF Sync

\* What a thread has read is a task, and true of the rows.
LEMMA ReadKeeps ==
    ASSUME TypeOK, NEW t \in Threads, ReadItem(t)
    PROVE  /\ lock' \in Threads \cup {None}
           /\ work' \in [Threads -> Task \cup {None}]
           /\ \A u \in Threads \ {t} : work'[u] = work[u]
           /\ work'[t].bag \in bags
           /\ work'[t].target # work'[t].src =>
                work'[t].base = IF Live(work'[t].target) THEN items[work'[t].target].qty ELSE 0
  <1>1. PICK kind \in Kinds, b \in bags, batch \in Batches, src \in Items \cup {None},
             q \in 1 .. MaxQty :
          /\ kind = "ui" => lock = None
          /\ kind = "rest" /\ src # None => Has(src) /\ items[src].bag = b
          /\ lock' = LockAfterRead(kind, t)
          /\ \E j \in Target(b, batch, src) :
               LET found == IF j \in Matches(b, batch, src) THEN items[j].qty ELSE 0
               IN  /\ found + q <= MaxQty
                   /\ work' = [work EXCEPT ![t] = [bag |-> b, batch |-> batch, target |-> j,
                                                   src |-> src, base |-> found, added |-> q]]
    BY Zenon DEF ReadItem
  <1>2. PICK i \in Target(b, batch, src) :
          LET found == IF i \in Matches(b, batch, src) THEN items[i].qty ELSE 0
          IN  /\ found + q <= MaxQty
              /\ work' = [work EXCEPT ![t] = [bag |-> b, batch |-> batch, target |-> i,
                                              src |-> src, base |-> found, added |-> q]]
    BY <1>1
  <1> DEFINE base == IF i \in Matches(b, batch, src) THEN items[i].qty ELSE 0
             task == [bag |-> b, batch |-> batch, target |-> i,
                      src |-> src, base |-> base, added |-> q]
  <1>3. i \in Items
    <2>1. CASE src = None
      BY <2>1 DEF Target, Matches
    <2>2. CASE src \in Items
      BY <2>2 DEF Target, Matches
    <2> QED
      BY <2>1, <2>2
  <1>4. base \in 0 .. MaxQty
    <2>1. CASE i \in Matches(b, batch, src)
      <3>1. items[i] \in Row
        BY <1>3, <2>1 DEF Matches, Live, Has, TypeOK
      <3> QED
        BY <2>1, <3>1 DEF Row
    <2>2. CASE i \notin Matches(b, batch, src)
      BY <2>2, StoreAssumption
    <2> QED
      BY <2>1, <2>2
  <1>5. i # src => base = IF Live(i) THEN items[i].qty ELSE 0
    BY DEF Target, Matches, Live
  <1>6. b \in BagIds /\ q \in 0 .. MaxQty
    BY StoreAssumption DEF TypeOK
  <1>7. base + q <= MaxQty /\ work' = [work EXCEPT ![t] = task]
    BY <1>2
  <1> HIDE DEF base
  <1>8. /\ task \in Task /\ task.bag = b /\ task.target = i /\ task.src = src
        /\ task.base = base
    BY <1>3, <1>4, <1>6, <1>7 DEF Task
  <1> HIDE DEF task
  <1>9. /\ work' \in [Threads -> Task \cup {None}] /\ work'[t] = task
        /\ \A u \in Threads \ {t} : work'[u] = work[u]
    BY <1>7, <1>8 DEF TypeOK
  <1>10. lock' \in Threads \cup {None}
    BY <1>1 DEF LockAfterRead, TypeOK
  <1> QED
    BY <1>5, <1>8, <1>9, <1>10

\* What a task stores, and where.
LEMMA WrittenRows ==
    ASSUME TypeOK, NEW t \in Threads, work[t] # None
    PROVE  LET k == work[t]
               rows == Written(k)
           IN  /\ rows \in [Items -> Row \cup {None}]
               /\ rows[k.target].bag = k.bag
               /\ rows[k.target].qty = k.base + k.added
               /\ \A i \in Items \ {k.target} :
                     rows[i] # None => Has(i) /\ rows[i].bag = items[i].bag
  <1> DEFINE k == work[t]
  <1>1. k \in Task
    BY DEF TypeOK
  <1>2. /\ k.bag \in BagIds /\ k.batch \in Batches /\ k.target \in Items
        /\ k.base + k.added \in 0 .. MaxQty
    BY <1>1, StoreAssumption DEF Task
  <1> DEFINE row == [bag |-> k.bag, batch |-> k.batch, qty |-> k.base + k.added, deleted |-> FALSE]
  <1>3. row \in Row /\ row.bag = k.bag /\ row.qty = k.base + k.added
    BY <1>2 DEF Row
  <1>4. \A r \in Row : [r EXCEPT !.deleted = TRUE] \in Row /\ [r EXCEPT !.deleted = TRUE].bag = r.bag
    BY DEF Row
  <1>5. /\ Written(k) \in [Items -> Row \cup {None}]
        /\ Written(k)[k.target] = row
    BY <1>2, <1>3, <1>4 DEF Written, Has, TypeOK
  <1>6. ASSUME NEW i \in Items \ {k.target}, Written(k)[i] # None
        PROVE  Has(i) /\ Written(k)[i].bag = items[i].bag
    <2>1. CASE i = k.src /\ Has(i)
      <3>1. items[i] \in Row
        BY <2>1 DEF Has, TypeOK
      <3> QED
        BY <1>4, <1>6, <2>1, <3>1 DEF Written
    <2>2. CASE ~(i = k.src /\ Has(i))
      BY <1>6, <2>2 DEF Written, Has
    <2> QED
      BY <2>1, <2>2
  <1> QED
    BY <1>3, <1>5, <1>6

LEMMA TypeAndBagNext ==
    ASSUME TypeOK, OneBag, [Next]_vars
    PROVE  TypeOK' /\ OneBag'
  <1>1. CASE Startup
    BY <1>1, SingleBagKeeps DEF Startup, TypeOK, OneBag
  <1>2. CASE Crash
    BY <1>2 DEF Crash, TypeOK, OneBag, db
  <1>3. ASSUME NEW b \in BagIds \cup {None}, Sync(b)  PROVE TypeOK' /\ OneBag'
    BY <1>3, SyncKeeps DEF Sync, TypeOK, OneBag
  <1>4. ASSUME NEW t \in Threads, ReadItem(t)  PROVE TypeOK' /\ OneBag'
    <2>1. UNCHANGED <<up, bags, chosen, items>>
      BY <1>4 DEF ReadItem, db
    <2>2. work' \in [Threads -> Task \cup {None}] /\ lock' \in Threads \cup {None}
      BY <1>4, ReadKeeps DEF TypeOK
    <2> QED
      BY <2>1, <2>2 DEF TypeOK, OneBag
  <1>5. ASSUME NEW t \in Threads, WriteItem(t)  PROVE TypeOK' /\ OneBag'
    <2>1. items' \in [Items -> Row \cup {None}]
      BY <1>5, WrittenRows DEF WriteItem
    <2> QED
      BY <1>5, <2>1 DEF WriteItem, TypeOK, OneBag
  <1>6. ASSUME NEW i \in Items, DeleteItem(i)  PROVE TypeOK' /\ OneBag'
    <2>1. items[i] \in Row
      BY <1>6 DEF DeleteItem, Has, TypeOK
    <2>2. [items[i] EXCEPT !.deleted = TRUE] \in Row
      BY <2>1 DEF Row
    <2> QED
      BY <1>6, <2>2 DEF DeleteItem, TypeOK, OneBag
  <1>7. CASE UNCHANGED vars
    BY <1>7 DEF vars, TypeOK, OneBag
  <1> QED
    BY <1>1, <1>2, <1>3, <1>4, <1>5, <1>6, <1>7 DEF Next

----------------------------------------------------------------------------
(* With the handlers of the dashboard only. *)

\* While no thread is at work, the rows may change.
LEMMA Idle ==
    ASSUME ReadersLock, lock = None \/ ~up
    PROVE  \A t \in Threads : work[t] = None
  BY StoreAssumption DEF ReadersLock

LEMMA StoreNext ==
    ASSUME StoreInv, OnlyPages, [Next]_vars
    PROVE  StoreInv'
  <1>1. TypeOK' /\ OneBag'
    BY TypeAndBagNext DEF StoreInv
  <1>2. TypeOK /\ OneBag /\ NoOrphan /\ ReadersLock /\ TasksFresh
    BY DEF StoreInv
  <1>3. CASE Startup
    <2>1. \A t \in Threads : work'[t] = None
      BY <1>2, <1>3, Idle DEF Startup
    <2>2. NoOrphan'
      BY <1>2, <1>3, SingleBagKeeps DEF Startup, TypeOK, NoOrphan, Has
    <2> QED
      BY <1>1, <2>1, <2>2 DEF StoreInv, ReadersLock, TasksFresh
  <1>4. CASE Crash
    <2>1. \A t \in Threads : work'[t] = None
      BY <1>4 DEF Crash
    <2>2. NoOrphan'
      BY <1>2, <1>4 DEF Crash, db, NoOrphan, Has
    <2> QED
      BY <1>1, <2>1, <2>2 DEF StoreInv, ReadersLock, TasksFresh
  <1>5. ASSUME NEW b \in BagIds \cup {None}, Sync(b)  PROVE StoreInv'
    <2>1. \A t \in Threads : work'[t] = None
      BY <1>2, <1>5, Idle DEF Sync
    <2>2. NoOrphan'
      BY <1>2, <1>5, SyncKeeps
    <2> QED
      BY <1>1, <2>1, <2>2 DEF StoreInv, ReadersLock, TasksFresh
  <1>6. ASSUME NEW t \in Threads, ReadItem(t)  PROVE StoreInv'
    <2>1. UNCHANGED <<up, bags, chosen, items>> /\ up
      BY <1>6 DEF ReadItem, db
    <2>2. lock = None /\ lock' = t
      BY <1>6 DEF ReadItem, LockAfterRead, OnlyPages
    <2>3. \A u \in Threads : work[u] = None
      BY <1>2, <2>2, Idle
    <2>4. \A u \in Threads \ {t} : work'[u] = None
      BY <1>2, <1>6, <2>3, ReadKeeps
    <2>5. ReadersLock'
      BY <2>1, <2>2, <2>4 DEF ReadersLock
    <2>6. TasksFresh'
      BY <1>2, <1>6, <2>1, <2>4, ReadKeeps DEF TasksFresh, Live, Has
    <2>7. NoOrphan'
      BY <1>2, <2>1 DEF NoOrphan, Has
    <2> QED
      BY <1>1, <2>5, <2>6, <2>7 DEF StoreInv
  <1>7. ASSUME NEW t \in Threads, WriteItem(t)  PROVE StoreInv'
    <2>1. work[t] # None /\ UNCHANGED <<up, bags, chosen>>
      BY <1>7 DEF WriteItem
    <2>2. \A u \in Threads : work'[u] = None
      BY <1>2, <1>7 DEF WriteItem, TypeOK, ReadersLock
    <2>3. work[t].bag \in bags /\ items' = Written(work[t])
      BY <1>2, <1>7, <2>1 DEF TasksFresh, WriteItem
    <2>4. NoOrphan'
      BY <1>2, <2>1, <2>3, WrittenRows DEF NoOrphan, Has
    <2> QED
      BY <1>1, <2>2, <2>4 DEF StoreInv, ReadersLock, TasksFresh
  <1>8. ASSUME NEW i \in Items, DeleteItem(i)  PROVE StoreInv'
    <2>1. \A t \in Threads : work'[t] = None
      BY <1>2, <1>8, Idle DEF DeleteItem
    <2>2. items[i] \in Row /\ items[i].bag \in bags
      BY <1>2, <1>8 DEF DeleteItem, Has, TypeOK, NoOrphan
    <2>3. [items[i] EXCEPT !.deleted = TRUE].bag \in bags
      BY <2>2 DEF Row
    <2>4. NoOrphan'
      BY <1>2, <1>8, <2>3 DEF DeleteItem, NoOrphan, Has, TypeOK
    <2> QED
      BY <1>1, <2>1, <2>4 DEF StoreInv, ReadersLock, TasksFresh
  <1>9. CASE UNCHANGED vars
    BY <1>1, <1>2, <1>9 DEF vars, StoreInv, NoOrphan, Has, Live, ReadersLock, TasksFresh
  <1> QED
    BY <1>3, <1>4, <1>5, <1>6, <1>7, <1>8, <1>9 DEF Next

\* The step that ends a task adds what the task says to what is there.
LEMMA AdditionCounts ==
    ASSUME StoreInv, OnlyPages, [Next]_vars, NEW t \in Threads,
           work[t] # None, work'[t] = None, up', work[t].target # work[t].src
    PROVE  items'[work[t].target].qty =
             work[t].added + (IF Live(work[t].target) THEN items[work[t].target].qty ELSE 0)
  <1> DEFINE k == work[t]
  <1>1. WriteItem(t)
    <2>1. lock = t /\ up /\ lock # None
      BY StoreAssumption DEF StoreInv, ReadersLock
    <2>2. ASSUME NEW u \in Threads, ReadItem(u)  PROVE FALSE
      BY <2>1, <2>2 DEF ReadItem, OnlyPages
    <2>3. ASSUME NEW u \in Threads, WriteItem(u)  PROVE u = t
      BY <2>1, <2>3 DEF WriteItem
    <2> QED
      BY <2>1, <2>2, <2>3 DEF Next, Startup, Crash, Sync, DeleteItem, vars
  <1>2. k \in Task /\ k.base \in 0 .. MaxQty /\ k.added \in 0 .. MaxQty /\ k.target \in Items
    BY DEF StoreInv, TypeOK, Task
  <1>3. k.base = IF Live(k.target) THEN items[k.target].qty ELSE 0
    BY DEF StoreInv, TasksFresh
  <1>4. items'[k.target].qty = k.base + k.added
    BY <1>1, <1>2, WrittenRows DEF WriteItem, StoreInv
  <1> QED
    BY <1>2, <1>3, <1>4, StoreAssumption

----------------------------------------------------------------------------

LEMMA InitStore == Init => StoreInv
  <1> SUFFICES ASSUME Init  PROVE StoreInv
    OBVIOUS
  <1>1. bags \subseteq BagIds /\ 1 \in 0 .. MaxQty
    BY StoreAssumption DEF Init
  <1>2. items \in [Items -> Row \cup {None}]
    BY <1>1 DEF Init, Row
  <1>3. \A i \in Items : items[i] # None => items[i].bag \in bags
    BY DEF Init
  <1> QED
    BY <1>1, <1>2, <1>3
    DEF Init, StoreInv, TypeOK, OneBag, NoOrphan, Has, ReadersLock, TasksFresh

\* The types, and one bag while the server runs, whichever handlers there are.
THEOREM TypeAndOneBag == Spec => [](TypeOK /\ OneBag)
  <1>1. Init => TypeOK /\ OneBag
    BY InitStore DEF StoreInv
  <1> QED
    BY <1>1, TypeAndBagNext, PTL DEF Spec

\* The types of the state.
THEOREM TypeCorrect == Spec => []TypeOK
  BY TypeAndOneBag, PTL

\* While the server runs there is one bag.
THEOREM BagIsSingle == Spec => []OneBag
  BY TypeAndOneBag, PTL

\* The inductive invariant holds if only pages edit.
THEOREM Invariance ==
    ASSUME OnlyPages
    PROVE  Spec => []StoreInv
  <1>1. ASSUME StoreInv, [Next]_vars  PROVE StoreInv'
    BY <1>1, StoreNext
  <1> QED
    BY InitStore, <1>1, PTL DEF Spec

\* Every item belongs to a bag.
THEOREM ItemsHaveABag ==
    ASSUME OnlyPages
    PROVE  Spec => []NoOrphan
  <1>1. StoreInv => NoOrphan
    BY DEF StoreInv
  <1> QED
    BY Invariance, <1>1, PTL

\* No addition to a batch is lost and none is counted twice.
THEOREM AdditionsCount ==
    ASSUME OnlyPages
    PROVE  Spec => AddsCount
  <1> DEFINE Counted ==
        \A t \in Threads :
          work[t] # None /\ work'[t] = None /\ up' =>
            LET k == work[t] IN
            k.target # k.src =>
              items'[k.target].qty = k.added + (IF Live(k.target) THEN items[k.target].qty ELSE 0)
  <1>1. ASSUME StoreInv, [Next]_vars  PROVE Counted
    BY <1>1, AdditionCounts
  <1> HIDE DEF Counted
  <1>2. StoreInv /\ [Next]_vars => [Counted]_vars
    BY <1>1
  <1>3. Spec => [][Counted]_vars
    BY Invariance, <1>2, PTL DEF Spec
  <1> QED
    BY <1>3 DEF AddsCount, Counted

=============================================================================
