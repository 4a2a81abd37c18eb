--------------------------- MODULE BagQuietProofs ---------------------------
(***************************************************************************)
(* One phone that syncs without haste loses no edit: NoEditStranded and    *)
(* UpToDateAfterSync, for every set of items, values and jobs and all      *)
(* bounds, when                                                            *)
(*   - one phone only syncs with the Pi;                                   *)
(*   - its user neither edits nor resolves conflicts while a sync runs,    *)
(*     starts no second sync meanwhile, and resolves the conflicts before  *)
(*     the next sync;                                                      *)
(*   - no reply is lost and no abandoned request is run.                   *)
(* Calls may still fail, the status poll runs at any time, the Pi is       *)
(* edited at any time, and the phone may pair again.  The hypotheses are   *)
(* the weakest the constants can state: with a second phone, or with any   *)
(* other member of AllFaults, TLC finds a stranded edit.                   *)
(***************************************************************************)
EXTENDS BagStampProofs

Quiet == Faults \subseteq {"repair"} /\ \A p, q \in Phones : p = q

Syncers == Jobs \ Pollers

\* The phases of a sync before the Pi has run its request, and those in which
\* the phone has a reply that it has not put away yet.
Asking   == {"paired", "probing", "probed", "collecting", "sent"}
Applying == {"answered", "applying", "merged"}

AllSettled == \A j \in Syncers : job[j].pc = "idle"

OneSyncAtATime ==
    /\ late = {}
    /\ \A j, k \in Syncers : job[j].pc # "idle" /\ job[k].pc # "idle" => j = k
    /\ \A j \in Jobs \cap Pollers : job[j].pc \in {"idle", "probing", "probed"}

\* No copy of the bag's row is deleted or stamped in the future.
LiveBag(row) == ~row.deleted /\ row.t <= clock

BagRowLives ==
    /\ LiveBag(pi[Bag])
    /\ \A p \in Phones : LiveBag(room[p][Bag])
    /\ \A j \in Jobs : LiveBag(job[j].req.sent[Bag]) /\ LiveBag(job[j].changes[Bag])

\* A conflict c on item i is still the Pi's row, or the Pi has edited it since.
Current(p, i, c) ==
    Exists(c) => Exists(room[p][i]) /\ (pi[i] = c \/ pi[i].t > lastSync)

ConflictsCurrent ==
    /\ \A p \in Phones, i \in Items : Current(p, i, conf[p][i])
    /\ \A j \in Syncers : job[j].pc \in Applying =>
          \A i \in Items : Current(Owner[j], i, job[j].conflicts[i])

NoConflictMeanwhile ==
    \A j \in Syncers : job[j].pc \in Asking \cup Applying => conf[Owner[j]] = NoConflicts

\* The phone's rows do not change while its request is on the way.
RequestCurrent ==
    \A j \in Syncers : job[j].pc = "sent" =>
        job[j].req.sent = ChangedSince(room[Owner[j]], job[j].req.ls)

\* Between two syncs a row agrees or will be exchanged.  The Pi's last sync
\* stands here for the phone's baseline, which never exceeds it.
Pending(p, r) ==
    \/ SameBarPacked(room[p][r], pi[r])
    \/ room[p][r].t > lastSync
    \/ pi[r].t > lastSync
    \/ r \in Items /\ Exists(conf[p][r])

\* What job j is going to store in row r.
Incoming(j, r) ==
    IF \/ job[j].pc = "merged"
       \/ job[j].pc = "answered" /\ room[Owner[j]][r].t > job[j].req.ls
    THEN NoRow ELSE job[j].changes[r]

\* The reply settles every row that the Pi has not edited since.
Settles(j, r) ==
    \/ pi[r].t > lastSync
    \/ Exists(Incoming(j, r)) /\ SameBarPacked(Incoming(j, r), pi[r])
    \/ ~Exists(Incoming(j, r)) /\ SameBarPacked(room[Owner[j]][r], pi[r])
    \/ ~Exists(Incoming(j, r)) /\ r \in Items /\ Exists(job[j].conflicts[r])

RowsAccounted ==
    /\ (\A j \in Syncers : job[j].pc \notin Applying) =>
          \A p \in Phones, r \in Rows : Pending(p, r)
    /\ \A j \in Syncers : job[j].pc \in Applying => \A r \in Rows : Settles(j, r)

QuietInv ==
    /\ OneSyncAtATime
    /\ BagRowLives
    /\ ConflictsCurrent
    /\ NoConflictMeanwhile
    /\ RequestCurrent
    /\ RowsAccounted

-----------------------------------------------------------------------------
(* The verdict of the Pi on one row: p is the phone's copy, s the Pi's, ls *)
(* the baseline of the request, last the Pi's last sync so far.            *)

\* What the request says of a row of the phone.
Told(p, ls) == IF p.t > ls THEN p ELSE NoRow

\* The Pi's copy and the phone's copy with the reply agree, or there is a conflict.
LEMMA ItemVerdict ==
    ASSUME NEW s \in Row, NEW p \in Row, NEW ls \in Nat, NEW last \in Nat, ls <= last,
           SameBarPacked(p, s) \/ p.t > last \/ s.t > last
    PROVE  LET q == Told(p, ls)
               after == IF TakesItem(s, q, ls) THEN q ELSE s
           IN  \/ SendsItem(s, q, ls) /\ Exists(s) /\ p.t <= ls /\ after = s
               \/ (SendsItem(s, q, ls) => p.t > ls) /\ SameBarPacked(p, after)
               \/ ~SendsItem(s, q, ls) /\ ConflictingItem(s, q, ls)
  <1> DEFINE q == Told(p, ls)
             after == IF TakesItem(s, q, ls) THEN q ELSE s
  <1>1. CASE p.t <= ls
    <2>1. q = NoRow /\ ~Exists(q)
      BY <1>1 DEF Told, NoRow, Exists, Row
    <2>2. after = s
      BY <2>1 DEF TakesItem
    <2>3. CASE SendsItem(s, q, ls)
      BY <1>1, <2>2, <2>3 DEF SendsItem
    <2>4. CASE ~SendsItem(s, q, ls)
      <3>1. s.t <= ls
        BY <2>1, <2>4 DEF SendsItem, Exists, Row
      <3>2. SameBarPacked(p, s)
        BY <1>1, <3>1 DEF Row
      <3> QED
        BY <2>2, <2>4, <3>2
    <2> QED
      BY <2>3, <2>4
  <1>2. CASE p.t > ls
    <2>1. q = p /\ Exists(p)
      BY <1>2 DEF Told, Exists, Row
    <2>2. CASE TakesItem(s, p, ls)
      <3>1. after = p
        BY <2>1, <2>2
      <3> QED
        BY <1>2, <3>1 DEF SameBarPacked
    <2>3. CASE ~TakesItem(s, p, ls)
      <3>1. after = s
        BY <2>1, <2>3
      <3>2. Exists(s) /\ BothChanged(s, p, ls)
        BY <1>2, <2>1, <2>3 DEF TakesItem, BothChanged, Row
      <3>3. CASE Same(s, p) \/ OnlyPackedDiffers(s, p)
        BY <1>2, <3>1, <3>3 DEF Same, OnlyPackedDiffers, SameBarPacked
      <3>4. CASE ~Same(s, p) /\ ~OnlyPackedDiffers(s, p)
        <4>1. ConflictingItem(s, p, ls)
          BY <2>1, <3>2, <3>4 DEF ConflictingItem
        <4>2. ~SendsItem(s, p, ls)
          BY <1>2, <2>1, <3>4 DEF SendsItem, Row
        <4> QED
          BY <2>1, <4>1, <4>2
      <3> QED
        BY <3>3, <3>4
    <2> QED
      BY <2>2, <2>3
  <1> QED
    BY <1>1, <1>2 DEF Row

\* A row the Pi reports in conflict is one it keeps, and the phone has one too.
LEMMA ConflictVerdict ==
    ASSUME NEW s \in Row, NEW p \in Row, NEW ls \in Nat, ConflictingItem(s, Told(p, ls), ls)
    PROVE  ~TakesItem(s, Told(p, ls), ls) /\ Exists(p)
  BY DEF ConflictingItem, TakesItem, BothChanged, Told, Exists, NoRow, Row

\* The bag's rows agree after every request: if the phone sends its row, the Pi
\* has taken over what it says before it compares the two.
LEMMA BagVerdict ==
    ASSUME NEW s \in Row, NEW p \in Row, NEW ls \in Nat, NEW last \in Nat, ls <= last,
           NEW now \in Nat, ~s.deleted, ~p.deleted,
           SameBarPacked(p, s) \/ p.t > last \/ s.t > last
    PROVE  LET q == Told(p, ls)
               a == Aligned(s, q, now)
               after == IF TakesBag(a, q, ls) THEN q ELSE a
           IN  \/ SendsBag(a, q, ls) /\ Exists(a) /\ p.t <= ls /\ after = a
               \/ (SendsBag(a, q, ls) => p.t > ls) /\ SameBarPacked(p, after)
  <1> DEFINE q == Told(p, ls)
             a == Aligned(s, q, now)
             after == IF TakesBag(a, q, ls) THEN q ELSE a
  <1>1. CASE p.t <= ls
    <2>1. q = NoRow /\ ~Exists(q)
      BY <1>1 DEF Told, NoRow, Exists, Row
    <2>2. a = s /\ after = s
      BY <2>1 DEF TakesBag, Aligned, Realigns
    <2>3. CASE SendsBag(s, q, ls)
      BY <1>1, <2>2, <2>3 DEF SendsBag, Exists, Row
    <2>4. CASE ~SendsBag(s, q, ls)
      <3>1. s.t <= ls
        BY <2>1, <2>4 DEF SendsBag, Row
      <3>2. SameBarPacked(p, s)
        BY <1>1, <3>1 DEF Row
      <3> QED
        BY <2>2, <2>4, <3>2
    <2> QED
      BY <2>3, <2>4
  <1>2. CASE p.t > ls
    <2>1. q = p /\ Exists(p)
      BY <1>2 DEF Told, Exists, Row
    <2>2. a.val = p.val /\ a.deleted = p.deleted
      BY <2>1 DEF Aligned, Realigns, Row
    <2>3. SameBarPacked(p, p) /\ SameBarPacked(p, a)
      BY <2>2 DEF SameBarPacked
    <2>4. SameBarPacked(p, after)
      BY <2>1, <2>3
    <2> QED
      BY <1>2, <2>4
  <1> QED
    BY <1>1, <1>2 DEF Row

-----------------------------------------------------------------------------
(* The steps that happen while no sync runs. *)

\* The places where rows are hold rows.
LEMMA RowPlaces ==
    ASSUME TypeOK
    PROVE  /\ clock \in Nat /\ lastSync \in Nat
           /\ Bag \in Rows /\ Items \subseteq Rows /\ Bag \notin Items
           /\ \A r \in Rows : pi[r] \in Row
           /\ \A p \in Phones, r \in Rows : room[p][r] \in Row
           /\ \A p \in Phones, i \in Items : conf[p][i] \in Row
           /\ \A j \in Jobs : /\ Owner[j] \in Phones /\ job[j].req.ls \in Nat
                              /\ job[j].changes \in Table /\ job[j].req.sent \in Table
                              /\ job[j].conflicts \in [Items -> Row]
           /\ \A j \in Jobs, r \in Rows : /\ job[j].changes[r] \in Row
                                          /\ job[j].req.sent[r] \in Row
           /\ \A j \in Jobs, i \in Items : job[j].conflicts[i] \in Row
  BY RowsAssumption, JobsAssumption DEF TypeOK, Table, Rows, JobState, Request

\* With one phone, its user acts while no sync runs at all.
LEMMA UserWaits ==
    ASSUME Quiet, TypeOK, NEW p \in Phones, UserMayEdit(p)
    PROVE  AllSettled
  BY JobsAssumption DEF Quiet, UserMayEdit, Syncing, AllSettled, Syncers

\* A step that changes rows of the phone and conflicts only, while no sync runs.
LEMMA SettledStep ==
    ASSUME TypeOK, TypeOK', QuietInv, AllSettled, clock <= clock',
           UNCHANGED <<pi, lastSync, job, late>>,
           \A p \in Phones : ~room'[p][Bag].deleted /\ room'[p][Bag].t <= clock',
           \A p \in Phones, i \in Items : Current(p, i, conf[p][i])',
           \A p \in Phones, r \in Rows : Pending(p, r)'
    PROVE  QuietInv'
  <1>1. \A j \in Syncers : job'[j].pc = "idle"
    BY DEF AllSettled
  <1>2. OneSyncAtATime'
    BY DEF QuietInv, OneSyncAtATime
  <1>3. BagRowLives'
    BY RowPlaces DEF QuietInv, BagRowLives, LiveBag, Row, TypeOK
  <1>4. ConflictsCurrent' /\ NoConflictMeanwhile' /\ RequestCurrent'
    BY <1>1 DEF ConflictsCurrent, NoConflictMeanwhile, RequestCurrent, Asking, Applying
  <1>5. RowsAccounted'
    BY <1>1 DEF RowsAccounted, Applying
  <1> QED
    BY <1>2, <1>3, <1>4, <1>5 DEF QuietInv

\* Storing a row stamped now, with or without forgetting a conflict on it.
LEMMA StoreSettled ==
    ASSUME TypeOK, TypeOK', BaselineBehindPi, QuietInv, AllSettled, Tick,
           NEW p \in Phones, NEW r \in Rows, NEW row \in Row, StoreOnPhone(p, r, row),
           r = Bag => ~row.deleted,
           \/ conf' = conf
           \/ r \in Items /\ Forget(p, r)
    PROVE  QuietInv'
  <1> DEFINE new == [row EXCEPT !.t = clock']
  <1>1. clock' = clock + 1 /\ clock \in Nat /\ lastSync \in Nat /\ lastSync < clock'
    BY DEF Tick, TypeOK, BaselineBehindPi
  <1>2. room' = [room EXCEPT ![p][r] = new] /\ UNCHANGED <<pi, lastSync, job, late>>
    BY DEF StoreOnPhone
  <1>3. new.t = clock' /\ new.deleted = row.deleted /\ Exists(new)
    BY <1>1 DEF Row, Exists
  <1>4. room'[p][r] = new
    BY <1>2 DEF TypeOK, Table
  <1>5. \A k \in Phones, s \in Rows : k # p \/ s # r => room'[k][s] = room[k][s]
    BY <1>2 DEF TypeOK, Table
  <1>6. \A k \in Phones, i \in Items :
            \/ conf'[k][i] = conf[k][i]
            \/ k = p /\ i = r /\ conf'[k][i] = NoRow
    BY DEF Forget, TypeOK
  <1> HIDE DEF new
  <1>7. \A k \in Phones : ~room'[k][Bag].deleted /\ room'[k][Bag].t <= clock'
    <2> SUFFICES ASSUME NEW k \in Phones
                 PROVE  ~room'[k][Bag].deleted /\ room'[k][Bag].t <= clock'
      OBVIOUS
    <2>1. CASE k = p /\ Bag = r
      BY <1>1, <1>3, <1>4, <2>1
    <2>2. CASE k # p \/ Bag # r
      <3>1. room'[k][Bag] = room[k][Bag] /\ room[k][Bag] \in Row
        BY <1>5, <2>2, RowPlaces
      <3> QED
        BY <1>1, <3>1 DEF QuietInv, BagRowLives, LiveBag, Row
    <2> QED
      BY <2>1, <2>2
  <1>8. \A k \in Phones, i \in Items : Current(k, i, conf[k][i])'
    <2> SUFFICES ASSUME NEW k \in Phones, NEW i \in Items PROVE Current(k, i, conf[k][i])'
      OBVIOUS
    <2>1. Current(k, i, conf[k][i]) /\ i \in Rows
      BY RowPlaces DEF QuietInv, ConflictsCurrent
    <2>2. Exists(conf'[k][i]) => Exists(conf[k][i]) /\ conf'[k][i] = conf[k][i]
      BY <1>6 DEF Exists, NoRow
    <2>3. Exists(room[k][i]) => Exists(room'[k][i])
      BY <1>3, <1>4, <1>5, <2>1
    <2> QED
      BY <1>2, <2>1, <2>2, <2>3 DEF Current
  <1>9. \A k \in Phones, s \in Rows : Pending(k, s)'
    <2> SUFFICES ASSUME NEW k \in Phones, NEW s \in Rows PROVE Pending(k, s)'
      OBVIOUS
    <2>1. CASE k = p /\ s = r
      BY <1>1, <1>2, <1>3, <1>4, <2>1 DEF Pending
    <2>2. CASE k # p \/ s # r
      <3>1. Pending(k, s)
        BY DEF QuietInv, RowsAccounted, AllSettled, Applying
      <3>2. room'[k][s] = room[k][s] /\ (s \in Items => conf'[k][s] = conf[k][s])
        BY <1>5, <1>6, <2>2
      <3> QED
        BY <1>2, <3>1, <3>2 DEF Pending
    <2> QED
      BY <2>1, <2>2
  <1> QED
    BY <1>1, <1>2, <1>7, <1>8, <1>9, SettledStep

\* The phone's user edits.
LEMMA PhoneEditQuiet ==
    ASSUME Quiet, TypeOK, TypeOK', BaselineBehindPi, QuietInv, NEW p \in Phones, PhoneEdit(p)
    PROVE  QuietInv'
  <1>1. /\ Bag \in Rows /\ Items \subseteq Rows /\ Bag \notin Items
        /\ \A r \in Rows : room[p][r] \in Row
    BY RowPlaces
  <1>2. Tick /\ UserMayEdit(p) /\ conf' = conf
    BY DEF PhoneEdit, PhoneBagEdit, PhoneSave, PhoneToggle, PhoneDelete
  <1>3. AllSettled
    BY <1>2, UserWaits
  <1>4. CASE PhoneBagEdit(p)
    <2>1. PICK v \in Vals : StoreOnPhone(p, Bag, [room[p][Bag] EXCEPT !.val = v])
      BY <1>4 DEF PhoneBagEdit
    <2>2. ~room[p][Bag].deleted
      BY DEF QuietInv, BagRowLives, LiveBag
    <2>3. /\ [room[p][Bag] EXCEPT !.val = v] \in Row
          /\ ~[room[p][Bag] EXCEPT !.val = v].deleted
      BY <1>1, <2>2 DEF Row
    <2> QED
      BY <1>1, <1>2, <1>3, <2>1, <2>3, StoreSettled
  <1>5. ASSUME NEW i \in Items, PhoneSave(p, i) PROVE QuietInv'
    <2>1. PICK v \in Vals, k \in {FALSE, Visible(p, i)} :
                  StoreOnPhone(p, i, [room[p][i] EXCEPT !.val = v, !.packed = @ \/ k])
      BY <1>5 DEF PhoneSave
    <2>2. [room[p][i] EXCEPT !.val = v, !.packed = @ \/ k] \in Row
      BY <1>1 DEF Row
    <2> QED
      BY <1>1, <1>2, <1>3, <2>1, <2>2, StoreSettled
  <1>6. ASSUME NEW i \in Items, PhoneToggle(p, i) PROVE QuietInv'
    <2>1. [room[p][i] EXCEPT !.packed = ~@] \in Row
      BY <1>1 DEF Row
    <2> QED
      BY <1>1, <1>2, <1>3, <1>6, <2>1, StoreSettled DEF PhoneToggle
  <1>7. ASSUME NEW i \in Items, PhoneDelete(p, i) PROVE QuietInv'
    <2>1. [room[p][i] EXCEPT !.deleted = TRUE] \in Row
      BY <1>1 DEF Row
    <2> QED
      BY <1>1, <1>2, <1>3, <1>7, <2>1, StoreSettled DEF PhoneDelete
  <1> QED
    BY <1>4, <1>5, <1>6, <1>7 DEF PhoneEdit

\* The phone's user resolves a conflict.
LEMMA ResolveQuiet ==
    ASSUME Quiet, TypeOK, TypeOK', BaselineBehindPi, QuietInv,
           NEW p \in Phones, NEW i \in Items, Resolve(p, i)
    PROVE  QuietInv'
  <1>1. /\ i \in Rows /\ i # Bag /\ Bag \in Rows /\ room[p][i] \in Row /\ conf[p][i] \in Row
        /\ clock \in Nat
    BY RowPlaces
  <1>2. UserMayEdit(p) /\ Forget(p, i) /\ Exists(conf[p][i])
    BY DEF Resolve, KeepPhone, KeepPi, KeepDeleted, Restore, Resolvable
  <1>3. AllSettled
    BY <1>2, UserWaits
  <1>4. Exists(room[p][i]) /\ (pi[i] = conf[p][i] \/ pi[i].t > lastSync)
    BY <1>2 DEF QuietInv, ConflictsCurrent, Current
  <1>5. CASE KeepPhone(p, i)
    BY <1>1, <1>2, <1>3, <1>4, <1>5, StoreSettled DEF KeepPhone
  <1>6. CASE KeepDeleted(p, i)
    <2>1. [conf[p][i] EXCEPT !.deleted = TRUE] \in Row
      BY <1>1 DEF Row
    <2> QED
      BY <1>1, <1>2, <1>3, <1>6, <2>1, StoreSettled DEF KeepDeleted
  <1>7. CASE Restore(p, i)
    <2>1. [conf[p][i] EXCEPT !.deleted = FALSE] \in Row
      BY <1>1 DEF Row
    <2> QED
      BY <1>1, <1>2, <1>3, <1>7, <2>1, StoreSettled DEF Restore
  <1>8. CASE KeepPi(p, i)
    <2>1. /\ room' = [room EXCEPT ![p][i] = conf[p][i]]
          /\ conf' = [conf EXCEPT ![p][i] = NoRow]
          /\ UNCHANGED <<clock, pi, lastSync, job, late>>
      BY <1>8 DEF KeepPi, Forget
    <2>2. room'[p][i] = conf[p][i] /\ Exists(room'[p][i])
      BY <1>1, <1>2, <2>1 DEF TypeOK, Table
    <2>3. \A k \in Phones, r \in Rows : k # p \/ r # i => room'[k][r] = room[k][r]
      BY <2>1 DEF TypeOK, Table
    <2>4. conf'[p][i] = NoRow
      BY <2>1 DEF TypeOK
    <2>5. \A k \in Phones, l \in Items : k # p \/ l # i => conf'[k][l] = conf[k][l]
      BY <2>1 DEF TypeOK
    <2>6. \A k \in Phones : ~room'[k][Bag].deleted /\ room'[k][Bag].t <= clock'
      BY <1>1, <2>1, <2>3 DEF QuietInv, BagRowLives, LiveBag
    <2>7. ASSUME NEW k \in Phones, NEW l \in Items PROVE Current(k, l, conf[k][l])'
      <3>1. CASE k = p /\ l = i
        BY <2>4, <3>1 DEF Current, Exists, NoRow
      <3>2. CASE k # p \/ l # i
        <4>1. Current(k, l, conf[k][l]) /\ l \in Rows
          BY RowPlaces DEF QuietInv, ConflictsCurrent
        <4>2. conf'[k][l] = conf[k][l] /\ room'[k][l] = room[k][l]
          BY <2>3, <2>5, <3>2, <4>1
        <4> QED
          BY <2>1, <4>1, <4>2 DEF Current
      <3> QED
        BY <3>1, <3>2
    <2>8. ASSUME NEW k \in Phones, NEW r \in Rows PROVE Pending(k, r)'
      <3>1. CASE k = p /\ r = i
        BY <1>4, <2>1, <2>2, <3>1 DEF Pending, SameBarPacked
      <3>2. CASE k # p \/ r # i
        <4>1. Pending(k, r)
          BY <1>3 DEF QuietInv, RowsAccounted, AllSettled, Applying
        <4> QED
          BY <2>1, <2>3, <2>5, <3>2, <4>1 DEF Pending
      <3> QED
        BY <3>1, <3>2
    <2> QED
      BY <1>1, <1>3, <2>1, <2>6, <2>7, <2>8, SettledStep
  <1> QED
    BY <1>5, <1>6, <1>7, <1>8 DEF Resolve

-----------------------------------------------------------------------------
(* The Pi is edited. *)

LEMMA PiEditQuiet ==
    ASSUME TypeOK, TypeOK', BaselineBehindPi, QuietInv, PiEdit
    PROVE  QuietInv'
  <1>0. /\ Bag \in Rows /\ Items \subseteq Rows /\ Bag \notin Items
        /\ \A r \in Rows : pi[r] \in Row
    BY RowPlaces
  <1>1. PICK r \in Rows, row \in Row : Tick /\ StoreOnPi(r, row) /\ (r = Bag => ~row.deleted)
    <2>1. CASE PiBagEdit
      <3>1. PICK v \in Vals : StoreOnPi(Bag, [pi[Bag] EXCEPT !.val = v])
        BY <2>1 DEF PiBagEdit
      <3>2. ~pi[Bag].deleted
        BY DEF QuietInv, BagRowLives, LiveBag
      <3>3. [pi[Bag] EXCEPT !.val = v] \in Row /\ ~[pi[Bag] EXCEPT !.val = v].deleted
        BY <1>0, <3>2 DEF Row
      <3> QED
        BY <1>0, <2>1, <3>1, <3>3 DEF PiBagEdit
    <2>2. ASSUME NEW i \in Items, PiWrite(i)
          PROVE  \E row \in Row : Tick /\ StoreOnPi(i, row)
      <3>1. PICK v \in Vals, k \in BOOLEAN :
                StoreOnPi(i, [pi[i] EXCEPT !.val = v, !.packed = k, !.deleted = FALSE])
        BY <2>2 DEF PiWrite
      <3>2. [pi[i] EXCEPT !.val = v, !.packed = k, !.deleted = FALSE] \in Row
        BY <1>0 DEF Row
      <3> QED
        BY <2>2, <3>1, <3>2 DEF PiWrite
    <2>3. ASSUME NEW i \in Items, PiDelete(i)
          PROVE  \E row \in Row : Tick /\ StoreOnPi(i, row)
      <3>1. [pi[i] EXCEPT !.deleted = TRUE] \in Row
        BY <1>0 DEF Row
      <3> QED
        BY <2>3, <3>1 DEF PiDelete
    <2> QED
      BY <1>0, <2>1, <2>2, <2>3 DEF PiEdit
  <1> DEFINE new == [row EXCEPT !.t = clock']
  <1>2. clock' = clock + 1 /\ clock \in Nat /\ lastSync \in Nat /\ lastSync < clock'
    BY <1>1 DEF Tick, TypeOK, BaselineBehindPi
  <1>3. pi' = [pi EXCEPT ![r] = new] /\ UNCHANGED <<lastSync, room, conf, job, late>>
    BY <1>1 DEF StoreOnPi
  <1>4. pi'[r].t = clock' /\ pi'[r].deleted = row.deleted
    BY <1>3 DEF TypeOK, Table, Row
  <1>5. \A s \in Rows : pi'[s] = pi[s] \/ pi'[s].t > lastSync
    BY <1>2, <1>3, <1>4 DEF TypeOK, Table
  <1>6. OneSyncAtATime' /\ NoConflictMeanwhile' /\ RequestCurrent'
    BY <1>3 DEF QuietInv, OneSyncAtATime, NoConflictMeanwhile, RequestCurrent
  <1>7. BagRowLives'
    <2>1. \A a \in Row : LiveBag(a) => LiveBag(a)'
      BY <1>2 DEF LiveBag, Row
    <2>2. LiveBag(pi[Bag])'
      <3>1. CASE r = Bag
        BY <1>1, <1>2, <1>4, <3>1 DEF LiveBag
      <3>2. CASE r # Bag
        <4>1. pi'[Bag] = pi[Bag]
          BY <1>0, <1>3, <3>2 DEF TypeOK, Table
        <4> QED
          BY <1>0, <1>2, <4>1 DEF QuietInv, BagRowLives, LiveBag, Row
      <3> QED
        BY <3>1, <3>2
    <2> QED
      BY <1>2, <1>3, <2>2, RowPlaces DEF QuietInv, BagRowLives, LiveBag, Row
  <1>8. ConflictsCurrent'
    BY <1>0, <1>3, <1>5 DEF QuietInv, ConflictsCurrent, Current
  <1>9. RowsAccounted'
    <2>1. ASSUME NEW p \in Phones, NEW s \in Rows, Pending(p, s) PROVE Pending(p, s)'
      BY <1>3, <1>5, <2>1 DEF Pending
    <2>2. ASSUME NEW j \in Jobs, NEW s \in Rows, Settles(j, s) PROVE Settles(j, s)'
      <3>1. Incoming(j, s)' = Incoming(j, s)
        BY <1>3 DEF Incoming
      <3> QED
        BY <1>3, <1>5, <2>2, <3>1 DEF Settles
    <2> QED
      BY <1>3, <2>1, <2>2 DEF QuietInv, RowsAccounted, Syncers
  <1> QED
    BY <1>6, <1>7, <1>8, <1>9 DEF QuietInv

-----------------------------------------------------------------------------
(* The steps of a job that leave the rows and the conflicts alone. *)

\* NoRow never breaks the rule for the bag's row.
LEMMA NoLiveBag == ASSUME clock \in Nat PROVE LiveBag(NoRow) /\ NoRows[Bag] = NoRow
  BY DEF LiveBag, NoRow, NoRows, Rows

LEMMA JobOutside ==
    ASSUME TypeOK, QuietInv, NEW j \in Jobs, NEW STATE state, Become(j, state),
           UNCHANGED <<clock, pi, lastSync, room, conf, late>>,
           job[j].pc \notin Applying, state.pc \notin Applying,
           j \in Pollers => state.pc \in {"idle", "probing", "probed"},
           j \in Syncers /\ state.pc # "idle" =>
               \A k \in Syncers : job[k].pc # "idle" => k = j,
           LiveBag(state.req.sent[Bag]), LiveBag(state.changes[Bag]),
           j \in Syncers /\ state.pc \in Asking => conf[Owner[j]] = NoConflicts,
           j \in Syncers /\ state.pc = "sent" =>
               state.req.sent = ChangedSince(room[Owner[j]], state.req.ls)
    PROVE  QuietInv'
  <1>1. job'[j] = state /\ \A k \in Jobs : k # j => job'[k] = job[k]
    BY DEF Become, TypeOK
  <1>2. Syncers \subseteq Jobs
    BY DEF Syncers
  <1>3. OneSyncAtATime'
    BY <1>1, <1>2 DEF QuietInv, OneSyncAtATime
  <1>4. BagRowLives'
    BY <1>1 DEF QuietInv, BagRowLives, LiveBag
  <1>5. ConflictsCurrent'
    BY <1>1, <1>2 DEF QuietInv, ConflictsCurrent, Current
  <1>6. NoConflictMeanwhile'
    BY <1>1, <1>2 DEF QuietInv, NoConflictMeanwhile
  <1>7. RequestCurrent'
    BY <1>1, <1>2 DEF QuietInv, RequestCurrent
  <1>8. RowsAccounted'
    <2>1. ASSUME \A k \in Syncers : job'[k].pc \notin Applying,
                 NEW p \in Phones, NEW r \in Rows
          PROVE  Pending(p, r)'
      <3>1. \A k \in Syncers : job[k].pc \notin Applying
        BY <1>1, <1>2, <2>1
      <3>2. Pending(p, r)
        BY <3>1 DEF QuietInv, RowsAccounted
      <3> QED
        BY <3>2 DEF Pending
    <2>2. ASSUME NEW k \in Syncers, job'[k].pc \in Applying, NEW r \in Rows
          PROVE  Settles(k, r)'
      <3>1. k # j /\ job'[k] = job[k]
        BY <1>1, <1>2, <2>2
      <3>2. Settles(k, r)
        BY <2>2, <3>1 DEF QuietInv, RowsAccounted
      <3> QED
        BY <3>1, <3>2 DEF Settles, Incoming
    <2> QED
      BY <2>1, <2>2 DEF RowsAccounted
  <1> QED
    BY <1>3, <1>4, <1>5, <1>6, <1>7, <1>8 DEF QuietInv

\* A sync begins while no other runs and no conflict is left.
LEMMA SyncBegins ==
    ASSUME Quiet, TypeOK, NEW j \in Jobs, MaySync(j)
    PROVE  AllSettled /\ j \in Syncers /\ conf[Owner[j]] = NoConflicts
  BY JobsAssumption DEF Quiet, MaySync, Syncing, AllSettled, Syncers

\* A refresh that begins.
LEMMA BeginRefreshQuiet ==
    ASSUME TypeOK, QuietInv, NEW j \in Jobs, NEW from, BeginRefresh(j, from),
           from \notin Applying,
           j \in Syncers => /\ \A k \in Syncers : job[k].pc # "idle" => k = j
                            /\ conf[Owner[j]] = NoConflicts
    PROVE  QuietInv'
  <1> DEFINE state == [Idle EXCEPT !.pc = "probing", !.synced = base[Owner[j]] > 0]
  <1>1. state.pc = "probing" /\ state.req.sent[Bag] = NoRow /\ state.changes[Bag] = NoRow
    BY NoLiveBag DEF Idle, NoRequest, TypeOK
  <1>2. Become(j, state) /\ UNCHANGED <<clock, pi, lastSync, room, conf, late>>
        /\ job[j].pc = from
    BY DEF BeginRefresh
  <1> HIDE DEF state
  <1>3. state.pc \notin Applying /\ state.pc # "sent"
    BY <1>1 DEF Applying
  <1> QED
    BY <1>1, <1>2, <1>3, NoLiveBag, JobOutside DEF TypeOK

\* Asking for the Pi's status, sending the request, finishing, and failing calls.
LEMMA JobOutsideQuiet ==
    ASSUME Quiet, TypeOK, QuietInv, NEW j \in Jobs,
           \/ StartPoll(j) \/ StartSync(j) \/ FirstSync(j) \/ AnswerStatus(j) \/ ApplySuccess(j)
           \/ CollectAndSend(j) \/ FetchSyncStatus(j) \/ FinishSync(j) \/ CallFails(j)
    PROVE  QuietInv'
  <1>0. clock \in Nat /\ Bag \in Rows /\ job[j] \in JobState
    BY DEF TypeOK, Rows
  <1>1. job[j].pc # "idle" /\ j \in Syncers =>
            \A k \in Syncers : job[k].pc # "idle" => k = j
    BY DEF QuietInv, OneSyncAtATime
  <1>2. job[j].pc \in Asking /\ j \in Syncers => conf[Owner[j]] = NoConflicts
    BY DEF QuietInv, NoConflictMeanwhile
  <1>3. LiveBag(job[j].req.sent[Bag]) /\ LiveBag(job[j].changes[Bag])
    BY DEF QuietInv, BagRowLives
  <1>4. j \in Pollers => job[j].pc \in {"idle", "probing", "probed"}
    BY DEF QuietInv, OneSyncAtATime
  <1>5. Idle.pc = "idle" /\ LiveBag(Idle.req.sent[Bag]) /\ LiveBag(Idle.changes[Bag])
    BY <1>0, NoLiveBag DEF Idle, NoRequest
  <1>6. CASE StartPoll(j)
    BY <1>6, BeginRefreshQuiet DEF StartPoll, Syncers, Applying
  <1>7. CASE StartSync(j)
    BY <1>7, SyncBegins, BeginRefreshQuiet DEF StartSync, AllSettled, Applying
  <1>8. CASE FirstSync(j)
    BY <1>1, <1>2, <1>8, BeginRefreshQuiet DEF FirstSync, BeginRefresh, Applying, Asking
  <1>9. CASE AnswerStatus(j)
    <2> DEFINE state == [job[j] EXCEPT !.pc = "probed", !.seen = lastSync]
    <2>1. /\ state.pc = "probed" /\ state.req = job[j].req /\ state.changes = job[j].changes
          /\ job[j].pc = "probing" /\ Become(j, state)
          /\ UNCHANGED <<clock, pi, lastSync, room, conf, late>>
      BY <1>0, <1>9 DEF AnswerStatus, JobState
    <2> HIDE DEF state
    <2> QED
      BY <1>1, <1>2, <1>3, <2>1, JobOutside DEF Asking, Applying
  <1>10. CASE ApplySuccess(j)
    <2> DEFINE state == IF j \in Pollers THEN Idle ELSE [Idle EXCEPT !.pc = "collecting"]
    <2>1. /\ state.req = Idle.req /\ state.changes = Idle.changes
          /\ state.pc = IF j \in Pollers THEN "idle" ELSE "collecting"
          /\ job[j].pc = "probed" /\ Become(j, state)
          /\ UNCHANGED <<clock, pi, lastSync, room, conf, late>>
      BY <1>10 DEF ApplySuccess, Idle
    <2> HIDE DEF state
    <2> QED
      BY <1>1, <1>2, <1>5, <2>1, JobOutside DEF Asking, Applying
  <1>11. CASE CollectAndSend(j)
    <2> DEFINE ls == SyncBaseline(Owner[j])
               sent == ChangedSince(room[Owner[j]], ls)
               state == [job[j] EXCEPT !.pc = "sent", !.req = [ls |-> ls, sent |-> sent]]
    <2>1. /\ state.req.sent = sent /\ state.req.ls = ls /\ state.changes = job[j].changes
          /\ state.pc = "sent" /\ job[j].pc = "collecting" /\ Become(j, state)
          /\ UNCHANGED <<clock, pi, lastSync, room, conf, late>>
      BY <1>0, <1>11 DEF CollectAndSend, JobState
    <2>2. LiveBag(sent[Bag])
      <3>1. sent[Bag] = room[Owner[j]][Bag] \/ sent[Bag] = NoRow
        BY <1>0 DEF ChangedSince
      <3>2. LiveBag(room[Owner[j]][Bag])
        BY JobsAssumption DEF QuietInv, BagRowLives
      <3> QED
        BY <1>0, <3>1, <3>2, NoLiveBag
    <2>3. state.req.sent = ChangedSince(room[Owner[j]], state.req.ls)
      BY <2>1
    <2>4. j \notin Pollers
      BY <1>4, <2>1
    <2> HIDE DEF state, sent, ls
    <2> QED
      BY <1>1, <1>2, <1>3, <2>1, <2>2, <2>3, <2>4, JobOutside DEF Asking, Applying
  <1>12. CASE FetchSyncStatus(j)
    <2>1. PICK at : Become(j, [job[j] EXCEPT !.pc = "fetched", !.seen = at])
      BY <1>12 DEF FetchSyncStatus
    <2> DEFINE state == [job[j] EXCEPT !.pc = "fetched", !.seen = at]
    <2>2. /\ state.pc = "fetched" /\ state.req = job[j].req /\ state.changes = job[j].changes
          /\ job[j].pc = "stored" /\ Become(j, state)
          /\ UNCHANGED <<clock, pi, lastSync, room, conf, late>>
      BY <1>0, <1>12, <2>1 DEF FetchSyncStatus, JobState
    <2> HIDE DEF state
    <2> QED
      BY <1>1, <1>3, <1>4, <2>2, JobOutside DEF Asking, Applying
  <1>13. CASE FinishSync(j) \/ CallFails(j)
    <2>1. /\ Become(j, Idle) /\ job[j].pc \in {"fetched", "probing", "sent"}
          /\ UNCHANGED <<clock, pi, lastSync, room, conf, late>>
      BY <1>13 DEF FinishSync, CallFails
    <2> QED
      BY <1>5, <2>1, JobOutside DEF Asking, Applying
  <1> QED
    BY <1>6, <1>7, <1>8, <1>9, <1>10, <1>11, <1>12, <1>13

-----------------------------------------------------------------------------
(* The steps of a job that change rows or conflicts. *)

\* While one sync is under way no other is, and with one phone nothing else
\* concerns that phone's rows.
LEMMA OneJobAtWork ==
    ASSUME Quiet, TypeOK, QuietInv, NEW j \in Jobs, job[j].pc \in {"sent"} \cup Applying
    PROVE  /\ j \in Syncers /\ Owner[j] \in Phones /\ \A p \in Phones : p = Owner[j]
           /\ \A k \in Syncers : k # j => job[k].pc = "idle"
           /\ conf[Owner[j]] = NoConflicts
  BY JobsAssumption DEF Quiet, QuietInv, OneSyncAtATime, NoConflictMeanwhile, Syncers, Applying, Asking

\* Pairing again stores the Pi's row of the bag on the phone.
LEMMA RePairQuiet ==
    ASSUME Quiet, TypeOK, QuietInv, NEW j \in Jobs, RePair(j)
    PROVE  QuietInv'
  <1> DEFINE p == Owner[j]
             state == [Idle EXCEPT !.pc = "paired"]
  <1>0. /\ p \in Phones /\ Bag \in Rows /\ Items \subseteq Rows /\ Bag \notin Items
        /\ clock \in Nat /\ Syncers \subseteq Jobs
    BY RowPlaces DEF Syncers
  <1>1. AllSettled /\ j \in Syncers /\ conf[p] = NoConflicts
    BY SyncBegins DEF RePair
  <1>2. /\ room' = [room EXCEPT ![p][Bag] = pi[Bag]] /\ Become(j, state)
        /\ UNCHANGED <<clock, pi, lastSync, conf, late>>
    BY DEF RePair
  <1>3. state.pc = "paired" /\ LiveBag(state.req.sent[Bag]) /\ LiveBag(state.changes[Bag])
    BY <1>0, NoLiveBag DEF Idle, NoRequest
  <1>4. job'[j] = state /\ \A k \in Jobs : k # j => job'[k] = job[k]
    BY <1>2 DEF Become, TypeOK
  <1> HIDE DEF state
  <1>5. room'[p][Bag] = pi[Bag]
    BY <1>0, <1>2 DEF TypeOK, Table
  <1>6. \A k \in Phones, r \in Rows : k # p \/ r # Bag => room'[k][r] = room[k][r]
    BY <1>2 DEF TypeOK, Table
  <1>7. \A k \in Syncers : job'[k].pc \in {"idle", "paired"}
    BY <1>0, <1>1, <1>3, <1>4 DEF AllSettled
  <1>8. OneSyncAtATime'
    BY <1>0, <1>1, <1>2, <1>4 DEF QuietInv, OneSyncAtATime, AllSettled, Syncers
  <1>9. BagRowLives'
    BY <1>0, <1>2, <1>3, <1>4, <1>5, <1>6 DEF QuietInv, BagRowLives, LiveBag
  <1>10. ConflictsCurrent'
    <2>1. \A k \in Phones, i \in Items : Current(k, i, conf[k][i])'
      BY <1>0, <1>2, <1>6 DEF QuietInv, ConflictsCurrent, Current
    <2> QED
      BY <1>7, <2>1 DEF ConflictsCurrent, Applying
  <1>11. NoConflictMeanwhile'
    BY <1>0, <1>1, <1>2, <1>4 DEF AllSettled, NoConflictMeanwhile, Asking, Applying
  <1>12. RequestCurrent'
    BY <1>7 DEF RequestCurrent
  <1>13. RowsAccounted'
    <2>1. ASSUME NEW k \in Phones, NEW r \in Rows PROVE Pending(k, r)'
      <3>1. CASE k = p /\ r = Bag
        BY <1>2, <1>5, <3>1 DEF Pending, SameBarPacked
      <3>2. CASE k # p \/ r # Bag
        <4>1. Pending(k, r)
          BY <1>1 DEF QuietInv, RowsAccounted, AllSettled, Applying
        <4> QED
          BY <1>2, <1>6, <3>2, <4>1 DEF Pending
      <3> QED
        BY <3>1, <3>2
    <2> QED
      BY <1>7, <2>1 DEF RowsAccounted, Applying
  <1> QED
    BY <1>8, <1>9, <1>10, <1>11, <1>12, <1>13 DEF QuietInv

\* What a request that says what the phone has does to one row: the Pi's copy
\* and the phone's agree once the reply is used, or the reply has a conflict.
LEMMA RequestVerdict ==
    ASSUME NEW q \in Request, NEW tbl \in Table, NEW own \in Table, NEW now \in Nat,
           NEW last \in Nat, q.ls <= last, NEW r \in Rows,
           q.sent = ChangedSince(own, q.ls), ~tbl[Bag].deleted, ~own[Bag].deleted,
           SameBarPacked(own[r], tbl[r]) \/ own[r].t > last \/ tbl[r].t > last
    PROVE  LET after == PiAfter(q, tbl, now)[r]
               reply == ServerChanges(q, tbl, now)[r]
           IN  \/ Exists(reply) /\ own[r].t <= q.ls /\ after = reply
               \/ (Exists(reply) => own[r].t > q.ls) /\ SameBarPacked(own[r], after)
               \/ ~Exists(reply) /\ r \in Items /\ Exists(ServerConflicts(q, tbl)[r])
  <1> DEFINE after == PiAfter(q, tbl, now)[r]
             reply == ServerChanges(q, tbl, now)[r]
             p == own[r]
             told == Told(p, q.ls)
             s == Compared(q, tbl, now)[r]
  <1>1. p \in Row /\ tbl[r] \in Row /\ q.ls \in Nat /\ Bag \in Rows
    BY DEF Table, Request, Rows
  <1>2. q.sent[r] = told
    BY DEF ChangedSince, Told
  <1>3. /\ after = IF Takes(r, s, told, q.ls) THEN told ELSE s
        /\ reply = IF Sends(r, s, told, q.ls) THEN s ELSE NoRow
        /\ ~Exists(NoRow)
    BY <1>2 DEF PiAfter, ServerChanges, Exists, NoRow
  <1>4. CASE r = Bag
    <2>1. s = Aligned(tbl[Bag], told, now)
      BY <1>1, <1>2, <1>4 DEF Compared, Table
    <2>2. \/ SendsBag(s, told, q.ls) /\ Exists(s) /\ p.t <= q.ls /\ after = s
          \/ (SendsBag(s, told, q.ls) => p.t > q.ls) /\ SameBarPacked(p, after)
      <3> HIDE DEF after, s, told
      <3>1. after = IF TakesBag(s, told, q.ls) THEN told ELSE s
        BY <1>3, <1>4 DEF Takes
      <3> QED
        BY <1>1, <1>4, <2>1, <3>1, BagVerdict DEF told
    <2>3. reply = IF SendsBag(s, told, q.ls) THEN s ELSE NoRow
      BY <1>3, <1>4 DEF Sends
    <2> HIDE DEF s, told
    <2> QED
      BY <1>3, <2>2, <2>3
  <1>5. CASE r \in Items
    <2>1. r # Bag
      BY <1>5, RowsAssumption
    <2>2. s = tbl[r]
      BY <2>1 DEF Compared, Table
    <2>3. ServerConflicts(q, tbl)[r] = IF ConflictingItem(s, told, q.ls) THEN s ELSE NoRow
      BY <1>2, <1>5, <2>2 DEF ServerConflicts
    <2>4. reply = IF SendsItem(s, told, q.ls) THEN s ELSE NoRow
      BY <1>3, <2>1 DEF Sends
    <2>5. \/ SendsItem(s, told, q.ls) /\ Exists(s) /\ p.t <= q.ls /\ after = s
          \/ (SendsItem(s, told, q.ls) => p.t > q.ls) /\ SameBarPacked(p, after)
          \/ ~SendsItem(s, told, q.ls) /\ ConflictingItem(s, told, q.ls)
      <3> HIDE DEF after, s, told
      <3>1. after = IF TakesItem(s, told, q.ls) THEN told ELSE s
        BY <1>3, <2>1 DEF Takes
      <3> QED
        BY <1>1, <2>2, <3>1, ItemVerdict DEF told
    <2>6. ConflictingItem(s, told, q.ls) => Exists(s)
      BY DEF ConflictingItem
    <2> HIDE DEF s, told
    <2> QED
      BY <1>3, <1>5, <2>3, <2>4, <2>5, <2>6
  <1> QED
    BY <1>4, <1>5 DEF Rows

\* A conflict in the reply is the Pi's row, which the request leaves alone.
LEMMA ConflictLeftAlone ==
    ASSUME NEW q \in Request, NEW tbl \in Table, NEW own \in Table, NEW now \in Nat,
           NEW i \in Items, q.sent = ChangedSince(own, q.ls),
           Exists(ServerConflicts(q, tbl)[i])
    PROVE  /\ PiAfter(q, tbl, now)[i] = ServerConflicts(q, tbl)[i]
           /\ Exists(own[i])
  <1> DEFINE told == Told(own[i], q.ls)
  <1>1. i \in Rows /\ i # Bag
    BY RowsAssumption DEF Rows
  <1>2. own[i] \in Row /\ tbl[i] \in Row /\ q.ls \in Nat
    BY <1>1 DEF Table, Request
  <1>3. q.sent[i] = told
    BY <1>1 DEF ChangedSince, Told
  <1>4. ConflictingItem(tbl[i], told, q.ls) /\ ServerConflicts(q, tbl)[i] = tbl[i]
    BY <1>3 DEF ServerConflicts, Exists, NoRow
  <1>5. ~TakesItem(tbl[i], told, q.ls) /\ Exists(own[i])
    BY <1>2, <1>4, ConflictVerdict
  <1>6. Compared(q, tbl, now)[i] = tbl[i]
    BY <1>1 DEF Compared, Table
  <1> HIDE DEF told
  <1> QED
    BY <1>1, <1>3, <1>4, <1>5, <1>6 DEF PiAfter, Takes

\* The bag's row stays alive through a request.
LEMMA BagLeftAlive ==
    ASSUME TypeOK, NEW q \in Request, NEW now \in Nat, clock <= now,
           LiveBag(pi[Bag]), LiveBag(q.sent[Bag])
    PROVE  /\ ~PiAfter(q, pi, now)[Bag].deleted /\ PiAfter(q, pi, now)[Bag].t <= now
           /\ ~ServerChanges(q, pi, now)[Bag].deleted
           /\ ServerChanges(q, pi, now)[Bag].t <= now
  <1> DEFINE a == Aligned(pi[Bag], q.sent[Bag], now)
  <1>1. Bag \in Rows /\ pi[Bag] \in Row /\ q.sent[Bag] \in Row /\ clock \in Nat
    BY RowPlaces DEF Request, Table
  <1>2. Compared(q, pi, now)[Bag] = a
    BY <1>1 DEF Compared, TypeOK, Table
  <1>3. ~a.deleted /\ a.t <= now
    BY <1>1 DEF Aligned, LiveBag, Row
  <1>4. ~q.sent[Bag].deleted /\ q.sent[Bag].t <= now /\ ~NoRow.deleted /\ NoRow.t <= now
    BY <1>1 DEF LiveBag, NoRow, Row
  <1>5. PiAfter(q, pi, now)[Bag] = a \/ PiAfter(q, pi, now)[Bag] = q.sent[Bag]
    BY <1>1, <1>2 DEF PiAfter
  <1>6. ServerChanges(q, pi, now)[Bag] = a \/ ServerChanges(q, pi, now)[Bag] = NoRow
    BY <1>1, <1>2 DEF ServerChanges
  <1> HIDE DEF a
  <1> QED
    BY <1>3, <1>4, <1>5, <1>6

\* The Pi runs the request.
LEMMA PiSyncQuiet ==
    ASSUME Quiet, TypeOK, TypeOK', BaselineBehindPi, QuietInv, NEW j \in Jobs, PiSync(j)
    PROVE  QuietInv'
  <1> DEFINE p == Owner[j]
             q == job[j].req
             own == room[p]
             state == [job[j] EXCEPT !.pc = "answered",
                          !.seen = lastSync', !.req.sent = NoRows,
                          !.changes = ServerChanges(q, pi, lastSync'),
                          !.conflicts = ServerConflicts(q, pi)]
  <1>0. /\ Bag \in Rows /\ Items \subseteq Rows /\ own \in Table /\ pi \in Table
        /\ clock \in Nat /\ lastSync \in Nat /\ Syncers \subseteq Jobs
        /\ job[j] \in JobState /\ q \in Request /\ q.ls \in Nat
    BY RowPlaces DEF TypeOK, JobState, Request, Syncers
  <1>1. /\ RunRequest(q) /\ Become(j, state) /\ UNCHANGED <<room, base, conf, late>>
        /\ job[j].pc = "sent"
    BY DEF PiSync
  <1>2. /\ j \in Syncers /\ p \in Phones /\ \A k \in Phones : k = p
        /\ \A k \in Syncers : k # j => job[k].pc = "idle"
        /\ conf[p] = NoConflicts
    BY <1>1, OneJobAtWork
  <1>3. /\ lastSync' = clock' /\ clock' \in Nat /\ clock <= clock' /\ q.ls <= lastSync
        /\ pi' = PiAfter(q, pi, clock')
    BY <1>0, <1>1, LastSyncGrows, SyncTimeType DEF RunRequest, BaselineBehindPi
  <1>4. /\ state.pc = "answered" /\ state.req.ls = q.ls /\ state.req.sent = NoRows
        /\ state.changes = ServerChanges(q, pi, clock')
        /\ state.conflicts = ServerConflicts(q, pi)
    BY <1>0, <1>3 DEF JobState, Request
  <1>5. q.sent = ChangedSince(own, q.ls)
    BY <1>1, <1>2 DEF QuietInv, RequestCurrent
  <1>6. job'[j] = state /\ \A k \in Jobs : k # j => job'[k] = job[k]
    BY <1>1 DEF Become, TypeOK
  <1> HIDE DEF state
  <1>7. OneSyncAtATime'
    BY <1>0, <1>1, <1>2, <1>4, <1>6 DEF QuietInv, OneSyncAtATime, Syncers
  <1>8. BagRowLives'
    <2>1. LiveBag(pi[Bag]) /\ LiveBag(q.sent[Bag])
      BY DEF QuietInv, BagRowLives
    <2>2. /\ ~pi'[Bag].deleted /\ pi'[Bag].t <= clock'
          /\ ~state.changes[Bag].deleted /\ state.changes[Bag].t <= clock'
      BY <1>0, <1>3, <1>4, <2>1, BagLeftAlive
    <2>3. \A row \in Row : LiveBag(row) => ~row.deleted /\ row.t <= clock'
      BY <1>0, <1>3 DEF LiveBag, Row
    <2>4. \A k \in Phones : ~room'[k][Bag].deleted /\ room'[k][Bag].t <= clock'
      BY <1>1, <2>3, RowPlaces DEF QuietInv, BagRowLives
    <2>5. ASSUME NEW k \in Jobs, k # j
          PROVE  /\ ~job'[k].req.sent[Bag].deleted /\ job'[k].req.sent[Bag].t <= clock'
                 /\ ~job'[k].changes[Bag].deleted /\ job'[k].changes[Bag].t <= clock'
      <3>1. /\ LiveBag(job[k].req.sent[Bag]) /\ LiveBag(job[k].changes[Bag])
            /\ job[k].req.sent[Bag] \in Row /\ job[k].changes[Bag] \in Row
        BY RowPlaces DEF QuietInv, BagRowLives
      <3> QED
        BY <1>6, <2>3, <2>5, <3>1
    <2>6. ~state.req.sent[Bag].deleted /\ state.req.sent[Bag].t <= clock'
      BY <1>0, <1>3, <1>4, NoLiveBag DEF NoRow
    <2> QED
      BY <1>6, <2>2, <2>4, <2>5, <2>6 DEF BagRowLives, LiveBag
  <1>9. ConflictsCurrent'
    <2>1. \A k \in Phones, i \in Items : ~Exists(conf'[k][i])
      BY <1>1, <1>2 DEF NoConflicts, Exists, NoRow
    <2>2. \A i \in Items : Exists(state.conflicts[i]) =>
              pi'[i] = state.conflicts[i] /\ Exists(own[i])
      BY <1>0, <1>3, <1>4, <1>5, ConflictLeftAlone
    <2>3. \A i \in Items : LET c == state.conflicts[i]
                           IN  Exists(c) => Exists(room'[p][i]) /\ pi'[i] = c
      BY <1>1, <2>2
    <2>4. \A k \in Syncers : job'[k].pc \in Applying => k = j
      BY <1>0, <1>2, <1>6 DEF Applying
    <2> QED
      BY <1>6, <2>1, <2>3, <2>4 DEF ConflictsCurrent, Current
  <1>10. NoConflictMeanwhile' /\ RequestCurrent'
    BY <1>0, <1>1, <1>2, <1>4, <1>6
       DEF NoConflictMeanwhile, RequestCurrent, Asking, Applying
  <1>11. RowsAccounted'
    <2>1. ASSUME NEW r \in Rows PROVE Settles(j, r)'
      <3>1. SameBarPacked(own[r], pi[r]) \/ own[r].t > lastSync \/ pi[r].t > lastSync
        <4>1. \A k \in Syncers : job[k].pc \notin Applying
          BY <1>1, <1>2 DEF Applying
        <4>2. Pending(p, r)
          BY <1>2, <4>1 DEF QuietInv, RowsAccounted
        <4> QED
          BY <1>2, <4>2 DEF Pending, NoConflicts, Exists, NoRow
      <3>2. ~pi[Bag].deleted /\ ~own[Bag].deleted
        BY <1>2 DEF QuietInv, BagRowLives, LiveBag
      <3> DEFINE reply == state.changes[r]
      <3>3. \/ Exists(reply) /\ own[r].t <= q.ls /\ pi'[r] = reply
            \/ (Exists(reply) => own[r].t > q.ls) /\ SameBarPacked(own[r], pi'[r])
            \/ ~Exists(reply) /\ r \in Items /\ Exists(state.conflicts[r])
        BY <1>0, <1>3, <1>4, <1>5, <3>1, <3>2, RequestVerdict
      <3>4. Incoming(j, r)' = IF own[r].t > q.ls THEN NoRow ELSE reply
        BY <1>1, <1>4, <1>6 DEF Incoming
      <3>5. ~Exists(NoRow) /\ own[r].t \in Nat
        BY <1>0 DEF Exists, NoRow, Table, Row
      <3> HIDE DEF reply
      <3>6. \/ Exists(Incoming(j, r))' /\ Incoming(j, r)' = pi'[r]
            \/ ~Exists(Incoming(j, r))' /\ SameBarPacked(own[r], pi'[r])
            \/ ~Exists(Incoming(j, r))' /\ r \in Items /\ Exists(state.conflicts[r])
        BY <1>0, <3>3, <3>4, <3>5 DEF Exists
      <3> QED
        BY <1>1, <1>6, <3>6 DEF Settles, SameBarPacked, Exists
    <2>2. \A k \in Syncers : job'[k].pc \in Applying => k = j
      BY <1>0, <1>2, <1>6 DEF Applying
    <2>3. ~ \A k \in Syncers : job'[k].pc \notin Applying
      BY <1>2, <1>4, <1>6 DEF Applying
    <2> QED
      BY <2>1, <2>2, <2>3 DEF RowsAccounted
  <1> QED
    BY <1>7, <1>8, <1>9, <1>10, <1>11 DEF QuietInv

\* A sync uses its reply: what must hold of the rows and conflicts afterwards.
LEMMA ApplyingStep ==
    ASSUME Quiet, TypeOK, QuietInv, NEW j \in Jobs, job[j].pc \in Applying,
           NEW STATE state, Become(j, state), state.pc \in Applying \cup {"stored"},
           UNCHANGED <<clock, pi, lastSync, late>>,
           LiveBag(state.req.sent[Bag]), LiveBag(state.changes[Bag]),
           LiveBag(room'[Owner[j]][Bag]),
           \A i \in Items : Exists(room[Owner[j]][i]) => Exists(room'[Owner[j]][i]),
           IF state.pc \in Applying
           THEN /\ conf'[Owner[j]] = NoConflicts /\ state.conflicts = job[j].conflicts
                /\ \A r \in Rows : Settles(j, r)'
           ELSE /\ conf'[Owner[j]] = job[j].conflicts
                /\ \A r \in Rows : Pending(Owner[j], r)'
    PROVE  QuietInv'
  <1>1. job'[j] = state /\ \A k \in Jobs : k # j => job'[k] = job[k]
    BY DEF Become, TypeOK
  <1>2. /\ j \in Syncers /\ \A p \in Phones : p = Owner[j]
        /\ \A k \in Syncers : k # j => job[k].pc = "idle"
    BY OneJobAtWork
  <1>3. \A k \in Syncers : k # j => job'[k].pc = "idle"
    BY <1>1, <1>2 DEF Syncers
  <1>4. OneSyncAtATime'
    BY <1>1, <1>2, <1>3 DEF QuietInv, OneSyncAtATime, Syncers
  <1>5. BagRowLives'
    BY <1>1, <1>2 DEF QuietInv, BagRowLives, LiveBag
  <1>6. ConflictsCurrent'
    <2>1. \A i \in Items : LET c == job[j].conflicts[i]
                           IN  Exists(c) => /\ Exists(room'[Owner[j]][i])
                                            /\ pi'[i] = c \/ pi'[i].t > lastSync'
      BY <1>2 DEF QuietInv, ConflictsCurrent, Current, Exists
    <2>2. \A p \in Phones, i \in Items : Current(p, i, conf[p][i])'
      BY <1>2, <2>1 DEF Current, Exists, NoConflicts, NoRow
    <2>3. \A k \in Syncers : job'[k].pc \in Applying => k = j
      BY <1>3 DEF Applying
    <2>4. state.pc \in Applying =>
              \A i \in Items : Current(Owner[j], i, job[j].conflicts[i])'
      BY <1>1, <2>1 DEF Current, Exists
    <2> QED
      BY <1>1, <2>2, <2>3, <2>4 DEF ConflictsCurrent, Current, Exists
  <1>7. NoConflictMeanwhile' /\ RequestCurrent'
    BY <1>1, <1>2, <1>3 DEF NoConflictMeanwhile, RequestCurrent, Asking, Applying
  <1>8. RowsAccounted'
    BY <1>1, <1>2, <1>3 DEF RowsAccounted, Applying
  <1> QED
    BY <1>4, <1>5, <1>6, <1>7, <1>8 DEF QuietInv

\* Using the reply: reading the local rows, storing the new ones, storing the
\* conflicts.
LEMMA ApplyQuiet ==
    ASSUME Quiet, TypeOK, TypeOK', QuietInv, NEW j \in Jobs,
           ReadLocalRows(j) \/ StoreRows(j) \/ StoreConflicts(j)
    PROVE  QuietInv'
  <1> DEFINE p == Owner[j]
             own == room[p]
             new == job[j].changes
  <1>0. /\ Bag \in Rows /\ Items \subseteq Rows /\ own \in Table /\ new \in Table
        /\ clock \in Nat /\ job[j] \in JobState /\ ~Exists(NoRow) /\ j \in Syncers
        /\ p \in Phones /\ conf[p] = NoConflicts /\ job[j].pc \in Applying
    BY RowPlaces, OneJobAtWork
       DEF TypeOK, Exists, NoRow, ReadLocalRows, StoreRows, StoreConflicts, Applying
  <1>1. /\ LiveBag(own[Bag]) /\ LiveBag(new[Bag]) /\ LiveBag(job[j].req.sent[Bag])
        /\ LiveBag(NoRow) /\ NoRows[Bag] = NoRow
    BY <1>0, NoLiveBag DEF QuietInv, BagRowLives
  <1>3. \A r \in Rows : Settles(j, r)
    BY <1>0 DEF QuietInv, RowsAccounted
  <1>4. CASE ReadLocalRows(j)
    <2> DEFINE kept == [r \in Rows |-> IF own[r].t <= job[j].req.ls THEN new[r] ELSE NoRow]
               state == [job[j] EXCEPT !.pc = "applying", !.req = NoRequest, !.changes = kept]
    <2>1. /\ job[j].pc = "answered" /\ Become(j, state)
          /\ UNCHANGED <<clock, pi, lastSync, room, base, conf, late>>
      BY <1>4 DEF ReadLocalRows
    <2>2. /\ state.pc = "applying" /\ state.req = NoRequest /\ state.changes = kept
          /\ state.conflicts = job[j].conflicts
      BY <1>0 DEF JobState
    <2>3. LiveBag(state.req.sent[Bag]) /\ LiveBag(state.changes[Bag])
      BY <1>0, <1>1, <2>2 DEF NoRequest
    <2>4. job'[j] = state
      BY <2>1 DEF Become, TypeOK
    <2> HIDE DEF state
    <2>5. \A r \in Rows : Incoming(j, r)' = Incoming(j, r)
      <3> SUFFICES ASSUME NEW r \in Rows PROVE Incoming(j, r)' = Incoming(j, r)
        OBVIOUS
      <3>1. own[r].t \in Nat /\ job[j].req.ls \in Nat
        BY <1>0, RowPlaces DEF Table, Row
      <3>2. Incoming(j, r)' = kept[r]
        BY <2>2, <2>4 DEF Incoming
      <3>3. Incoming(j, r) = IF own[r].t > job[j].req.ls THEN NoRow ELSE new[r]
        BY <2>1 DEF Incoming
      <3> QED
        BY <3>1, <3>2, <3>3
    <2> HIDE DEF kept
    <2>6. \A r \in Rows : Settles(j, r)'
      BY <1>3, <2>1, <2>2, <2>4, <2>5 DEF Settles, Exists
    <2> QED
      BY <1>0, <1>1, <2>1, <2>2, <2>3, <2>6, ApplyingStep DEF Applying
  <1>5. CASE StoreRows(j)
    <2> DEFINE tbl == [r \in Rows |-> IF Exists(new[r]) THEN new[r] ELSE own[r]]
               state == [job[j] EXCEPT !.pc = "merged", !.changes = NoRows]
    <2>1. /\ job[j].pc = "applying" /\ room' = [room EXCEPT ![p] = tbl] /\ Become(j, state)
          /\ UNCHANGED <<clock, pi, lastSync, base, conf, late>>
      BY <1>5 DEF StoreRows
    <2>2. /\ state.pc = "merged" /\ state.req = job[j].req /\ state.changes = NoRows
          /\ state.conflicts = job[j].conflicts
      BY <1>0 DEF JobState
    <2>3. job'[j] = state /\ room'[p] = tbl
      BY <1>0, <2>1 DEF Become, TypeOK
    <2> HIDE DEF state
    <2>4. LiveBag(room'[p][Bag])
      BY <1>0, <1>1, <2>3
    <2>5. \A r \in Rows : Settles(j, r)'
      <3> SUFFICES ASSUME NEW r \in Rows PROVE Settles(j, r)'
        OBVIOUS
      <3>1. Incoming(j, r) = new[r] /\ Incoming(j, r)' = NoRow
        BY <2>1, <2>2, <2>3 DEF Incoming
      <3>2. room'[p][r] = IF Exists(new[r]) THEN new[r] ELSE own[r]
        BY <2>3
      <3>3. Settles(j, r)
        BY <1>3
      <3> QED
        BY <1>0, <2>1, <2>2, <2>3, <3>1, <3>2, <3>3 DEF Settles, Exists
    <2>6. \A i \in Items : Exists(own[i]) => Exists(room'[p][i])
      BY <1>0, <2>3
    <2> QED
      BY <1>0, <1>1, <2>1, <2>2, <2>4, <2>5, <2>6, ApplyingStep DEF Applying
  <1>6. CASE StoreConflicts(j)
    <2> DEFINE state == [job[j] EXCEPT !.pc = "stored", !.conflicts = NoConflicts]
    <2>1. /\ job[j].pc = "merged" /\ conf' = [conf EXCEPT ![p] = job[j].conflicts]
          /\ Become(j, state) /\ UNCHANGED <<clock, pi, lastSync, room, base, late>>
      BY <1>6 DEF StoreConflicts
    <2>2. state.pc = "stored" /\ state.req = job[j].req /\ state.changes = new
      BY <1>0 DEF JobState
    <2>3. conf'[p] = job[j].conflicts
      BY <1>0, <2>1 DEF TypeOK
    <2> HIDE DEF state
    <2>4. \A r \in Rows : Pending(p, r)'
      <3> SUFFICES ASSUME NEW r \in Rows PROVE Pending(p, r)'
        OBVIOUS
      <3>1. Settles(j, r) /\ Incoming(j, r) = NoRow
        BY <1>3, <2>1 DEF Incoming
      <3> QED
        BY <1>0, <2>1, <2>3, <3>1 DEF Settles, Pending
    <2>5. state.pc \notin Applying
      BY <2>2 DEF Applying
    <2> QED
      BY <1>0, <1>1, <2>1, <2>2, <2>3, <2>4, <2>5, ApplyingStep
  <1> QED
    BY <1>4, <1>5, <1>6

-----------------------------------------------------------------------------
(* The theorems. *)

\* No other step happens in the quiet setting.
LEMMA NextQuiet ==
    ASSUME Quiet, TypeOK, TypeOK', BaselineBehindPi, QuietInv, Next
    PROVE  QuietInv'
  <1>1. late = {} /\ "late" \notin Faults /\ "loss" \notin Faults
    BY DEF Quiet, QuietInv, OneSyncAtATime
  <1>2. ASSUME NEW j \in Jobs, JobStep(j) PROVE QuietInv'
    BY <1>2, JobOutsideQuiet, PiSyncQuiet, ApplyQuiet DEF JobStep
  <1>3. ASSUME NEW j \in Jobs, StartPoll(j) \/ StartSync(j) \/ RePair(j) \/ Failure(j)
        PROVE  QuietInv'
    BY <1>1, <1>3, JobOutsideQuiet, RePairQuiet DEF Failure, CallTimesOut, Abandon
  <1> QED
    BY <1>1, <1>2, <1>3, PhoneEditQuiet, PiEditQuiet, ResolveQuiet DEF Next

\* It holds at first: nothing is synced, and only the Pi may have items.
LEMMA InitQuiet ==
    ASSUME Quiet, Init
    PROVE  QuietInv
  <1>1. PICK v \in Vals, known \in SUBSET Items :
            pi = [r \in Rows |-> IF r \in known \cup {Bag}
                                 THEN [NoRow EXCEPT !.t = 1, !.val = v]
                                 ELSE NoRow]
    BY DEF Init
  <1> DEFINE one == [NoRow EXCEPT !.t = 1, !.val = v]
  <1>0. one.t = 1 /\ ~one.deleted /\ NoRow.t = 0 /\ ~NoRow.deleted /\ Bag \in Rows
    BY DEF NoRow, Rows
  <1>2. /\ clock = 1 /\ lastSync = 0 /\ late = {}
        /\ \A j \in Jobs : job[j] = Idle
        /\ \A p \in Phones : /\ room[p] = [NoRows EXCEPT ![Bag] = pi[Bag]]
                             /\ conf[p] = NoConflicts
    BY DEF Init
  <1>3. pi[Bag] = one /\ \A r \in Rows : pi[r] \in {one, NoRow}
    BY <1>0, <1>1
  <1>4. \A p \in Phones : /\ room[p][Bag] = pi[Bag]
                          /\ \A r \in Rows : r # Bag => room[p][r] = NoRow
    BY <1>0, <1>2 DEF NoRows
  <1>5. \A j \in Jobs : /\ job[j].pc = "idle" /\ job[j].req.sent[Bag] = NoRow
                        /\ job[j].changes[Bag] = NoRow
    BY <1>0, <1>2 DEF Idle, NoRequest, NoRows
  <1> HIDE DEF one
  <1>6. Syncers \subseteq Jobs
    BY DEF Syncers
  <1>7. OneSyncAtATime
    BY <1>2, <1>5, <1>6 DEF OneSyncAtATime
  <1>8. BagRowLives
    BY <1>0, <1>2, <1>3, <1>4, <1>5 DEF BagRowLives, LiveBag
  <1>9. ConflictsCurrent
    BY <1>0, <1>2, <1>5, <1>6 DEF ConflictsCurrent, Current, NoConflicts, Exists, Applying
  <1>10. NoConflictMeanwhile /\ RequestCurrent
    BY <1>5, <1>6 DEF NoConflictMeanwhile, RequestCurrent, Asking, Applying
  <1>11. RowsAccounted
    <2>1. ASSUME NEW p \in Phones, NEW r \in Rows PROVE Pending(p, r)
      <3>1. CASE pi[r] = one
        BY <1>0, <1>2, <3>1 DEF Pending
      <3>2. CASE pi[r] # one
        <4>1. pi[r] = NoRow /\ room[p][r] = NoRow
          BY <1>3, <1>4, <3>2
        <4> QED
          BY <4>1 DEF Pending, SameBarPacked
      <3> QED
        BY <3>1, <3>2
    <2> QED
      BY <1>5, <1>6, <2>1 DEF RowsAccounted, Applying
  <1> QED
    BY <1>7, <1>8, <1>9, <1>10, <1>11 DEF QuietInv

\* QuietInv is inductive, given the types and the bound on the baselines.
LEMMA QuietInvariant ==
    ASSUME Quiet
    PROVE  Spec => []QuietInv
  <1>1. Init => QuietInv
    BY InitQuiet
  <1>2. /\ TypeOK /\ TypeOK' /\ BaselineBehindPi /\ QuietInv /\ [Next]_vars
        => QuietInv'
    <2> SUFFICES ASSUME TypeOK, TypeOK', BaselineBehindPi, QuietInv, [Next]_vars
                 PROVE  QuietInv'
      OBVIOUS
    <2>1. CASE Next
      BY <2>1, NextQuiet
    <2>2. CASE UNCHANGED vars
      <3>1. OneSyncAtATime' /\ BagRowLives'
        BY <2>2 DEF vars, QuietInv, OneSyncAtATime, BagRowLives, LiveBag
      <3>2. ConflictsCurrent' /\ NoConflictMeanwhile' /\ RequestCurrent'
        BY <2>2 DEF vars, QuietInv, ConflictsCurrent, Current, NoConflictMeanwhile, RequestCurrent
      <3>3. RowsAccounted'
        BY <2>2 DEF vars, QuietInv, RowsAccounted, Pending, Settles, Incoming
      <3> QED
        BY <3>1, <3>2, <3>3 DEF QuietInv
    <2> QED
      BY <2>1, <2>2
  <1> QED
    BY <1>1, <1>2, TypeCorrect, BaselinesBehind, PTL DEF Spec

\* At rest, every row of a phone is accounted for.
LEMMA AtRest ==
    ASSUME Quiet, TypeOK, QuietInv, NEW p \in Phones, Settled(p), NEW r \in Rows
    PROVE  Pending(p, r)
  <1>1. \A j \in Syncers : job[j].pc = "idle"
    BY JobsAssumption DEF Quiet, Settled, Syncers
  <1> QED
    BY <1>1 DEF QuietInv, RowsAccounted, Applying

\* One phone that syncs without haste loses no edit: whatever the two sides edit,
\* whichever calls fail and whenever it pairs again, a row on which phone and Pi
\* differ will be exchanged by a later sync or is on the screen as a conflict.
THEOREM QuietPhoneStrandsNothing ==
    ASSUME Quiet
    PROVE  Spec => []NoEditStranded
  <1>1. TypeOK /\ BaselineBehindPi /\ QuietInv => NoEditStranded
    <2> SUFFICES ASSUME TypeOK, BaselineBehindPi, QuietInv,
                        NEW p \in Phones, Settled(p), NEW r \in Rows
                 PROVE  SameBarPacked(room[p][r], pi[r]) \/ StillExchanged(p, r)
      BY DEF NoEditStranded
    <2>1. Pending(p, r)
      BY AtRest
    <2>2. /\ base[p] \in Nat /\ lastSync \in Nat /\ base[p] <= lastSync
          /\ room[p][r].t \in Nat /\ pi[r].t \in Nat
      BY RowPlaces DEF TypeOK, BaselineBehindPi, Row
    <2> QED
      BY <2>1, <2>2 DEF Pending, StillExchanged
  <1> QED
    BY <1>1, TypeCorrect, BaselinesBehind, QuietInvariant, PTL

\* Nor does it show anything stale after a sync: with no conflict left and no
\* edit since the Pi's last sync, the phone has what the Pi has.
THEOREM QuietPhoneIsUpToDate ==
    ASSUME Quiet
    PROVE  Spec => []UpToDateAfterSync
  <1>1. TypeOK /\ QuietInv /\ StampInv => UpToDateAfterSync
    <2> SUFFICES ASSUME TypeOK, QuietInv, StampInv, NEW p \in Phones, Settled(p),
                        conf[p] = NoConflicts, clock = lastSync, NEW r \in Rows
                 PROVE  SameBarPacked(room[p][r], pi[r])
      BY DEF UpToDateAfterSync
    <2>1. Pending(p, r)
      BY AtRest
    <2>2. r \in Items => ~Exists(conf[p][r])
      BY DEF NoConflicts, Exists, NoRow
    <2>3. room[p][r].t <= clock /\ pi[r].t <= clock
      <3>1. CASE r = Bag
        BY <3>1 DEF QuietInv, BagRowLives, LiveBag
      <3>2. CASE r \in Items
        BY <3>2, PlacesOfVersions DEF StampInv, VersionsOK
      <3> QED
        BY <3>1, <3>2 DEF Rows
    <2>4. room[p][r].t \in Nat /\ pi[r].t \in Nat /\ clock \in Nat
      BY RowPlaces DEF Row
    <2> QED
      BY <2>1, <2>2, <2>3, <2>4 DEF Pending
  <1> QED
    BY <1>1, TypeCorrect, QuietInvariant, StampInvariant, PTL

=============================================================================
