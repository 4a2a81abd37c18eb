--------------------------- MODULE BagSyncProofs ---------------------------
(***************************************************************************)
(* Theorems about BagSync, for every set of phones, jobs, items and        *)
(* values, every choice of faults and all bounds.                          *)
(***************************************************************************)
EXTENDS BagSync, TLAPS

-----------------------------------------------------------------------------
(* The operators of SyncRows stay within the types of the rows. *)

\* No row is a row, and so are the empty tables made of it.
LEMMA NoRowType ==
    NoRow \in Row /\ NoRows \in Table /\ NoRequest \in Request /\ NoConflicts \in [Items -> Row]
  BY DEF NoRow, Row, NoRows, Table, NoRequest, Request, NoConflicts, Rows

\* Realigning the bag's row with the phone's leaves a row.
LEMMA AlignedType ==
    ASSUME NEW s \in Row, NEW p \in Row, NEW now \in Nat
    PROVE  Aligned(s, p, now) \in Row
  BY DEF Aligned, Row

\* A table with the bag's row realigned is a table.
LEMMA ComparedType ==
    ASSUME NEW q \in Request, NEW tbl \in Table, NEW now \in Nat
    PROVE  Compared(q, tbl, now) \in Table
  <1>1. Bag \in Rows
    BY DEF Rows
  <1>2. tbl[Bag] \in Row /\ q.sent[Bag] \in Row
    BY <1>1 DEF Table, Request
  <1>3. Aligned(tbl[Bag], q.sent[Bag], now) \in Row
    BY <1>2, AlignedType
  <1> QED
    BY <1>3 DEF Compared, Table

\* A request leaves the Pi with a table, and is answered with tables.
LEMMA RequestTypes ==
    ASSUME NEW q \in Request, NEW tbl \in Table, NEW now \in Nat
    PROVE  /\ PiAfter(q, tbl, now) \in Table
           /\ ServerChanges(q, tbl, now) \in Table
           /\ ServerConflicts(q, tbl) \in [Items -> Row]
  <1>1. Compared(q, tbl, now) \in Table
    BY ComparedType
  <1>2. q.sent \in Table /\ Items \subseteq Rows
    BY DEF Request, Rows
  <1>3. PiAfter(q, tbl, now) \in Table
    BY <1>1, <1>2 DEF PiAfter, Table
  <1>4. ServerChanges(q, tbl, now) \in Table
    BY <1>1, NoRowType DEF ServerChanges, Table
  <1>5. ServerConflicts(q, tbl) \in [Items -> Row]
    BY <1>2, NoRowType DEF ServerConflicts, Table
  <1> QED
    BY <1>3, <1>4, <1>5

\* The rows collected for a request form a table.
LEMMA ChangedSinceType ==
    ASSUME NEW tbl \in Table, NEW ls \in Nat
    PROVE  ChangedSince(tbl, ls) \in Table
  BY NoRowType DEF ChangedSince, Table

\* The time of a sync never precedes the last edit.
LEMMA SyncTimeType ==
    ASSUME clock \in Nat, NEW q
    PROVE  SyncTime(q) \in Nat /\ SyncTime(q) >= clock
  BY DEF SyncTime

-----------------------------------------------------------------------------
(* Type correctness. *)

\* An idle job is a job.
LEMMA IdleType == Idle \in JobState
  BY NoRowType DEF Idle, JobState, Phases

\* Giving a job a new state of the right type, or storing a row of the right
\* type, keeps the types.
LEMMA BecomeType ==
    ASSUME job \in [Jobs -> JobState], NEW j \in Jobs, NEW state \in JobState, Become(j, state)
    PROVE  job' \in [Jobs -> JobState]
  BY DEF Become

LEMMA StoreOnPhoneType ==
    ASSUME TypeOK, clock' \in Nat, NEW p \in Phones, NEW r \in Rows, NEW row \in Row,
           StoreOnPhone(p, r, row)
    PROVE  room' \in [Phones -> Table]
  <1>1. [row EXCEPT !.t = clock'] \in Row
    BY DEF Row
  <1> QED
    BY <1>1 DEF StoreOnPhone, TypeOK, Table

LEMMA StoreOnPiType ==
    ASSUME TypeOK, clock' \in Nat, NEW r \in Rows, NEW row \in Row, StoreOnPi(r, row)
    PROVE  pi' \in Table
  <1>1. [row EXCEPT !.t = clock'] \in Row
    BY DEF Row
  <1> QED
    BY <1>1 DEF StoreOnPi, TypeOK, Table

\* A request that runs keeps the types of what it writes.
LEMMA RunRequestType ==
    ASSUME TypeOK, NEW q \in Request, RunRequest(q)
    PROVE  /\ clock' \in Nat /\ lastSync' \in Nat /\ pi' \in Table
           /\ lastSync' = SyncTime(q)
  <1>1. SyncTime(q) \in Nat
    BY SyncTimeType DEF TypeOK
  <1> QED
    BY <1>1, RequestTypes DEF RunRequest, TypeOK

\* What the phones' users do keeps the types.
LEMMA PhoneEditType ==
    ASSUME TypeOK, NEW p \in Phones, PhoneEdit(p)
    PROVE  TypeOK'
  <1>0. Tick
    BY DEF PhoneEdit, PhoneBagEdit, PhoneSave, PhoneToggle, PhoneDelete
  <1>1. clock' \in Nat
    BY <1>0 DEF Tick, TypeOK
  <1>2. Bag \in Rows /\ Items \subseteq Rows
    BY DEF Rows
  <1>3. \A r \in Rows : room[p][r] \in Row
    BY DEF TypeOK, Table
  <1>4. CASE PhoneBagEdit(p)
    <2>1. PICK v \in Vals : StoreOnPhone(p, Bag, [room[p][Bag] EXCEPT !.val = v])
      BY <1>4 DEF PhoneBagEdit
    <2>2. [room[p][Bag] EXCEPT !.val = v] \in Row
      BY <1>2, <1>3 DEF Row
    <2>3. room' \in [Phones -> Table]
      BY <1>1, <1>2, <2>1, <2>2, StoreOnPhoneType
    <2> QED
      BY <1>1, <1>4, <2>1, <2>3 DEF PhoneBagEdit, StoreOnPhone, TypeOK
  <1>5. ASSUME NEW i \in Items, PhoneSave(p, i) PROVE TypeOK'
    <2>1. PICK v \in Vals, k \in {FALSE, Visible(p, i)} :
                  StoreOnPhone(p, i, [room[p][i] EXCEPT !.val = v, !.packed = @ \/ k])
      BY <1>5 DEF PhoneSave
    <2>2. [room[p][i] EXCEPT !.val = v, !.packed = @ \/ k] \in Row
      BY <1>2, <1>3 DEF Row
    <2>3. room' \in [Phones -> Table]
      BY <1>1, <1>2, <2>1, <2>2, StoreOnPhoneType
    <2> QED
      BY <1>1, <1>5, <2>1, <2>3 DEF PhoneSave, StoreOnPhone, TypeOK
  <1>6. ASSUME NEW i \in Items, PhoneToggle(p, i) PROVE TypeOK'
    <2>1. [room[p][i] EXCEPT !.packed = ~@] \in Row
      BY <1>2, <1>3 DEF Row
    <2>2. room' \in [Phones -> Table]
      BY <1>1, <1>2, <1>6, <2>1, StoreOnPhoneType DEF PhoneToggle
    <2> QED
      BY <1>1, <1>6, <2>2 DEF PhoneToggle, StoreOnPhone, TypeOK
  <1>7. ASSUME NEW i \in Items, PhoneDelete(p, i) PROVE TypeOK'
    <2>1. [room[p][i] EXCEPT !.deleted = TRUE] \in Row
      BY <1>2, <1>3 DEF Row
    <2>2. room' \in [Phones -> Table]
      BY <1>1, <1>2, <1>7, <2>1, StoreOnPhoneType DEF PhoneDelete
    <2> QED
      BY <1>1, <1>7, <2>2 DEF PhoneDelete, StoreOnPhone, TypeOK
  <1> QED
    BY <1>4, <1>5, <1>6, <1>7 DEF PhoneEdit

\* So does what happens on the Pi's own pages.
LEMMA PiEditType ==
    ASSUME TypeOK, PiEdit
    PROVE  TypeOK'
  <1>0. Tick
    BY DEF PiEdit, PiBagEdit, PiWrite, PiDelete
  <1>1. clock' \in Nat
    BY <1>0 DEF Tick, TypeOK
  <1>2. Bag \in Rows /\ Items \subseteq Rows /\ \A r \in Rows : pi[r] \in Row
    BY DEF Rows, TypeOK, Table
  <1>3. \A v \in Vals, k \in BOOLEAN, r \in Rows :
            /\ [pi[r] EXCEPT !.val = v] \in Row
            /\ [pi[r] EXCEPT !.deleted = TRUE] \in Row
            /\ [pi[r] EXCEPT !.val = v, !.packed = k, !.deleted = FALSE] \in Row
    BY <1>2 DEF Row
  <1>4. CASE PiBagEdit
    BY <1>1, <1>2, <1>3, <1>4, StoreOnPiType DEF PiBagEdit, StoreOnPi, TypeOK
  <1>5. ASSUME NEW i \in Items, PiWrite(i) PROVE TypeOK'
    BY <1>1, <1>2, <1>3, <1>5, StoreOnPiType DEF PiWrite, StoreOnPi, TypeOK
  <1>6. ASSUME NEW i \in Items, PiDelete(i) PROVE TypeOK'
    <2>1. [pi[i] EXCEPT !.deleted = TRUE] \in Row
      BY <1>2 DEF Row
    <2> QED
      BY <1>1, <1>2, <1>6, <2>1, StoreOnPiType DEF PiDelete, StoreOnPi, TypeOK
  <1> QED
    BY <1>4, <1>5, <1>6 DEF PiEdit

\* So does every choice in a conflict.
LEMMA ResolveType ==
    ASSUME TypeOK, NEW p \in Phones, NEW i \in Items, Resolve(p, i)
    PROVE  TypeOK'
  <1>0. (Tick \/ UNCHANGED clock) /\ Forget(p, i)
    BY DEF Resolve, KeepPhone, KeepPi, KeepDeleted, Restore
  <1>1. clock' \in Nat
    BY <1>0 DEF Tick, TypeOK
  <1>2. /\ i \in Rows /\ room[p][i] \in Row /\ conf[p][i] \in Row
    BY DEF Rows, TypeOK, Table
  <1>2a. /\ [conf[p][i] EXCEPT !.deleted = TRUE] \in Row
         /\ [conf[p][i] EXCEPT !.deleted = FALSE] \in Row
    BY <1>2 DEF Row
  <1>3. conf' \in [Phones -> [Items -> Row]]
    BY <1>0, NoRowType DEF Forget, TypeOK
  <1>4. CASE KeepPhone(p, i)
    BY <1>1, <1>2, <1>3, <1>4, StoreOnPhoneType DEF KeepPhone, StoreOnPhone, TypeOK
  <1>5. CASE KeepPi(p, i)
    BY <1>1, <1>2, <1>3, <1>5 DEF KeepPi, TypeOK, Table
  <1>6. CASE KeepDeleted(p, i)
    BY <1>1, <1>2, <1>2a, <1>3, <1>6, StoreOnPhoneType DEF KeepDeleted, StoreOnPhone, TypeOK
  <1>7. CASE Restore(p, i)
    BY <1>1, <1>2, <1>2a, <1>3, <1>7, StoreOnPhoneType DEF Restore, StoreOnPhone, TypeOK
  <1> QED
    BY <1>4, <1>5, <1>6, <1>7 DEF Resolve

\* Beginning a refresh keeps the types.
LEMMA BeginRefreshType ==
    ASSUME TypeOK, NEW j \in Jobs, NEW from, BeginRefresh(j, from)
    PROVE  TypeOK'
  <1>1. \A b \in BOOLEAN : [Idle EXCEPT !.pc = "probing", !.synced = b] \in JobState
    BY IdleType DEF JobState, Phases
  <1>2. (base[Owner[j]] > 0) \in BOOLEAN
    OBVIOUS
  <1>3. [Idle EXCEPT !.pc = "probing", !.synced = base[Owner[j]] > 0] \in JobState
    BY <1>1, <1>2, Zenon
  <1> QED
    BY <1>3, BecomeType DEF BeginRefresh, TypeOK

\* So does every step of a job.
LEMMA JobStepType ==
    ASSUME TypeOK, NEW j \in Jobs, JobStep(j)
    PROVE  TypeOK'
  <1> DEFINE p == Owner[j]
  <1>1. /\ p \in Phones /\ job[j] \in JobState /\ job[j].req \in Request
        /\ room[p] \in Table /\ base[p] \in Nat
    BY JobsAssumption DEF TypeOK, JobState
  <1>2. CASE AnswerStatus(j)
    <2>1. [job[j] EXCEPT !.pc = "probed", !.seen = lastSync] \in JobState
      BY <1>1 DEF TypeOK, JobState, Phases
    <2> QED
      BY <1>2, <2>1, BecomeType DEF AnswerStatus, TypeOK
  <1>3. CASE ApplySuccess(j)
    <2>1. [Idle EXCEPT !.pc = "collecting"] \in JobState
      BY IdleType DEF JobState, Phases
    <2>2. job[j].seen \in Nat
      BY <1>1 DEF JobState
    <2>3. base' \in [Phones -> Nat]
      BY <1>3, <2>2 DEF ApplySuccess, TypeOK
    <2>4. job' \in [Jobs -> JobState]
      BY <1>3, <2>1, IdleType DEF ApplySuccess, Become, TypeOK
    <2> QED
      BY <1>3, <2>3, <2>4 DEF ApplySuccess, TypeOK
  <1>4. CASE CollectAndSend(j)
    <2> DEFINE ls == SyncBaseline(p)
               q == [ls |-> ls, sent |-> ChangedSince(room[p], ls)]
    <2>1. ls \in Nat
      BY <1>1 DEF SyncBaseline
    <2>2. q \in Request
      BY <1>1, <2>1, ChangedSinceType DEF Request
    <2>3. [job[j] EXCEPT !.pc = "sent", !.req = q] \in JobState
      BY <1>1, <2>2 DEF JobState, Phases
    <2> QED
      BY <1>4, <2>3, BecomeType DEF CollectAndSend, TypeOK
  <1>5. CASE PiSync(j)
    <2> DEFINE q == job[j].req
    <2>1. clock' \in Nat /\ lastSync' \in Nat /\ pi' \in Table
      BY <1>1, <1>5, RunRequestType DEF PiSync
    <2>2. /\ ServerChanges(q, pi, lastSync') \in Table
          /\ ServerConflicts(q, pi) \in [Items -> Row]
      BY <1>1, <2>1, RequestTypes DEF TypeOK
    <2>3. [job[j].req EXCEPT !.sent = NoRows] \in Request
      BY <1>1, NoRowType DEF Request
    <2>4. [job[j] EXCEPT !.pc = "answered",
                         !.seen = lastSync', !.req.sent = NoRows,
                         !.changes = ServerChanges(q, pi, lastSync'),
                         !.conflicts = ServerConflicts(q, pi)] \in JobState
      BY <1>1, <2>1, <2>2, <2>3 DEF JobState, Phases
    <2> QED
      BY <1>5, <2>1, <2>4, BecomeType DEF PiSync, TypeOK
  <1>6. CASE ReadLocalRows(j)
    <2> DEFINE new == [r \in Rows |-> IF room[p][r].t <= job[j].req.ls
                                       THEN job[j].changes[r] ELSE NoRow]
    <2>1. new \in Table
      BY <1>1, NoRowType DEF JobState, Table
    <2>2. [job[j] EXCEPT !.pc = "applying", !.req = NoRequest, !.changes = new] \in JobState
      BY <1>1, <2>1, NoRowType DEF JobState, Phases
    <2>3. job' = [job EXCEPT ![j] = [job[j] EXCEPT !.pc = "applying", !.req = NoRequest,
                                                    !.changes = new]]
      BY <1>6 DEF ReadLocalRows, Become
    <2> QED
      BY <1>6, <2>2, <2>3 DEF ReadLocalRows, TypeOK
  <1>7. CASE StoreRows(j)
    <2> DEFINE new == job[j].changes
               tbl == [r \in Rows |-> IF Exists(new[r]) THEN new[r] ELSE room[p][r]]
    <2>1. tbl \in Table
      BY <1>1 DEF JobState, Table
    <2>2. room' = [room EXCEPT ![p] = tbl]
      BY <1>7 DEF StoreRows
    <2>3. [job[j] EXCEPT !.pc = "merged", !.changes = NoRows] \in JobState
      BY <1>1, NoRowType DEF JobState, Phases
    <2> QED
      BY <1>1, <1>7, <2>1, <2>2, <2>3, BecomeType DEF StoreRows, TypeOK
  <1>8. CASE StoreConflicts(j)
    <2>1. [job[j] EXCEPT !.pc = "stored", !.conflicts = NoConflicts] \in JobState
      BY <1>1, NoRowType DEF JobState, Phases
    <2>2. job[j].conflicts \in [Items -> Row]
      BY <1>1 DEF JobState
    <2> QED
      BY <1>1, <1>8, <2>1, <2>2, BecomeType DEF StoreConflicts, TypeOK
  <1>9. CASE FetchSyncStatus(j)
    <2>1. PICK at \in {lastSync, job[j].seen} :
              Become(j, [job[j] EXCEPT !.pc = "fetched", !.seen = at])
      BY <1>9 DEF FetchSyncStatus
    <2>2. [job[j] EXCEPT !.pc = "fetched", !.seen = at] \in JobState
      BY <1>1, <2>1 DEF TypeOK, JobState, Phases
    <2> QED
      BY <1>9, <2>1, <2>2, BecomeType DEF FetchSyncStatus, TypeOK
  <1>10. CASE FinishSync(j)
    <2>1. job[j].seen \in Nat
      BY <1>1 DEF JobState
    <2> QED
      BY <1>10, <2>1, IdleType, BecomeType DEF FinishSync, TypeOK
  <1>11. CASE FirstSync(j)
    BY <1>11, BeginRefreshType DEF FirstSync
  <1> QED
    BY <1>2, <1>3, <1>4, <1>5, <1>6, <1>7, <1>8, <1>9, <1>10, <1>11 DEF JobStep

\* So do starting a job, pairing again, losing a job, and running a request late.
LEMMA OtherStepType ==
    ASSUME TypeOK,
           \/ \E j \in Jobs : StartPoll(j) \/ StartSync(j) \/ RePair(j) \/ Failure(j)
           \/ \E q \in late : PiLateSync(q)
    PROVE  TypeOK'
  <1>1. ASSUME NEW j \in Jobs, StartPoll(j) \/ StartSync(j) PROVE TypeOK'
    BY <1>1, BeginRefreshType DEF StartPoll, StartSync
  <1>4. ASSUME NEW j \in Jobs, RePair(j) PROVE TypeOK'
    <2> DEFINE p == Owner[j]
    <2>1. p \in Phones /\ Bag \in Rows /\ pi[Bag] \in Row /\ room[p] \in Table
      BY JobsAssumption DEF Rows, TypeOK, Table
    <2>2. [room[p] EXCEPT ![Bag] = pi[Bag]] \in Table
      BY <2>1 DEF Table
    <2>3. room' = [room EXCEPT ![p] = [room[p] EXCEPT ![Bag] = pi[Bag]]]
      BY <1>4, <2>1 DEF RePair, TypeOK
    <2>4. [Idle EXCEPT !.pc = "paired"] \in JobState
      BY IdleType DEF JobState, Phases
    <2>5. base' \in [Phones -> Nat]
      BY <1>4 DEF RePair, TypeOK
    <2> QED
      BY <1>4, <2>2, <2>3, <2>4, <2>5, BecomeType DEF RePair, TypeOK
  <1>2. ASSUME NEW j \in Jobs, Failure(j) PROVE TypeOK'
    <2>1. job' \in [Jobs -> JobState]
      BY <1>2, IdleType, BecomeType DEF Failure, CallFails, CallTimesOut, Abandon, TypeOK
    <2>2. late' \subseteq Request
      BY <1>2 DEF Failure, CallFails, CallTimesOut, Abandon, TypeOK, JobState
    <2> QED
      BY <1>2, <2>1, <2>2 DEF Failure, CallFails, CallTimesOut, Abandon, TypeOK
  <1>3. ASSUME NEW q \in late, PiLateSync(q) PROVE TypeOK'
    <2>1. q \in Request
      BY DEF TypeOK
    <2> QED
      BY <1>3, <2>1, RunRequestType DEF PiLateSync, TypeOK
  <1> QED
    BY <1>1, <1>2, <1>3, <1>4

\* Types are an invariant of BagSync: TypeOK is inductive as it stands.
THEOREM TypeCorrect == Spec => []TypeOK
  <1>1. Init => TypeOK
    <2> SUFFICES ASSUME Init PROVE TypeOK
      OBVIOUS
    <2>1. PICK v \in Vals, known \in SUBSET Items :
              pi = [r \in Rows |-> IF r \in known \cup {Bag}
                                   THEN [NoRow EXCEPT !.t = 1, !.val = v]
                                   ELSE NoRow]
      BY DEF Init
    <2>2. [NoRow EXCEPT !.t = 1, !.val = v] \in Row
      BY DEF NoRow, Row
    <2>3. pi \in Table
      BY <2>1, <2>2, NoRowType DEF Table
    <2>4. Bag \in Rows
      BY DEF Rows
    <2>5. [NoRows EXCEPT ![Bag] = pi[Bag]] \in Table
      BY <2>3, <2>4, NoRowType DEF Table
    <2>6. room \in [Phones -> Table]
      BY <2>5 DEF Init
    <2> QED
      BY <2>3, <2>6, IdleType, NoRowType DEF Init, TypeOK
  <1>2. TypeOK /\ [Next]_vars => TypeOK'
    <2> SUFFICES ASSUME TypeOK, [Next]_vars PROVE TypeOK'
      OBVIOUS
    <2>1. CASE Next
      BY <2>1, PhoneEditType, PiEditType, ResolveType, JobStepType, OtherStepType DEF Next
    <2>2. CASE UNCHANGED vars
      BY <2>2 DEF vars, TypeOK
    <2> QED
      BY <2>1, <2>2
  <1> QED
    BY <1>1, <1>2, PTL DEF Spec

-----------------------------------------------------------------------------
(* Items only advance. *)

\* A request leaves an item of the Pi alone or replaces it by a later version.
LEMMA RequestAdvances ==
    ASSUME NEW q \in Request, NEW tbl \in Table, NEW now \in Nat, NEW i \in Items
    PROVE  \/ PiAfter(q, tbl, now)[i] = tbl[i]
           \/ /\ PiAfter(q, tbl, now)[i] = q.sent[i]
              /\ q.sent[i].t > tbl[i].t
  <1>1. i \in Rows /\ i # Bag
    BY RowsAssumption DEF Rows
  <1>2. tbl[i] \in Row /\ q.sent[i] \in Row /\ q.ls \in Nat
    BY <1>1 DEF Table, Request
  <1>3. Compared(q, tbl, now)[i] = tbl[i]
    BY <1>1 DEF Compared, Table
  <1>4. CASE ~TakesItem(tbl[i], q.sent[i], q.ls)
    BY <1>1, <1>3, <1>4 DEF PiAfter, Takes
  <1>5. CASE TakesItem(tbl[i], q.sent[i], q.ls)
    <2>1. q.sent[i].t > tbl[i].t
      BY <1>2, <1>5 DEF TakesItem, Exists, Row, BothChanged
    <2>2. PiAfter(q, tbl, now)[i] = q.sent[i]
      BY <1>1, <1>3, <1>5 DEF PiAfter, Takes
    <2> QED
      BY <2>1, <2>2
  <1> QED
    BY <1>4, <1>5

\* Whatever requests reach the Pi, however late and however often, none of them
\* rolls back an item: the property LateSync checks, with no bound on the number
\* of requests on their way.
THEOREM ItemsAdvance == Spec => ItemsOnlyAdvance
  <1> DEFINE Advances == \A i \in Items : \/ pi'[i] = pi[i]
                                          \/ pi'[i].t > pi[i].t
                                          \/ PiEdit
  <1>1. TypeOK /\ [Next]_vars => [Advances]_vars
    <2> SUFFICES ASSUME TypeOK, Next PROVE Advances
      OBVIOUS
    <2>1. ASSUME NEW q \in Request, RunRequest(q) PROVE Advances
      <3>1. pi' = PiAfter(q, pi, clock') /\ clock' \in Nat /\ pi \in Table
        BY <2>1, RunRequestType DEF RunRequest, TypeOK
      <3> QED
        BY <3>1, RequestAdvances
    <2>2. CASE PiEdit
      BY <2>2
    <2>3. ASSUME NEW p \in Phones, PhoneEdit(p) PROVE pi' = pi
      BY <2>3 DEF PhoneEdit, PhoneBagEdit, PhoneSave, PhoneToggle, PhoneDelete, StoreOnPhone
    <2>4. ASSUME NEW p \in Phones, NEW i \in Items, Resolve(p, i) PROVE pi' = pi
      BY <2>4 DEF Resolve, KeepPhone, KeepPi, KeepDeleted, Restore, StoreOnPhone
    <2>5. ASSUME NEW j \in Jobs, PiSync(j) PROVE Advances
      BY <2>1, <2>5 DEF PiSync, TypeOK, JobState
    <2>6. ASSUME NEW q \in late, PiLateSync(q) PROVE Advances
      BY <2>1, <2>6 DEF PiLateSync, TypeOK
    <2>7. ASSUME NEW j \in Jobs, JobStep(j), ~PiSync(j) PROVE pi' = pi
      BY <2>7 DEF JobStep, FirstSync, BeginRefresh, AnswerStatus, ApplySuccess, CollectAndSend, ReadLocalRows,
                  StoreRows, StoreConflicts, FetchSyncStatus, FinishSync
    <2>8. ASSUME NEW j \in Jobs, StartPoll(j) \/ StartSync(j) \/ RePair(j) \/ Failure(j)
          PROVE  pi' = pi
      BY <2>8 DEF StartPoll, StartSync, BeginRefresh, RePair, Failure, CallFails, CallTimesOut, Abandon
    <2> QED
      BY <2>2, <2>3, <2>4, <2>5, <2>6, <2>7, <2>8 DEF Next
  <1> QED
    BY <1>1, TypeCorrect, PTL DEF Spec, ItemsOnlyAdvance

-----------------------------------------------------------------------------
(* No baseline runs ahead of the Pi. *)

\* Running a request does not move the Pi's last sync back.
LEMMA LastSyncGrows ==
    ASSUME TypeOK, BaselineBehindPi, NEW q \in Request, RunRequest(q)
    PROVE  lastSync' \in Nat /\ lastSync' = clock' /\ lastSync <= lastSync' /\ clock' \in Nat
  BY SyncTimeType, RunRequestType DEF RunRequest, TypeOK, BaselineBehindPi

\* A phone never tells the Pi to skip rows that no sync has compared: neither its
\* baseline nor any time it has read from the Pi and not yet stored exceeds the
\* Pi's last sync.
THEOREM BaselinesBehind == Spec => []BaselineBehindPi
  <1>1. Init => BaselineBehindPi
    BY DEF Init, BaselineBehindPi, Idle, NoRequest
  <1>2. TypeOK /\ BaselineBehindPi /\ [Next]_vars => BaselineBehindPi'
    <2> SUFFICES ASSUME TypeOK, BaselineBehindPi, [Next]_vars PROVE BaselineBehindPi'
      OBVIOUS
    <2>0. /\ clock \in Nat /\ lastSync \in Nat
          /\ \A p \in Phones : base[p] \in Nat
          /\ \A j \in Jobs : job[j].seen \in Nat /\ job[j].req.ls \in Nat /\ job[j].req \in Request
          /\ \A q \in late : q \in Request /\ q.ls \in Nat
      BY DEF TypeOK, JobState, Request
    <2>1. CASE UNCHANGED vars
      BY <2>1 DEF vars, BaselineBehindPi
    <2>2. ASSUME Tick \/ UNCHANGED clock, UNCHANGED <<lastSync, base, job, late>>
          PROVE  BaselineBehindPi'
      BY <2>0, <2>2 DEF Tick, BaselineBehindPi
    <2>3. ASSUME NEW p \in Phones, PhoneEdit(p) PROVE BaselineBehindPi'
      <3>1. Tick /\ UNCHANGED <<lastSync, base, job, late>>
        BY <2>3 DEF PhoneEdit, PhoneBagEdit, PhoneSave, PhoneToggle, PhoneDelete, StoreOnPhone
      <3> QED
        BY <2>2, <3>1
    <2>4. CASE PiEdit
      <3>1. Tick /\ UNCHANGED <<lastSync, base, job, late>>
        BY <2>4 DEF PiEdit, PiBagEdit, PiWrite, PiDelete, StoreOnPi
      <3> QED
        BY <2>2, <3>1
    <2>5. ASSUME NEW p \in Phones, NEW i \in Items, Resolve(p, i) PROVE BaselineBehindPi'
      <3>1. (Tick \/ UNCHANGED clock) /\ UNCHANGED <<lastSync, base, job, late>>
        BY <2>5 DEF Resolve, KeepPhone, KeepPi, KeepDeleted, Restore, StoreOnPhone
      <3> QED
        BY <2>2, <3>1
    <2>6. ASSUME NEW j \in Jobs, NEW state, Become(j, state), UNCHANGED <<clock, lastSync>>,
                 state.seen <= lastSync, state.req.ls <= lastSync,
                 \A p \in Phones : base'[p] <= lastSync,
                 \A q \in late' : q.ls <= lastSync
          PROVE  BaselineBehindPi'
      BY <2>6 DEF Become, BaselineBehindPi, TypeOK
    <2>6a. ASSUME NEW j \in Jobs, NEW from, BeginRefresh(j, from) PROVE BaselineBehindPi'
      <3>1. PICK b : Become(j, [Idle EXCEPT !.pc = "probing", !.synced = b])
        BY <2>6a DEF BeginRefresh
      <3>2. /\ [Idle EXCEPT !.pc = "probing", !.synced = b].seen = 0
            /\ [Idle EXCEPT !.pc = "probing", !.synced = b].req.ls = 0
        BY DEF Idle, NoRequest
      <3>3. 0 <= lastSync
        BY <2>0
      <3>4. UNCHANGED <<clock, lastSync, base, late>>
        BY <2>6a DEF BeginRefresh
      <3> QED
        BY <2>6, <3>1, <3>2, <3>3, <3>4 DEF BaselineBehindPi
    <2>7. ASSUME NEW j \in Jobs, JobStep(j) PROVE BaselineBehindPi'
      <3>1. job[j] \in JobState /\ job[j].req \in Request /\ Owner[j] \in Phones
        BY <2>0, JobsAssumption DEF TypeOK
      <3>2. CASE AnswerStatus(j)
        <4>1. [job[j] EXCEPT !.pc = "probed", !.seen = lastSync].seen = lastSync
          BY <3>1 DEF JobState
        <4>2. [job[j] EXCEPT !.pc = "probed", !.seen = lastSync].req = job[j].req
          BY <3>1 DEF JobState
        <4>3. lastSync <= lastSync /\ job[j].req.ls <= lastSync
          BY <2>0 DEF BaselineBehindPi
        <4> QED
          BY <2>6, <3>2, <4>1, <4>2, <4>3 DEF AnswerStatus, BaselineBehindPi
      <3>3. CASE ApplySuccess(j)
        <4>1. /\ Idle.seen = 0 /\ Idle.req.ls = 0
              /\ [Idle EXCEPT !.pc = "collecting"].seen = 0
              /\ [Idle EXCEPT !.pc = "collecting"].req.ls = 0
          BY DEF Idle, NoRequest
        <4>2. \A p \in Phones : base'[p] <= lastSync
          BY <2>0, <3>3 DEF ApplySuccess, TypeOK, BaselineBehindPi
        <4>3. 0 <= lastSync /\ \A q \in late : q.ls <= lastSync
          BY <2>0 DEF BaselineBehindPi
        <4>4. CASE j \in Pollers
          <5>1. Become(j, Idle) /\ UNCHANGED <<clock, lastSync, late>>
            BY <3>3, <4>4 DEF ApplySuccess
          <5> QED
            BY <2>6, <4>1, <4>2, <4>3, <5>1
        <4>5. CASE j \notin Pollers
          <5>1. Become(j, [Idle EXCEPT !.pc = "collecting"]) /\ UNCHANGED <<clock, lastSync, late>>
            BY <3>3, <4>5 DEF ApplySuccess
          <5> QED
            BY <2>6, <4>1, <4>2, <4>3, <5>1
        <4> QED
          BY <4>4, <4>5
      <3>4. CASE CollectAndSend(j)
        <4> DEFINE ls == SyncBaseline(Owner[j])
                   q == [ls |-> ls, sent |-> ChangedSince(room[Owner[j]], ls)]
                   state == [job[j] EXCEPT !.pc = "sent", !.req = q]
        <4>1. ls <= lastSync
          BY <2>0, <3>1 DEF SyncBaseline, BaselineBehindPi
        <4>2. state.seen = job[j].seen /\ state.req.ls = ls
          BY <3>1 DEF JobState
        <4>3. Become(j, state) /\ UNCHANGED <<clock, lastSync, base, late>>
          BY <3>4 DEF CollectAndSend
        <4> QED
          BY <2>6, <4>1, <4>2, <4>3 DEF BaselineBehindPi
      <3>5. CASE PiSync(j)
        <4> DEFINE q == job[j].req
                   state == [job[j] EXCEPT !.pc = "answered",
                                !.seen = lastSync', !.req.sent = NoRows,
                                !.changes = ServerChanges(q, pi, lastSync'),
                                !.conflicts = ServerConflicts(q, pi)]
        <4>1. lastSync' \in Nat /\ lastSync' = clock' /\ lastSync <= lastSync'
          BY <2>0, <3>5, LastSyncGrows DEF PiSync
        <4>2. state.seen = lastSync' /\ state.req.ls = job[j].req.ls
          BY <3>1 DEF JobState, Request
        <4>3. Become(j, state) /\ UNCHANGED <<base, late>>
          BY <3>5 DEF PiSync
        <4>4. \A k \in Jobs : job'[k].seen <= lastSync' /\ job'[k].req.ls <= lastSync'
          <5> SUFFICES ASSUME NEW k \in Jobs
                       PROVE  job'[k].seen <= lastSync' /\ job'[k].req.ls <= lastSync'
            OBVIOUS
          <5>1. CASE k = j
            BY <2>0, <4>1, <4>2, <4>3, <5>1 DEF Become, TypeOK, BaselineBehindPi
          <5>2. CASE k # j
            BY <2>0, <4>1, <4>3, <5>2 DEF Become, TypeOK, BaselineBehindPi
          <5> QED
            BY <5>1, <5>2
        <4> QED
          BY <2>0, <4>1, <4>3, <4>4 DEF BaselineBehindPi
      <3>6. CASE ReadLocalRows(j)
        <4>1. PICK new : Become(j, [job[j] EXCEPT !.pc = "applying", !.req = NoRequest, !.changes = new])
          BY <3>6 DEF ReadLocalRows
        <4>2. /\ [job[j] EXCEPT !.pc = "applying", !.req = NoRequest, !.changes = new].seen = job[j].seen
              /\ [job[j] EXCEPT !.pc = "applying", !.req = NoRequest, !.changes = new].req.ls = 0
          BY <3>1 DEF JobState, NoRequest
        <4>3. 0 <= lastSync /\ job[j].seen <= lastSync
          BY <2>0 DEF BaselineBehindPi
        <4> QED
          BY <2>6, <3>6, <4>1, <4>2, <4>3 DEF ReadLocalRows, BaselineBehindPi
      <3>7. CASE StoreRows(j)
        <4>1. [job[j] EXCEPT !.pc = "merged", !.changes = NoRows].seen = job[j].seen
          BY <3>1 DEF JobState
        <4>2. [job[j] EXCEPT !.pc = "merged", !.changes = NoRows].req = job[j].req
          BY <3>1 DEF JobState
        <4> QED
          BY <2>6, <3>7, <4>1, <4>2 DEF StoreRows, BaselineBehindPi
      <3>8. CASE StoreConflicts(j)
        <4>1. [job[j] EXCEPT !.pc = "stored", !.conflicts = NoConflicts].seen = job[j].seen
          BY <3>1 DEF JobState
        <4>2. [job[j] EXCEPT !.pc = "stored", !.conflicts = NoConflicts].req = job[j].req
          BY <3>1 DEF JobState
        <4> QED
          BY <2>6, <3>8, <4>1, <4>2 DEF StoreConflicts, BaselineBehindPi
      <3>9. CASE FetchSyncStatus(j)
        <4>1. PICK at \in {lastSync, job[j].seen} :
                  Become(j, [job[j] EXCEPT !.pc = "fetched", !.seen = at])
          BY <3>9 DEF FetchSyncStatus
        <4>2. /\ [job[j] EXCEPT !.pc = "fetched", !.seen = at].seen = at
              /\ [job[j] EXCEPT !.pc = "fetched", !.seen = at].req = job[j].req
          BY <3>1 DEF JobState
        <4>3. at <= lastSync
          BY <2>0, <4>1 DEF BaselineBehindPi
        <4> QED
          BY <2>6, <3>9, <4>1, <4>2, <4>3 DEF FetchSyncStatus, BaselineBehindPi
      <3>10. CASE FinishSync(j)
        <4>1. Idle.seen = 0 /\ Idle.req.ls = 0
          BY DEF Idle, NoRequest
        <4>2. \A p \in Phones : base'[p] <= lastSync
          BY <2>0, <3>10 DEF FinishSync, TypeOK, BaselineBehindPi
        <4> QED
          BY <2>0, <2>6, <3>10, <4>1, <4>2 DEF FinishSync, BaselineBehindPi
      <3>11. CASE FirstSync(j)
        BY <2>6a, <3>11 DEF FirstSync
      <3> QED
        BY <2>7, <3>2, <3>3, <3>4, <3>5, <3>6, <3>7, <3>8, <3>9, <3>10, <3>11 DEF JobStep
    <2>8. ASSUME NEW j \in Jobs, StartPoll(j) \/ StartSync(j) PROVE BaselineBehindPi'
      BY <2>6a, <2>8 DEF StartPoll, StartSync
    <2>8a. ASSUME NEW j \in Jobs, RePair(j) PROVE BaselineBehindPi'
      <3>1. /\ Become(j, [Idle EXCEPT !.pc = "paired"])
            /\ base' = [base EXCEPT ![Owner[j]] = 0] /\ UNCHANGED <<clock, lastSync, late>>
        BY <2>8a DEF RePair
      <3>2. [Idle EXCEPT !.pc = "paired"].seen = 0 /\ [Idle EXCEPT !.pc = "paired"].req.ls = 0
        BY DEF Idle, NoRequest
      <3>3. 0 <= lastSync /\ \A p \in Phones : base'[p] <= lastSync
        BY <2>0, <3>1 DEF TypeOK, BaselineBehindPi
      <3> QED
        BY <2>6, <3>1, <3>2, <3>3 DEF BaselineBehindPi
    <2>9. ASSUME NEW j \in Jobs, Failure(j) PROVE BaselineBehindPi'
      <3>1. Become(j, Idle) /\ UNCHANGED <<clock, lastSync, base>>
        BY <2>9 DEF Failure, CallFails, CallTimesOut, Abandon
      <3>2. \A q \in late' : q.ls <= lastSync
        BY <2>0, <2>9 DEF Failure, CallFails, CallTimesOut, Abandon, BaselineBehindPi
      <3>3. Idle.seen = 0 /\ Idle.req.ls = 0
        BY DEF Idle, NoRequest
      <3> QED
        BY <2>0, <2>6, <3>1, <3>2, <3>3 DEF BaselineBehindPi
    <2>10. ASSUME NEW q \in late, PiLateSync(q) PROVE BaselineBehindPi'
      <3>1. lastSync' \in Nat /\ lastSync' = clock' /\ lastSync <= lastSync'
        BY <2>0, <2>10, LastSyncGrows DEF PiLateSync
      <3>2. late' \subseteq late /\ UNCHANGED <<base, job>>
        BY <2>10 DEF PiLateSync
      <3> QED
        BY <2>0, <3>1, <3>2 DEF BaselineBehindPi
    <2> QED
      BY <2>1, <2>3, <2>4, <2>5, <2>7, <2>8, <2>8a, <2>9, <2>10 DEF Next
  <1> QED
    BY <1>1, <1>2, TypeCorrect, PTL DEF Spec

=============================================================================
