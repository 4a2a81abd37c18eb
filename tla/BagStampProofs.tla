--------------------------- MODULE BagStampProofs ---------------------------
(***************************************************************************)
(* A time stamp names one version of an item: StampNamesVersion, for every *)
(* set of phones, jobs, items and values.                                  *)
(*                                                                         *)
(* The inductive invariant says more than the property: no copy anywhere   *)
(* is stamped later than the last edit, so the stamp of a new edit is new. *)
(***************************************************************************)
EXTENDS BagSyncProofs

\* What a job carries of item i.
Carried(state, i) == {state.req.sent[i], state.changes[i], state.conflicts[i]}

\* Every version of item i that is anywhere, and "no row".
Versions(i) ==
    Copies(i) \cup {conf[p][i] : p \in Phones} \cup {job[j].conflicts[i] : j \in Jobs}
              \cup {NoRow}

VersionsOK(i) ==
    /\ \A a \in Versions(i) : a.t <= clock
    /\ \A a, b \in Versions(i) : a.t = b.t => a = b

StampInv == \A i \in Items : VersionsOK(i)

\* Where the versions of an item are.
LEMMA PlacesOfVersions ==
    ASSUME NEW i \in Items
    PROVE  /\ NoRow \in Versions(i) /\ pi[i] \in Versions(i)
           /\ \A p \in Phones : room[p][i] \in Versions(i) /\ conf[p][i] \in Versions(i)
           /\ \A j \in Jobs : Carried(job[j], i) \subseteq Versions(i)
           /\ \A q \in late : q.sent[i] \in Versions(i)
  BY DEF Versions, Copies, Carried

\* And nowhere else.
LEMMA VersionsWithin ==
    ASSUME NEW i \in Items, NEW STATE S,
           NoRow \in S, pi[i]' \in S,
           \A p \in Phones : room'[p][i] \in S /\ conf'[p][i] \in S,
           \A j \in Jobs : Carried(job'[j], i) \subseteq S,
           \A q \in late' : q.sent[i] \in S
    PROVE  Versions(i)' \subseteq S
  BY DEF Versions, Copies, Carried

\* Every version is a row.
LEMMA VersionsType ==
    ASSUME TypeOK, NEW i \in Items
    PROVE  Versions(i) \subseteq Row
  <1>1. i \in Rows
    BY DEF Rows
  <1>2. /\ pi[i] \in Row
        /\ \A p \in Phones : room[p][i] \in Row /\ conf[p][i] \in Row
        /\ \A q \in late : q.sent[i] \in Row
    BY <1>1 DEF TypeOK, Table, Request
  <1>3. \A j \in Jobs : Carried(job[j], i) \subseteq Row
    BY <1>1 DEF TypeOK, JobState, Table, Request, Carried
  <1> QED
    BY <1>2, <1>3, NoRowType DEF Versions, Copies, Carried

\* Copying versions around keeps the invariant, and so does a new version
\* stamped with a new time.
LEMMA CopiesOnly ==
    ASSUME TypeOK, TypeOK', NEW i \in Items, VersionsOK(i), clock <= clock',
           Versions(i)' \subseteq Versions(i)
    PROVE  VersionsOK(i)'
  BY VersionsType DEF VersionsOK, TypeOK, Row

LEMMA OneNewVersion ==
    ASSUME TypeOK, TypeOK', NEW i \in Items, VersionsOK(i), clock < clock',
           NEW STATE row, row.t = clock', Versions(i)' \subseteq Versions(i) \cup {row}
    PROVE  VersionsOK(i)'
  <1>1. \A a \in Versions(i) : a.t \in Nat /\ a.t < clock'
    BY VersionsType DEF VersionsOK, TypeOK, Row
  <1>2. \A a \in Versions(i)' : a.t <= clock'
    BY <1>1 DEF TypeOK
  <1>3. \A a, b \in Versions(i)' : a.t = b.t => a = b
    BY <1>1 DEF VersionsOK, TypeOK
  <1> QED
    BY <1>2, <1>3 DEF VersionsOK

\* A job whose new state carries only known versions.
LEMMA JobCopies ==
    ASSUME TypeOK, NEW i \in Items, NEW j \in Jobs, NEW STATE state, Become(j, state),
           Carried(state, i) \subseteq Versions(i)
    PROVE  \A k \in Jobs : Carried(job'[k], i) \subseteq Versions(i)
  BY PlacesOfVersions DEF Become, TypeOK

-----------------------------------------------------------------------------
(* The steps, one item at a time. *)

\* Storing a row on a phone changes the item to one new version at most.
LEMMA StoreOnPhoneStamp ==
    ASSUME TypeOK, TypeOK', NEW i \in Items, VersionsOK(i), Tick,
           NEW p \in Phones, NEW r \in Rows, NEW STATE row, row \in Row,
           StoreOnPhone(p, r, row),
           \A k \in Phones : conf'[k][i] \in Versions(i)
    PROVE  VersionsOK(i)'
  <1> DEFINE new == [row EXCEPT !.t = clock + 1]
  <1>1. clock < clock' /\ clock' = clock + 1 /\ new.t = clock'
    BY DEF Tick, TypeOK, Row
  <1>2. room' = [room EXCEPT ![p][r] = new] /\ UNCHANGED <<pi, job, late>>
    BY <1>1 DEF StoreOnPhone
  <1>3. \A k \in Phones : room'[k][i] \in Versions(i) \cup {new}
    BY <1>2, PlacesOfVersions DEF TypeOK, Table, Rows
  <1>4. Versions(i)' \subseteq Versions(i) \cup {new}
    BY <1>2, <1>3, PlacesOfVersions, VersionsWithin
  <1> QED
    BY <1>1, <1>4, OneNewVersion

\* So does storing one on the Pi.
LEMMA StoreOnPiStamp ==
    ASSUME TypeOK, TypeOK', NEW i \in Items, VersionsOK(i), Tick,
           NEW r \in Rows, NEW STATE row, row \in Row, StoreOnPi(r, row)
    PROVE  VersionsOK(i)'
  <1> DEFINE new == [row EXCEPT !.t = clock + 1]
  <1>1. clock < clock' /\ clock' = clock + 1 /\ new.t = clock'
    BY DEF Tick, TypeOK, Row
  <1>2. pi' = [pi EXCEPT ![r] = new] /\ UNCHANGED <<room, conf, job, late>>
    BY <1>1 DEF StoreOnPi
  <1>3. pi'[i] \in Versions(i) \cup {new}
    BY <1>2, PlacesOfVersions DEF TypeOK, Table, Rows
  <1>4. Versions(i)' \subseteq Versions(i) \cup {new}
    BY <1>2, <1>3, PlacesOfVersions, VersionsWithin
  <1> QED
    BY <1>1, <1>4, OneNewVersion

\* The edits of users, on a phone or on the Pi.
LEMMA EditStamp ==
    ASSUME TypeOK, TypeOK', NEW i \in Items, VersionsOK(i),
           PiEdit \/ \E p \in Phones : PhoneEdit(p)
    PROVE  VersionsOK(i)'
  <1>1. Bag \in Rows /\ Items \subseteq Rows
    BY DEF Rows
  <1>2. ASSUME NEW p \in Phones, PhoneEdit(p) PROVE VersionsOK(i)'
    <2>1. Tick /\ UNCHANGED conf
      BY <1>2 DEF PhoneEdit, PhoneBagEdit, PhoneSave, PhoneToggle, PhoneDelete
    <2>2. PICK r \in Rows, row \in Row : StoreOnPhone(p, r, row)
      <3>1. \A r \in Rows : room[p][r] \in Row
        BY DEF TypeOK, Table
      <3>2. \A r \in Rows, v \in Vals : /\ [room[p][r] EXCEPT !.val = v] \in Row
                                        /\ [room[p][r] EXCEPT !.packed = ~@] \in Row
                                        /\ [room[p][r] EXCEPT !.deleted = TRUE] \in Row
        BY <3>1 DEF Row
      <3>3. CASE PhoneBagEdit(p)
        BY <1>1, <3>2, <3>3 DEF PhoneBagEdit
      <3>4. ASSUME NEW k \in Items, PhoneSave(p, k)
            PROVE  \E r \in Rows, row \in Row : StoreOnPhone(p, r, row)
        <4>1. PICK v \in Vals, packed \in {FALSE, Visible(p, k)} :
                      StoreOnPhone(p, k, [room[p][k] EXCEPT !.val = v, !.packed = @ \/ packed])
          BY <3>4 DEF PhoneSave
        <4>2. [room[p][k] EXCEPT !.val = v, !.packed = @ \/ packed] \in Row
          BY <1>1, <3>1 DEF Row
        <4> QED
          BY <1>1, <4>1, <4>2
      <3>5. ASSUME NEW k \in Items, PhoneToggle(p, k)
            PROVE  \E r \in Rows, row \in Row : StoreOnPhone(p, r, row)
        <4>1. [room[p][k] EXCEPT !.packed = ~@] \in Row
          BY <1>1, <3>1 DEF Row
        <4> QED
          BY <1>1, <3>5, <4>1 DEF PhoneToggle
      <3>6. ASSUME NEW k \in Items, PhoneDelete(p, k)
            PROVE  \E r \in Rows, row \in Row : StoreOnPhone(p, r, row)
        <4>1. [room[p][k] EXCEPT !.deleted = TRUE] \in Row
          BY <1>1, <3>1 DEF Row
        <4> QED
          BY <1>1, <3>6, <4>1 DEF PhoneDelete
      <3> QED
        BY <1>2, <3>3, <3>4, <3>5, <3>6 DEF PhoneEdit
    <2> QED
      BY <2>1, <2>2, StoreOnPhoneStamp, PlacesOfVersions
  <1>3. CASE PiEdit
    <2>1. Tick
      BY <1>3 DEF PiEdit, PiBagEdit, PiWrite, PiDelete
    <2>2. PICK r \in Rows, row \in Row : StoreOnPi(r, row)
      <3>1. \A r \in Rows : pi[r] \in Row
        BY DEF TypeOK, Table
      <3>2. \A r \in Rows, v \in Vals, k \in BOOLEAN :
                /\ [pi[r] EXCEPT !.val = v] \in Row
                /\ [pi[r] EXCEPT !.deleted = TRUE] \in Row
                /\ [pi[r] EXCEPT !.val = v, !.packed = k, !.deleted = FALSE] \in Row
        BY <3>1 DEF Row
      <3>3. CASE PiBagEdit
        BY <1>1, <3>2, <3>3 DEF PiBagEdit
      <3>4. ASSUME NEW k \in Items, PiWrite(k)
            PROVE  \E r \in Rows, row \in Row : StoreOnPi(r, row)
        BY <1>1, <3>2, <3>4 DEF PiWrite
      <3>5. ASSUME NEW k \in Items, PiDelete(k)
            PROVE  \E r \in Rows, row \in Row : StoreOnPi(r, row)
        <4>1. [pi[k] EXCEPT !.deleted = TRUE] \in Row
          BY <1>1, <3>1 DEF Row
        <4> QED
          BY <1>1, <3>5, <4>1 DEF PiDelete
      <3> QED
        BY <1>3, <3>3, <3>4, <3>5 DEF PiEdit
    <2> QED
      BY <2>1, <2>2, StoreOnPiStamp
  <1> QED
    BY <1>2, <1>3

\* Resolving a conflict.
LEMMA ResolveStamp ==
    ASSUME TypeOK, TypeOK', NEW i \in Items, VersionsOK(i),
           NEW p \in Phones, NEW c \in Items, Resolve(p, c)
    PROVE  VersionsOK(i)'
  <1>1. c \in Rows /\ room[p][c] \in Row /\ conf[p][c] \in Row
    BY DEF Rows, TypeOK, Table
  <1>2. Forget(p, c)
    BY DEF Resolve, KeepPhone, KeepPi, KeepDeleted, Restore
  <1>3. \A k \in Phones : conf'[k][i] \in Versions(i)
    BY <1>2, PlacesOfVersions DEF Forget, TypeOK
  <1>4. CASE KeepPhone(p, c)
    <2>1. CASE Exists(room[p][c])
      BY <1>1, <1>3, <1>4, <2>1, StoreOnPhoneStamp DEF KeepPhone
    <2>2. CASE ~Exists(room[p][c])
      <3>1. UNCHANGED <<room, pi, job, late>> /\ clock <= clock'
        BY <1>4, <2>2 DEF KeepPhone, Tick, TypeOK
      <3>2. Versions(i)' \subseteq Versions(i)
        BY <1>3, <3>1, PlacesOfVersions, VersionsWithin
      <3> QED
        BY <3>1, <3>2, CopiesOnly
    <2> QED
      BY <2>1, <2>2
  <1>5. CASE KeepPi(p, c)
    <2>1. /\ room' = [room EXCEPT ![p][c] = conf[p][c]]
          /\ UNCHANGED <<clock, pi, job, late>>
      BY <1>5 DEF KeepPi
    <2>2. \A k \in Phones : room'[k][i] \in Versions(i)
      BY <1>1, <2>1, PlacesOfVersions DEF TypeOK, Table
    <2>3. Versions(i)' \subseteq Versions(i)
      BY <1>3, <2>1, <2>2, PlacesOfVersions, VersionsWithin
    <2>4. clock <= clock'
      BY <2>1 DEF TypeOK
    <2> QED
      BY <2>3, <2>4, CopiesOnly
  <1>6. CASE KeepDeleted(p, c)
    <2>1. [conf[p][c] EXCEPT !.deleted = TRUE] \in Row
      BY <1>1 DEF Row
    <2> QED
      BY <1>1, <1>3, <1>6, <2>1, StoreOnPhoneStamp DEF KeepDeleted
  <1>7. CASE Restore(p, c)
    <2>1. [conf[p][c] EXCEPT !.deleted = FALSE] \in Row
      BY <1>1 DEF Row
    <2> QED
      BY <1>1, <1>3, <1>7, <2>1, StoreOnPhoneStamp DEF Restore
  <1> QED
    BY <1>4, <1>5, <1>6, <1>7 DEF Resolve

\* A request moves versions of an item, it makes none.
LEMMA RequestCopies ==
    ASSUME TypeOK, NEW i \in Items, NEW q \in Request, q.sent[i] \in Versions(i), RunRequest(q)
    PROVE  /\ pi'[i] \in Versions(i)
           /\ ServerChanges(q, pi, lastSync')[i] \in Versions(i)
           /\ ServerConflicts(q, pi)[i] \in Versions(i)
           /\ clock <= clock'
  <1>1. /\ clock' = SyncTime(q) /\ lastSync' = clock' /\ pi' = PiAfter(q, pi, clock')
        /\ clock' \in Nat /\ pi \in Table
    BY RunRequestType DEF RunRequest, TypeOK
  <1>2. i \in Rows /\ i # Bag
    BY RowsAssumption DEF Rows
  <1>3. pi'[i] \in Versions(i)
    BY <1>1, RequestAdvances, PlacesOfVersions
  <1>4. Compared(q, pi, lastSync')[i] = pi[i]
    BY <1>1, <1>2 DEF Compared, Table
  <1>5. ServerChanges(q, pi, lastSync')[i] \in Versions(i)
    BY <1>2, <1>4, PlacesOfVersions DEF ServerChanges
  <1>6. ServerConflicts(q, pi)[i] \in Versions(i)
    BY PlacesOfVersions DEF ServerConflicts
  <1> QED
    BY <1>1, <1>3, <1>5, <1>6, SyncTimeType DEF TypeOK

\* A step of a job that leaves clock, pi, room, conf and late alone.
LEMMA JobOnlyStamp ==
    ASSUME TypeOK, TypeOK', NEW i \in Items, VersionsOK(i),
           NEW j \in Jobs, NEW STATE state, Become(j, state),
           Carried(state, i) \subseteq Versions(i),
           UNCHANGED <<clock, pi, room, conf, late>>
    PROVE  VersionsOK(i)'
  <1>1. Versions(i)' \subseteq Versions(i)
    BY JobCopies, PlacesOfVersions, VersionsWithin
  <1>2. clock <= clock'
    BY DEF TypeOK
  <1> QED
    BY <1>1, <1>2, CopiesOnly

\* Beginning a refresh.
LEMMA BeginRefreshStamp ==
    ASSUME TypeOK, TypeOK', NEW i \in Items, VersionsOK(i),
           NEW j \in Jobs, NEW from, BeginRefresh(j, from)
    PROVE  VersionsOK(i)'
  <1> DEFINE state == [Idle EXCEPT !.pc = "probing", !.synced = base[Owner[j]] > 0]
  <1>1. NoRows[i] = NoRow /\ NoConflicts[i] = NoRow
    BY DEF NoRows, NoConflicts, Rows
  <1>2. Carried(state, i) \subseteq Versions(i)
    BY <1>1, PlacesOfVersions DEF Carried, Idle, NoRequest
  <1>3. Become(j, state) /\ UNCHANGED <<clock, pi, room, conf, late>>
    BY DEF BeginRefresh
  <1> QED
    BY <1>2, <1>3, JobOnlyStamp

\* The steps of a job: each one moves versions between the Pi, the phone and the job.
LEMMA JobStepStamp ==
    ASSUME TypeOK, TypeOK', NEW i \in Items, VersionsOK(i), NEW j \in Jobs, JobStep(j)
    PROVE  VersionsOK(i)'
  <1> DEFINE p == Owner[j]
  <1>1. /\ i \in Rows /\ p \in Phones
        /\ job[j] \in JobState /\ job[j].req \in Request /\ room[p] \in Table
    BY JobsAssumption DEF Rows, TypeOK, JobState
  <1>2. /\ job[j].req.sent[i] \in Versions(i) /\ job[j].changes[i] \in Versions(i)
        /\ job[j].conflicts[i] \in Versions(i) /\ room[p][i] \in Versions(i)
        /\ NoRow \in Versions(i)
    BY <1>1, PlacesOfVersions DEF Carried
  <1>3. NoRows[i] = NoRow /\ NoConflicts[i] = NoRow /\ NoRequest.sent[i] = NoRow
    BY <1>1 DEF NoRows, NoConflicts, NoRequest
  <1>4. Carried(Idle, i) \subseteq Versions(i)
    BY <1>2, <1>3 DEF Carried, Idle
  <1>5. CASE AnswerStatus(j)
    <2> DEFINE state == [job[j] EXCEPT !.pc = "probed", !.seen = lastSync]
    <2>1. Carried(state, i) = Carried(job[j], i)
      BY <1>1 DEF JobState, Carried
    <2>2. Become(j, state) /\ UNCHANGED <<clock, pi, room, conf, late>>
      BY <1>5 DEF AnswerStatus
    <2> QED
      BY <2>1, <2>2, PlacesOfVersions, JobOnlyStamp
  <1>6. CASE ApplySuccess(j)
    <2> DEFINE state == IF j \in Pollers THEN Idle ELSE [Idle EXCEPT !.pc = "collecting"]
    <2>1. Carried(state, i) = Carried(Idle, i)
      BY DEF Carried, Idle
    <2>2. Become(j, state) /\ UNCHANGED <<clock, pi, room, conf, late>>
      BY <1>6 DEF ApplySuccess
    <2> QED
      BY <1>4, <2>1, <2>2, JobOnlyStamp
  <1>7. CASE CollectAndSend(j)
    <2> DEFINE ls == SyncBaseline(p)
               q == [ls |-> ls, sent |-> ChangedSince(room[p], ls)]
               state == [job[j] EXCEPT !.pc = "sent", !.req = q]
    <2>1. ChangedSince(room[p], ls)[i] \in Versions(i)
      BY <1>1, <1>2 DEF ChangedSince
    <2>2. /\ state.req.sent[i] = ChangedSince(room[p], ls)[i]
          /\ state.changes = job[j].changes /\ state.conflicts = job[j].conflicts
      BY <1>1 DEF JobState
    <2>3. Carried(state, i) \subseteq Versions(i)
      BY <1>2, <2>1, <2>2 DEF Carried
    <2>4. Become(j, state) /\ UNCHANGED <<clock, pi, room, conf, late>>
      BY <1>7 DEF CollectAndSend
    <2> QED
      BY <2>3, <2>4, JobOnlyStamp
  <1>8. CASE PiSync(j)
    <2> DEFINE q == job[j].req
               state == [job[j] EXCEPT !.pc = "answered",
                            !.seen = lastSync', !.req.sent = NoRows,
                            !.changes = ServerChanges(q, pi, lastSync'),
                            !.conflicts = ServerConflicts(q, pi)]
    <2>1. /\ pi'[i] \in Versions(i) /\ clock <= clock'
          /\ ServerChanges(q, pi, lastSync')[i] \in Versions(i)
          /\ ServerConflicts(q, pi)[i] \in Versions(i)
      BY <1>1, <1>2, <1>8, RequestCopies DEF PiSync
    <2>2. /\ state.req.sent = NoRows
          /\ state.changes = ServerChanges(q, pi, lastSync')
          /\ state.conflicts = ServerConflicts(q, pi)
      BY <1>1 DEF JobState, Request
    <2>3. Carried(state, i) \subseteq Versions(i)
      BY <1>2, <1>3, <2>1, <2>2 DEF Carried
    <2>4. job' = [job EXCEPT ![j] = state] /\ UNCHANGED <<room, conf, late>>
      BY <1>8 DEF PiSync, Become
    <2>5. \A k \in Jobs : Carried(job'[k], i) \subseteq Versions(i)
      BY <2>3, <2>4, PlacesOfVersions DEF TypeOK
    <2>6. Versions(i)' \subseteq Versions(i)
      BY <2>1, <2>4, <2>5, PlacesOfVersions, VersionsWithin
    <2> QED
      BY <2>1, <2>6, CopiesOnly
  <1>9. CASE ReadLocalRows(j)
    <2> DEFINE new == [r \in Rows |-> IF room[p][r].t <= job[j].req.ls
                                      THEN job[j].changes[r] ELSE NoRow]
               state == [job[j] EXCEPT !.pc = "applying", !.req = NoRequest, !.changes = new]
    <2>1. new[i] \in Versions(i)
      BY <1>1, <1>2
    <2>2. state.req = NoRequest /\ state.changes = new /\ state.conflicts = job[j].conflicts
      BY <1>1 DEF JobState
    <2>3. Carried(state, i) \subseteq Versions(i)
      BY <1>2, <1>3, <2>1, <2>2 DEF Carried
    <2>4. Become(j, state) /\ UNCHANGED <<clock, pi, room, conf, late>>
      BY <1>9 DEF ReadLocalRows, Become
    <2> QED
      BY <2>3, <2>4, JobOnlyStamp
  <1>10. CASE StoreRows(j)
    <2> DEFINE new == job[j].changes
               tbl == [r \in Rows |-> IF Exists(new[r]) THEN new[r] ELSE room[p][r]]
               state == [job[j] EXCEPT !.pc = "merged", !.changes = NoRows]
    <2>1. tbl[i] \in Versions(i)
      BY <1>1, <1>2
    <2>2. room' = [room EXCEPT ![p] = tbl] /\ Become(j, state) /\ UNCHANGED <<clock, pi, conf, late>>
      BY <1>10 DEF StoreRows
    <2>3. \A k \in Phones : room'[k][i] \in Versions(i)
      BY <2>1, <2>2, PlacesOfVersions DEF TypeOK
    <2>4. state.req = job[j].req /\ state.changes = NoRows /\ state.conflicts = job[j].conflicts
      BY <1>1 DEF JobState
    <2>5. Carried(state, i) \subseteq Versions(i)
      BY <1>2, <1>3, <2>4 DEF Carried
    <2>6. Versions(i)' \subseteq Versions(i)
      BY <2>2, <2>3, <2>5, JobCopies, PlacesOfVersions, VersionsWithin
    <2>7. clock <= clock'
      BY <2>2 DEF TypeOK
    <2> QED
      BY <2>6, <2>7, CopiesOnly
  <1>11. CASE StoreConflicts(j)
    <2> DEFINE state == [job[j] EXCEPT !.pc = "stored", !.conflicts = NoConflicts]
    <2>1. /\ conf' = [conf EXCEPT ![p] = job[j].conflicts]
          /\ Become(j, state) /\ UNCHANGED <<clock, pi, room, late>>
      BY <1>11 DEF StoreConflicts
    <2>2. \A k \in Phones : conf'[k][i] \in Versions(i)
      BY <1>2, <2>1, PlacesOfVersions DEF TypeOK
    <2>3. state.req = job[j].req /\ state.changes = job[j].changes /\ state.conflicts = NoConflicts
      BY <1>1 DEF JobState
    <2>4. Carried(state, i) \subseteq Versions(i)
      BY <1>2, <1>3, <2>3 DEF Carried
    <2>5. Versions(i)' \subseteq Versions(i)
      BY <2>1, <2>2, <2>4, JobCopies, PlacesOfVersions, VersionsWithin
    <2>6. clock <= clock'
      BY <2>1 DEF TypeOK
    <2> QED
      BY <2>5, <2>6, CopiesOnly
  <1>12. CASE FetchSyncStatus(j)
    <2>1. PICK at : Become(j, [job[j] EXCEPT !.pc = "fetched", !.seen = at])
      BY <1>12 DEF FetchSyncStatus
    <2> DEFINE state == [job[j] EXCEPT !.pc = "fetched", !.seen = at]
    <2>2. Carried(state, i) = Carried(job[j], i)
      BY <1>1 DEF JobState, Carried
    <2>3. UNCHANGED <<clock, pi, room, conf, late>>
      BY <1>12 DEF FetchSyncStatus
    <2> QED
      BY <2>1, <2>2, <2>3, PlacesOfVersions, JobOnlyStamp
  <1>13. CASE FinishSync(j)
    BY <1>4, <1>13, JobOnlyStamp DEF FinishSync
  <1>14. CASE FirstSync(j)
    BY <1>14, BeginRefreshStamp DEF FirstSync
  <1> QED
    BY <1>5, <1>6, <1>7, <1>8, <1>9, <1>10, <1>11, <1>12, <1>13, <1>14 DEF JobStep

\* Starting a job, pairing again, losing a job, and a request that runs late.
LEMMA OtherStepStamp ==
    ASSUME TypeOK, TypeOK', NEW i \in Items, VersionsOK(i),
           \/ \E j \in Jobs : StartPoll(j) \/ StartSync(j) \/ RePair(j) \/ Failure(j)
           \/ \E q \in late : PiLateSync(q)
    PROVE  VersionsOK(i)'
  <1>1. i \in Rows
    BY DEF Rows
  <1>2. NoRows[i] = NoRow /\ NoConflicts[i] = NoRow
    BY <1>1 DEF NoRows, NoConflicts
  <1>3. ASSUME NEW j \in Jobs, StartPoll(j) \/ StartSync(j) PROVE VersionsOK(i)'
    BY <1>3, BeginRefreshStamp DEF StartPoll, StartSync
  <1>6. ASSUME NEW j \in Jobs, RePair(j) PROVE VersionsOK(i)'
    <2> DEFINE state == [Idle EXCEPT !.pc = "paired"]
               p == Owner[j]
    <2>1. Carried(state, i) \subseteq Versions(i)
      BY <1>2, PlacesOfVersions DEF Carried, Idle, NoRequest
    <2>2. /\ Become(j, state) /\ UNCHANGED <<clock, pi, conf, late>>
          /\ room' = [room EXCEPT ![p][Bag] = pi[Bag]]
      BY <1>6 DEF RePair
    <2>3. i # Bag
      BY RowsAssumption
    <2>4. \A k \in Phones : room'[k][i] \in Versions(i)
      BY <1>1, <2>2, <2>3, PlacesOfVersions DEF TypeOK, Table
    <2>5. Versions(i)' \subseteq Versions(i)
      BY <2>1, <2>2, <2>4, JobCopies, PlacesOfVersions, VersionsWithin
    <2>6. clock <= clock'
      BY <2>2 DEF TypeOK
    <2> QED
      BY <2>5, <2>6, CopiesOnly
  <1>4. ASSUME NEW j \in Jobs, Failure(j) PROVE VersionsOK(i)'
    <2>1. Become(j, Idle) /\ UNCHANGED <<clock, pi, room, conf>>
      BY <1>4 DEF Failure, CallFails, CallTimesOut, Abandon
    <2>2. Carried(Idle, i) \subseteq Versions(i)
      BY <1>2, PlacesOfVersions DEF Carried, Idle, NoRequest
    <2>3. \A q \in late' : q.sent[i] \in Versions(i)
      BY <1>4, PlacesOfVersions DEF Failure, CallFails, CallTimesOut, Abandon, Carried
    <2>4. Versions(i)' \subseteq Versions(i)
      BY <2>1, <2>2, <2>3, JobCopies, PlacesOfVersions, VersionsWithin
    <2>5. clock <= clock'
      BY <2>1 DEF TypeOK
    <2> QED
      BY <2>4, <2>5, CopiesOnly
  <1>5. ASSUME NEW q \in late, PiLateSync(q) PROVE VersionsOK(i)'
    <2>1. pi'[i] \in Versions(i) /\ clock <= clock'
      BY <1>5, RequestCopies, PlacesOfVersions DEF PiLateSync, TypeOK
    <2>2. late' \subseteq late /\ UNCHANGED <<room, conf, job>>
      BY <1>5 DEF PiLateSync
    <2>3. Versions(i)' \subseteq Versions(i)
      BY <2>1, <2>2, PlacesOfVersions, VersionsWithin
    <2> QED
      BY <2>1, <2>3, CopiesOnly
  <1> QED
    BY <1>3, <1>4, <1>5, <1>6

-----------------------------------------------------------------------------

\* No version is stamped in the future, and a stamp names one version: inductive.
LEMMA StampInvariant == Spec => []StampInv
  <1>1. Init => StampInv
    <2> SUFFICES ASSUME Init, NEW i \in Items PROVE VersionsOK(i)
      BY DEF StampInv
    <2>0. i \in Rows /\ i # Bag
      BY RowsAssumption DEF Rows
    <2>1. PICK v \in Vals, known \in SUBSET Items :
              pi = [r \in Rows |-> IF r \in known \cup {Bag}
                                   THEN [NoRow EXCEPT !.t = 1, !.val = v]
                                   ELSE NoRow]
      BY DEF Init
    <2> DEFINE one == [NoRow EXCEPT !.t = 1, !.val = v]
    <2>2. pi[i] \in {NoRow, one} /\ one.t = 1 /\ NoRow.t = 0
      BY <2>0, <2>1 DEF NoRow
    <2>3. NoRows[i] = NoRow /\ NoConflicts[i] = NoRow
      BY <2>0 DEF NoRows, NoConflicts
    <2>4. \A p \in Phones : room[p][i] = NoRow /\ conf[p][i] = NoRow
      BY <2>0, <2>3 DEF Init, NoRows
    <2>5. \A j \in Jobs : /\ job[j].req.sent[i] = NoRow
                          /\ job[j].changes[i] = NoRow /\ job[j].conflicts[i] = NoRow
      BY <2>3 DEF Init, Idle, NoRequest
    <2>6. late = {} /\ clock = 1
      BY DEF Init
    <2> HIDE DEF one
    <2>7. Versions(i) \subseteq {NoRow, one}
      BY <2>2, <2>4, <2>5, <2>6 DEF Versions, Copies
    <2>8. NoRow.t <= clock /\ one.t <= clock /\ NoRow.t # one.t
      BY <2>2, <2>6
    <2> QED
      BY <2>7, <2>8 DEF VersionsOK
  <1>2. TypeOK /\ TypeOK' /\ StampInv /\ [Next]_vars => StampInv'
    <2> SUFFICES ASSUME TypeOK, TypeOK', StampInv, [Next]_vars, NEW i \in Items
                 PROVE  VersionsOK(i)'
      BY DEF StampInv
    <2>1. VersionsOK(i)
      BY DEF StampInv
    <2>2. CASE Next
      BY <2>1, <2>2, EditStamp, ResolveStamp, JobStepStamp, OtherStepStamp DEF Next
    <2>3. CASE UNCHANGED vars
      <3>1. Versions(i)' = Versions(i) /\ clock' = clock
        BY <2>3 DEF vars, Versions, Copies
      <3> QED
        BY <2>1, <3>1 DEF VersionsOK
    <2> QED
      BY <2>2, <2>3
  <1> QED
    BY <1>1, <1>2, TypeCorrect, PTL DEF Spec

\* Two copies of an item with the same updated_at are the same version, wherever
\* they are: on a phone, on the Pi, in a request, in a reply or in a conflict.
\* The comparisons of run_sync_request and apply_server_item rest on it.
THEOREM StampsNameVersions == Spec => []StampNamesVersion
  <1>1. StampInv => StampNamesVersion
    BY DEF StampInv, VersionsOK, Versions, StampNamesVersion
  <1> QED
    BY <1>1, StampInvariant, PTL

=============================================================================
