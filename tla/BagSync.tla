------------------------------- MODULE BagSync -------------------------------
(***************************************************************************)
(* Sync between phones and one Raspberry Pi.                               *)
(*                                                                         *)
(* The Pi keeps the bag in SQLite (pi) and the time of the last sync of    *)
(* ANY phone (lastSync, the meta row last_sync_time_ms).  Every phone      *)
(* keeps its own copy in Room (room), a baseline (base, last_sync_at of    *)
(* the paired bag in DataStore) and the conflicts it was told of (conf).   *)
(* A phone runs coroutines (Jobs): run_sync_now, started by the user or by *)
(* an edit, and the status poll of MainActivity, which runs the same       *)
(* refresh_current_connection a sync starts with.  Nothing in the app      *)
(* makes two jobs of one phone exclude each other.                         *)
(*                                                                         *)
(* Time advances with the edits: stamps of different edits differ, and a   *)
(* sync that edits nothing happens at the time of the edit before it.      *)
(***************************************************************************)
EXTENDS SyncRows, FiniteSets

CONSTANTS
    Phones,
    Jobs,        \* coroutines that can be in flight at the same time
    Owner,       \* the phone each job runs on
    Pollers,     \* the jobs that poll the Pi's status; the others run syncs
    Faults,      \* what the environment may do, out of AllFaults
    MaxTime,     \* bound: no edit by a user after this time
    LastTime,    \* bound: no restamping of the bag's row by a sync after this time
    MaxLate      \* bound: requests a relay may hold after the phone gave up

AllFaults == {"loss",        \* a reply of the Pi is lost, or the app is killed
              "late",        \* an abandoned request still reaches the Pi, even twice
              "busy",        \* the user edits while a sync of the phone is running
              "overlap",     \* a second sync starts before the first has ended
              "unresolved",  \* the user syncs before resolving the conflicts
              "repair"}      \* the user pairs the phone with the Pi again

ASSUME JobsAssumption == Owner \in [Jobs -> Phones] /\ Pollers \subseteq Jobs
ASSUME BoundsAssumption == MaxTime \in Nat /\ LastTime \in Nat /\ MaxLate \in Nat
ASSUME FaultsAssumption == Faults \subseteq AllFaults

VARIABLES
    clock,     \* the time of the last edit
    pi,        \* the rows in the Pi's database
    lastSync,  \* the Pi's last_sync_time_ms, 0 before the first sync
    room,      \* room[p]: the rows in the database of phone p
    base,      \* base[p]: last_sync_at on phone p, 0 after pairing
    conf,      \* conf[p][i]: the Pi's version in a stored conflict, or NoRow
    job,       \* job[j]: the state of a coroutine
    late       \* requests whose sender has given up, still on their way

vars == <<clock, pi, lastSync, room, base, conf, job, late>>

-----------------------------------------------------------------------------
Phases == {"idle", "paired", "probing", "probed", "collecting", "sent",
           "answered", "applying", "merged", "stored", "fetched"}

NoConflicts == [i \in Items |-> NoRow]

JobState == [pc : Phases,
             synced : BOOLEAN,         \* had the phone synced when the refresh began?
             seen : Nat,               \* the last_sync_at the Pi reported
             req : Request,
             changes : Table,          \* server_bag_changes, server_item_changes
             conflicts : [Items -> Row]]

Idle == [pc |-> "idle", synced |-> FALSE, seen |-> 0,
         req |-> NoRequest, changes |-> NoRows, conflicts |-> NoConflicts]

TypeOK ==
    /\ clock \in Nat
    /\ pi \in Table
    /\ lastSync \in Nat
    /\ room \in [Phones -> Table]
    /\ base \in [Phones -> Nat]
    /\ conf \in [Phones -> [Items -> Row]]
    /\ job \in [Jobs -> JobState]
    /\ late \subseteq Request

\* Every phone has just paired: it holds the bag's row, no item, baseline 0.
\* The Pi may have items already.
Init ==
    /\ clock = 1
    /\ \E v \in Vals, known \in SUBSET Items :
          pi = [r \in Rows |-> IF r \in known \cup {Bag}
                               THEN [NoRow EXCEPT !.t = 1, !.val = v]
                               ELSE NoRow]
    /\ lastSync = 0
    /\ room = [p \in Phones |-> [NoRows EXCEPT ![Bag] = pi[Bag]]]
    /\ base = [p \in Phones |-> 0]
    /\ conf = [p \in Phones |-> NoConflicts]
    /\ job = [j \in Jobs |-> Idle]
    /\ late = {}

-----------------------------------------------------------------------------
(* Edits.  Each one takes a new time stamp. *)

Tick == clock < MaxTime /\ clock' = clock + 1

Settled(p) == \A j \in Jobs : Owner[j] = p => job[j].pc = "idle"
Syncing(p) == \E j \in Jobs \ Pollers : Owner[j] = p /\ job[j].pc # "idle"
UserMayEdit(p) == "busy" \in Faults \/ ~Syncing(p)

\* Identifiers are fresh UUIDs: a new item is known nowhere.
Fresh(i) == ~Exists(pi[i]) /\ \A p \in Phones : ~Exists(room[p][i])

Visible(p, i) == Exists(room[p][i]) /\ ~room[p][i].deleted

\* Wrong: an edit of an existing row keeps updated_at.
StoreUnstamped(p, r, row) ==
    /\ room' = [room EXCEPT ![p][r] = IF Exists(row) THEN row ELSE [row EXCEPT !.t = clock']]
    /\ UNCHANGED <<pi, lastSync, base, job, late>>

StoreOnPhone(p, r, row) ==
    /\ room' = [room EXCEPT ![p][r] = [row EXCEPT !.t = clock']]
    /\ UNCHANGED <<pi, lastSync, base, job, late>>

\* save_item: a new item, or new contents for a visible one.  An item that turns
\* out to equal another is merged into it: the other is saved, and packed if
\* either was; then the item is deleted (PhoneDelete).
PhoneSave(p, i) ==
    /\ UserMayEdit(p)
    /\ Fresh(i) \/ Visible(p, i)
    /\ Tick
    /\ \E v \in Vals, k \in {FALSE, Visible(p, i)} :
          StoreOnPhone(p, i, [room[p][i] EXCEPT !.val = v, !.packed = @ \/ k])
    /\ UNCHANGED conf

\* toggle_packed in the inventory, toggle in check mode.
PhoneToggle(p, i) ==
    /\ UserMayEdit(p)
    /\ Visible(p, i)
    /\ Tick
    /\ StoreOnPhone(p, i, [room[p][i] EXCEPT !.packed = ~@])
    /\ UNCHANGED conf

\* delete_item is a soft delete.
PhoneDelete(p, i) ==
    /\ UserMayEdit(p)
    /\ Visible(p, i)
    /\ Tick
    /\ StoreOnPhone(p, i, [room[p][i] EXCEPT !.deleted = TRUE])
    /\ UNCHANGED conf

\* save_primary_bag: name and size.
PhoneBagEdit(p) ==
    /\ UserMayEdit(p)
    /\ Tick
    /\ \E v \in Vals : StoreOnPhone(p, Bag, [room[p][Bag] EXCEPT !.val = v])
    /\ UNCHANGED conf

StoreOnPi(r, row) ==
    /\ pi' = [pi EXCEPT ![r] = [row EXCEPT !.t = clock']]
    /\ UNCHANGED <<lastSync, room, base, conf, job, late>>

\* create_item and update_item end in write_item_record: deleted becomes 0.  If
\* they merge two items, a PiDelete follows.
PiWrite(i) ==
    /\ Fresh(i) \/ Exists(pi[i])
    /\ Tick
    /\ \E v \in Vals, k \in BOOLEAN :
          StoreOnPi(i, [pi[i] EXCEPT !.val = v, !.packed = k, !.deleted = FALSE])

PiDelete(i) ==
    /\ Exists(pi[i])
    /\ Tick
    /\ StoreOnPi(i, [pi[i] EXCEPT !.deleted = TRUE])

PiBagEdit ==
    /\ Tick
    /\ \E v \in Vals : StoreOnPi(Bag, [pi[Bag] EXCEPT !.val = v])

-----------------------------------------------------------------------------
(* Resolving a conflict.  Every choice forgets the conflict. *)

Resolvable(p, i) == UserMayEdit(p) /\ Exists(conf[p][i])
Forget(p, i) == conf' = [conf EXCEPT ![p][i] = NoRow]

KeepPhone(p, i) ==
    /\ Resolvable(p, i)
    /\ Tick
    /\ IF Exists(room[p][i])
       THEN StoreOnPhone(p, i, room[p][i])
       ELSE UNCHANGED <<room, pi, lastSync, base, job, late>>
    /\ Forget(p, i)

\* The Pi's version is stored under its own time stamp.
KeepPi(p, i) ==
    /\ Resolvable(p, i)
    /\ room' = [room EXCEPT ![p][i] = conf[p][i]]
    /\ Forget(p, i)
    /\ UNCHANGED <<clock, pi, lastSync, base, job, late>>

KeepDeleted(p, i) ==
    /\ Resolvable(p, i)
    /\ Tick
    /\ StoreOnPhone(p, i, [conf[p][i] EXCEPT !.deleted = TRUE])
    /\ Forget(p, i)

Restore(p, i) ==
    /\ Resolvable(p, i)
    /\ Tick
    /\ StoreOnPhone(p, i, [conf[p][i] EXCEPT !.deleted = FALSE])
    /\ Forget(p, i)

Resolve(p, i) == KeepPhone(p, i) \/ KeepPi(p, i) \/ KeepDeleted(p, i) \/ Restore(p, i)

-----------------------------------------------------------------------------
(* A job.  It is suspended between any two of these steps. *)

Become(j, state) == job' = [job EXCEPT ![j] = state]

\* refresh_current_connection reads the phone's state before it asks the Pi.
BeginRefresh(j, from) ==
    /\ job[j].pc = from
    /\ Become(j, [Idle EXCEPT !.pc = "probing", !.synced = base[Owner[j]] > 0])
    /\ UNCHANGED <<clock, pi, lastSync, room, base, conf, late>>

StartPoll(j) == j \in Pollers /\ BeginRefresh(j, "idle")

MaySync(j) ==
    /\ j \notin Pollers
    /\ "overlap" \in Faults \/ ~Syncing(Owner[j])
    /\ "unresolved" \in Faults \/ conf[Owner[j]] = NoConflicts

StartSync(j) == MaySync(j) /\ BeginRefresh(j, "idle")

\* perform_pairing with the bag the phone has already: the bag's row is stored
\* as the Pi sends it, the baseline is 0 again, and a sync follows.
RePair(j) ==
    LET p == Owner[j] IN
    /\ "repair" \in Faults
    /\ MaySync(j)
    /\ job[j].pc = "idle"
    /\ room' = [room EXCEPT ![p][Bag] = pi[Bag]]
    /\ base' = [base EXCEPT ![p] = 0]
    /\ Become(j, [Idle EXCEPT !.pc = "paired"])
    /\ UNCHANGED <<clock, pi, lastSync, conf, late>>

FirstSync(j) == BeginRefresh(j, "paired")

\* GET /device/status on the Pi.
AnswerStatus(j) ==
    /\ job[j].pc = "probing"
    /\ Become(j, [job[j] EXCEPT !.pc = "probed", !.seen = lastSync])
    /\ UNCHANGED <<clock, pi, lastSync, room, base, conf, late>>

\* apply_success: the phone's baseline becomes the Pi's last sync time,
\* unless the baseline was 0 when the refresh began (currentSyncAt).
ApplySuccess(j) ==
    LET p == Owner[j] IN
    /\ job[j].pc = "probed"
    /\ base' = IF job[j].synced THEN [base EXCEPT ![p] = job[j].seen] ELSE base
    /\ Become(j, IF j \in Pollers THEN Idle ELSE [Idle EXCEPT !.pc = "collecting"])
    /\ UNCHANGED <<clock, pi, lastSync, room, conf, late>>

\* Wrong: one less, to make the comparison inclusive.
InclusiveBaseline(p) == base[p] - 1

\* The baseline of the request: 0, to pull everything, if Room has no item.
SyncBaseline(p) ==
    IF \A i \in Items : ~Exists(room[p][i]) THEN 0 ELSE base[p]

ChangedSince(tbl, ls) == [r \in Rows |-> IF tbl[r].t > ls THEN tbl[r] ELSE NoRow]

CollectAndSend(j) ==
    LET p == Owner[j]
        ls == SyncBaseline(p)
    IN  /\ job[j].pc = "collecting"
        /\ Become(j, [job[j] EXCEPT !.pc = "sent",
                          !.req = [ls |-> ls, sent |-> ChangedSince(room[p], ls)]])
        /\ UNCHANGED <<clock, pi, lastSync, room, base, conf, late>>

\* The Pi runs a request in one transaction.  Only a realigned bag row is an
\* edit with a time stamp of its own.
SyncTime(q) == IF Realigns(pi[Bag], q.sent[Bag]) THEN clock + 1 ELSE clock

RunRequest(q) ==
    LET now == SyncTime(q) IN
    /\ now <= LastTime
    /\ clock' = now
    /\ lastSync' = now
    /\ pi' = PiAfter(q, pi, now)

PiSync(j) ==
    LET q == job[j].req IN
    /\ job[j].pc = "sent"
    /\ RunRequest(q)
    /\ Become(j, [job[j] EXCEPT !.pc = "answered",
                      !.seen = lastSync', !.req.sent = NoRows,
                      !.changes = ServerChanges(q, pi, lastSync'),
                      !.conflicts = ServerConflicts(q, pi)])
    /\ UNCHANGED <<room, base, conf, late>>

\* A relay held the request, and the Pi runs it after the phone gave up; the
\* relay may hand it out again.
PiLateSync(q) ==
    /\ q \in late
    /\ RunRequest(q)
    /\ late' \in {late, late \ {q}}
    /\ UNCHANGED <<room, base, conf, job>>

\* apply_server_item and apply_server_bag read the local row first ...
ReadLocalRows(j) ==
    LET tbl == room[Owner[j]] IN
    /\ job[j].pc = "answered"
    /\ Become(j, [job[j] EXCEPT !.pc = "applying", !.req = NoRequest,
                      !.changes = [r \in Rows |-> IF tbl[r].t <= job[j].req.ls
                                                  THEN @[r] ELSE NoRow]])
    /\ UNCHANGED <<clock, pi, lastSync, room, base, conf, late>>

\* ... and then write.
StoreRows(j) ==
    LET p == Owner[j]
        new == job[j].changes
    IN  /\ job[j].pc = "applying"
        /\ room' = [room EXCEPT ![p] =
                      [r \in Rows |-> IF Exists(new[r]) THEN new[r] ELSE @[r]]]
        /\ Become(j, [job[j] EXCEPT !.pc = "merged", !.changes = NoRows])
        /\ UNCHANGED <<clock, pi, lastSync, base, conf, late>>

\* The conflicts of the reply replace the stored ones.
StoreConflicts(j) ==
    /\ job[j].pc = "merged"
    /\ conf' = [conf EXCEPT ![Owner[j]] = job[j].conflicts]
    /\ Become(j, [job[j] EXCEPT !.pc = "stored", !.conflicts = NoConflicts])
    /\ UNCHANGED <<clock, pi, lastSync, room, base, late>>

\* Wrong: the phone takes its own time.
FinishAtPhoneTime(j) ==
    /\ job[j].pc = "stored"
    /\ Become(j, [job[j] EXCEPT !.pc = "fetched", !.seen = clock])
    /\ UNCHANGED <<clock, pi, lastSync, room, base, conf, late>>

\* GET /sync/status: the Pi's last sync time, or, if the call fails, the
\* server_time_ms of the reply.
FetchSyncStatus(j) ==
    /\ job[j].pc = "stored"
    /\ \E at \in {lastSync, job[j].seen} :
          Become(j, [job[j] EXCEPT !.pc = "fetched", !.seen = at])
    /\ UNCHANGED <<clock, pi, lastSync, room, base, conf, late>>

FinishSync(j) ==
    /\ job[j].pc = "fetched"
    /\ base' = [base EXCEPT ![Owner[j]] = job[j].seen]
    /\ Become(j, Idle)
    /\ UNCHANGED <<clock, pi, lastSync, room, conf, late>>

\* No endpoint answers, or the request does not get through.
CallFails(j) ==
    /\ job[j].pc \in {"probing", "sent"}
    /\ Become(j, Idle)
    /\ UNCHANGED <<clock, pi, lastSync, room, base, conf, late>>

\* The phone times out on a request that is still queued somewhere.
CallTimesOut(j) ==
    /\ "late" \in Faults
    /\ job[j].pc = "sent"
    /\ Cardinality(late) < MaxLate
    /\ late' = late \cup {job[j].req}
    /\ Become(j, Idle)
    /\ UNCHANGED <<clock, pi, lastSync, room, base, conf>>

\* The reply is lost, or the app is killed before it has used all of it.
Abandon(j) ==
    /\ "loss" \in Faults
    /\ job[j].pc \in {"paired", "answered", "applying", "merged", "stored", "fetched"}
    /\ Become(j, Idle)
    /\ UNCHANGED <<clock, pi, lastSync, room, base, conf, late>>

-----------------------------------------------------------------------------
PhoneEdit(p) ==
    \/ PhoneBagEdit(p)
    \/ \E i \in Items : PhoneSave(p, i) \/ PhoneToggle(p, i) \/ PhoneDelete(p, i)

PiEdit == PiBagEdit \/ \E i \in Items : PiWrite(i) \/ PiDelete(i)

JobStep(j) ==
    \/ FirstSync(j) \/ AnswerStatus(j) \/ ApplySuccess(j) \/ CollectAndSend(j) \/ PiSync(j)
    \/ ReadLocalRows(j) \/ StoreRows(j) \/ StoreConflicts(j) \/ FetchSyncStatus(j) \/ FinishSync(j)

Failure(j) == CallFails(j) \/ CallTimesOut(j) \/ Abandon(j)

Next ==
    \/ PiEdit
    \/ \E p \in Phones : PhoneEdit(p) \/ \E i \in Items : Resolve(p, i)
    \/ \E j \in Jobs : StartPoll(j) \/ StartSync(j) \/ RePair(j) \/ JobStep(j) \/ Failure(j)
    \/ \E q \in late : PiLateSync(q)

Spec == Init /\ [][Next]_vars

\* What the app and its user keep doing: a running job gets on, a network
\* call does not fail for ever, sync is run again and again (each edit runs
\* it), and a conflict on the screen is resolved.
Fairness ==
    /\ \A j \in Jobs : /\ WF_vars(JobStep(j))
                       /\ SF_vars(StartSync(j))
                       /\ SF_vars(AnswerStatus(j))
                       /\ SF_vars(PiSync(j))
    /\ \A p \in Phones, i \in Items : SF_vars(Resolve(p, i))

FairSpec == Spec /\ Fairness

-----------------------------------------------------------------------------
(* What sync must guarantee. *)

\* Will row r of phone p be compared by a later sync?  It is if the phone's copy
\* is newer than its baseline (the next sync collects it), if the Pi's copy is
\* (the next sync sends it), or if the user still sees a conflict on it.
StillExchanged(p, r) ==
    \/ room[p][r].t > base[p]
    \/ pi[r].t > base[p]
    \/ r \in Items /\ Exists(conf[p][r])

SameBarPacked(a, b) == a.val = b.val /\ a.deleted = b.deleted

\* Once the jobs of a phone are idle, a row whose contents or deletion differ
\* between phone and Pi is still going to be exchanged: "later sync attempts can
\* push those pending changes" (SYNC_AND_PAIRING.md).  Otherwise no later sync
\* looks at the row, and the edit made on one side never reaches the other.
NoEditStranded ==
    \A p \in Phones : Settled(p) =>
        \A r \in Rows : SameBarPacked(room[p][r], pi[r]) \/ StillExchanged(p, r)

\* A finished sync leaves nothing to do: as long as neither side edits, a phone
\* at rest with no conflict left has what the Pi has.
UpToDateAfterSync ==
    \A p \in Phones : Settled(p) /\ conf[p] = NoConflicts /\ lastSync = clock =>
        \A r \in Rows : SameBarPacked(room[p][r], pi[r])

\* The same for the packed flag, which both sides may change between two syncs
\* and the later change wins (auto-resolved as packed_latest_wins).
NoPackedFlagStranded ==
    \A p \in Phones : Settled(p) =>
        \A i \in Items : OnlyPackedDiffers(room[p][i], pi[i]) => StillExchanged(p, i)

\* The edits stop and the app keeps syncing: from some time on every phone has
\* the contents the Pi has and no conflict (offline edits and reconnection).
EventuallyConverged ==
    <>[](\A p \in Phones : /\ conf[p] = NoConflicts
                           /\ \A r \in Rows : SameBarPacked(room[p][r], pi[r]))

\* No request, whenever it arrives and however often, rolls an item of the Pi
\* back: apart from an edit at the Pi itself, a row only ever gives way to one
\* with a later time stamp.
ItemsOnlyAdvance ==
    [][\A i \in Items : \/ pi'[i] = pi[i]
                        \/ pi'[i].t > pi[i].t
                        \/ PiEdit]_vars

\* A phone's baseline never runs ahead of the Pi's last sync: otherwise the
\* phone would tell the Pi to skip rows no sync has ever compared.  The same
\* holds for every time a job carries between two of its steps.
BaselineBehindPi ==
    /\ lastSync <= clock
    /\ \A p \in Phones : base[p] <= lastSync
    /\ \A j \in Jobs : job[j].seen <= lastSync /\ job[j].req.ls <= lastSync
    /\ \A q \in late : q.ls <= lastSync

\* "Preserve the zero baseline for the first sync after pairing or re-pairing"
\* (PiConnectionManager.kt): once a phone's baseline is 0, so that everything is
\* exchanged, only the end of a sync may give it another value.
ZeroBaselineKept ==
    [][\A p \in Phones : base[p] = 0 /\ base'[p] # 0 =>
          \E j \in Jobs : Owner[j] = p /\ FinishSync(j)]_vars

\* Every copy of row r anywhere in the system.
Copies(r) ==
    {pi[r]} \cup {room[p][r] : p \in Phones}
            \cup {job[j].req.sent[r] : j \in Jobs} \cup {job[j].changes[r] : j \in Jobs}
            \cup {q.sent[r] : q \in late}

\* Two copies of an item with the same updated_at have the same contents: the
\* comparisons of the protocol look at nothing else to tell versions apart, so
\* if this failed two replicas could differ and both count as up to date.
StampNamesVersion ==
    \A i \in Items :
        LET all == Copies(i) \cup {conf[p][i] : p \in Phones}
                             \cup {job[j].conflicts[i] : j \in Jobs}
        IN  \A a, b \in all : a.t = b.t => a = b

=============================================================================
