# Go-Bag: a model of sync, relay, pairing and the Pi's devices

Go-Bag keeps the contents of an emergency bag on a Raspberry Pi (`pi-server`,
FastAPI and SQLite) and on Android phones (`android-app`, Room and DataStore).
A phone works offline and synchronises with the Pi through `POST /sync`, either
on the local network or through a relay (`relay-server`) that the Pi polls.
These modules model the sync protocol, the relay, pairing, the Pi's single bag,
its camera session and its weight sensors, check them with TLC, and prove the
main safety properties with TLAPS.

## 1. The system

| Component | State it keeps | Operations | What makes it correct | Module |
|---|---|---|---|---|
| Pi, `POST /sync` (`run_sync_request`) | rows `bags`, `items`; meta `last_sync_time_ms` | compare each row of the request with its own, take, send, report a conflict | a row is never replaced by an older one; a difference is taken, sent or reported | `SyncRows`, `BagSync` |
| Phone, sync engine (`run_sync_now`, `refresh_current_connection`) | Room rows, stored conflicts, `last_sync_at` (the baseline), local variables of each coroutine | refresh, collect, send, apply, store conflicts, set the baseline | no edit falls behind the baseline before it was exchanged; phone and Pi converge | `BagSync` |
| Phone, edits and conflict resolution | Room rows, conflicts | save, merge, toggle, delete, edit the bag; keep phone / Pi / deleted, restore | every version has its own time stamp | `BagSync` |
| Phone, status poll (`MainActivity`) | the baseline | every 5 s the refresh a sync starts with | does not disturb a sync or a pairing | `BagSync` |
| Phone, pairing; Pi, pair codes and tokens | paired bag, token; pair codes, tokens, connection status | pair by QR or code, unpair, revoke, check a token | one valid token per phone; the code on the screen lasts; a phone can always get a token | `Pairing`, `TokenRegistry` |
| Phone, conflict flag and auto sync | conflicts, `has_unresolved_conflicts`, `auto_sync_enabled` | set by syncs, resolutions, the user | no auto sync with conflicts | `PhoneFlags` |
| Phone, saved addresses | list of endpoints, active one | add, delete, choose, refresh | one active address; a working endpoint is found | - |
| Pi, local editing (`write_item_record`, `merge_or_write_item_record`, `write_bag_record`) | rows, SQLite's write lock | create, update, delete, merge equal items | merging loses no quantity | `BagSync`, `BagStore` |
| Pi, single bag (`ensure_single_bag`, `rename_bag_id`, `init_db`) | `bags`, `items.bag_id`, meta and settings | rename, fold extra bags, realign name and size | exactly one bag, no orphan item | `BagStore` |
| Relay server | `relay_requests`, `devices.last_seen_at`, a thread per call | enqueue, wait, poll, claim, respond, expire, clean up | a request runs at most once; every call ends | `Relay`, `RemoteCall` |
| Pi, relay client (`RelayClientManager`) | one thread | poll, run, respond | answers what it was handed | `Relay` |
| Pi, USB camera session (`UsbCameraSessionManager`) | session state, worker thread, stop event | start, stop, capture, decode | a page sees its own session; replaced workers end | `CameraSession`, `CameraPage` |
| Pi, weight sensors (`Esp32SensorSerialManager`); Arduino firmware | snapshot, text frame, open port, stored snapshot | read lines, mark stale, rotate among ports | a reading mixes no frames after a header; live means the open port; a sensor is found | `SensorLink` |
| Pi, readiness and alerts; `PreparednessRules.kt` | none (functions of the rows) | classify a bag | both sides agree | - |
| Pi, camera capture, QR, Wi-Fi, shutdown, dashboard; Android screens; installers | none of the protocol | device I/O, presentation | | - |

The parts meet in few places. A phone calls the Pi (`/device/status`, `/sync`,
`/sync/status`, `/pair`, `/unpair`), directly or as a row of the relay's queue.
Coroutines of one phone share Room and DataStore, and nothing makes them exclude
each other. Phones never talk to each other, but they share the Pi's
`last_sync_time_ms`. Request threads of the Pi share SQLite, which lets one
write at a time, and the two device managers, which have a lock each.
`PROJECT.json` lists the hazards of this code at their lines, with the
properties that cover them; a hazard without one says why.

## 2. Modules

| Module | Contents |
|---|---|
| `SyncRows` | the rows, the request, and the Pi's verdict on a pair of copies: `TakesItem`, `SendsItem`, `ConflictingItem`, `TakesBag`, `SendsBag`, `Aligned` |
| `BagSync` | phones, their coroutines and the Pi; edits, syncs, polls, pairing again, failures; all sync properties |
| `MCBagSync` | small instances of `BagSync` and their symmetries |
| `RemoteCall` | abstract: what a call through the relay promises |
| `Relay` | the relay and the Pi's client of it |
| `Pairing` | pair codes and tokens on the Pi, pairing, unpairing and refused syncs on the phones |
| `TokenRegistry` | abstract: what pairing promises about tokens |
| `BagStore` | tables `bags` and `items` of the Pi under overlapping handlers |
| `CameraSession` | the camera session and its worker threads |
| `CameraPage` | abstract: what a page may be shown of the camera's sessions |
| `SensorLink` | the reader thread of the weight sensors |
| `PhoneFlags` | conflicts, conflict flag and auto sync of a phone |
| `BagSyncProofs`, `BagStampProofs`, `BagQuietProofs`, `RelayProofs`, `PairingProofs`, `BagStoreProofs`, `CameraSessionProofs`, `SensorLinkProofs` | the proofs, section 4 |

Some definitions are preceded by a variant whose comment begins "Wrong:". It is
a plausible mistake in that piece of code; putting it in place of the definition
makes a property fail.

### SyncRows and BagSync

A row is its time stamp `t` (`updated_at`), the `packed` and `deleted` flags,
which the protocol treats specially, and `val` for all other columns; `t = 0`
means there is no row. The bag's profile is one more row.

| Model | Code |
|---|---|
| `pi`, `lastSync` | SQLite rows, meta `last_sync_time_ms` |
| `room`, `conf`, `base` | Room rows, Room conflicts, `last_sync_at` in DataStore |
| `job[j]` | one coroutine: `pc` is where it is suspended, the rest are the local variables it carries over |
| `late` | requests whose sender has given up |
| `clock` | the time; stamps of different edits differ |

A sync is the sequence `StartSync` (reads the state, before the network call),
`AnswerStatus` (on the Pi), `ApplySuccess` (moves the baseline),
`CollectAndSend`, `PiSync` (one SQLite transaction), `ReadLocalRows` and
`StoreRows` (the check and the write of `apply_server_item`), `StoreConflicts`,
`FetchSyncStatus`, `FinishSync`. A poll is its first three steps. `RePair`
stores the Pi's bag row and resets the baseline, and its first sync follows
(`FirstSync`). Between any two steps another job, an edit or the Pi may run.
A job fails (`CallFails`), times out and leaves its request behind
(`CallTimesOut`, then `PiLateSync`, any number of times) or is killed
(`Abandon`).

What the environment does beyond edits, polls and one sync at a time is a
constant, `Faults`, so that each property can be checked under exactly the
faults it survives, and the faults that break the others are visible:
`loss`, `late`, `busy` (edits during a sync), `overlap` (two syncs at once),
`unresolved` (a sync before conflicts are resolved), `repair` (pairing again).

### Relay and RemoteCall

| Model | Code |
|---|---|
| `row[r]` | a row of `relay_requests` |
| `call[r]` | the thread in `proxy_request` |
| `phone[r]` | what the phone knows of its call |
| `poll` | open long polls of the Pi, and one "ghost" whose client has gone |
| `pi` | the thread of `RelayClientManager` |
| `seen`, `now`, `ran` | `last_seen_at`, the clock, how often the Pi ran the request |

Every `with db_conn()` block holds the relay's one lock and is one action.
`Claim` writes the lease; `GiveUp` and `SeeOffline` expire the row even if an
answer has just arrived; `Respond` answers even an expired row; `RelayRestarts`
loses the threads and keeps the rows. `RemoteCall` is the promise: a request
runs at most once, "done" means it ran, "refused" that it did not, "offline"
that it never will, and "failed" says nothing. If the relay died during the call
the request may run any number of times: its row stays pending, nobody expires
it, and it is handed out each time its lease ends. This is what the fault
`late` of `BagSync` stands for.

### Pairing and TokenRegistry

| Model | Code |
|---|---|
| `codes`, `active`, `old` | `pair_codes`: how many were made, which are marked active, which of these have expired |
| `owner`, `live` | `tokens`, numbered in the order they were issued: the phone, and whether it is not revoked |
| `waiting` | `device_state.connection_status` is `waiting_for_pair` |
| `seen[t]` | what the status request of thread `t` has counted in `update_device_state`, before it writes |
| `read[p]`, `held[p]`, `refused[p]` | the code the user has read, the stored `auth_token`, the token whose refusal the app has shown |
| `calls` | `/pair`, `/unpair` and `/sync` requests and their replies; `heard` says whether the phone still waits |

Each handler of the Pi that changes the database is one action, since SQLite
runs one writing transaction at a time; `Admit` (`require_token`) is a separate
read before the handler, so a token may be revoked between the two.
`GET /device/status` and `GET /sync/status` are two actions: `CountTokens`, the
`SELECT` of `update_device_state`, which takes no lock, and `Report`, the `INSERT`
with what follows it in the same transaction. Dashboard, `/pair`, `/unpair`, sync
and admin routes write before they count, so they hold the lock and are one action
(`ShowPage`). A request that nothing overtakes is `Report` alone, with the count of
the moment (`Counted`). The probe of `StartPair` is such a request too. `GiveUp`
stands for every loss: the request or the reply is lost, or the request still
reaches the Pi, or is being run there. `unpair_bag` forgets the token however
the call ends (`Store`).

`TokenRegistry` knows nothing of codes, requests and replies: a bag grants
tokens, at most one valid for each phone (`valid <- TokenOf(p)`), and phones
come to hold tokens they were granted. A valid token ends by `Grant` to the same
phone, `Unpair`, `RevokeAll`, or the `Grant` to a phone with a stable id that
takes the place of phones with old ids.

### BagStore

| Model | Code |
|---|---|
| `bags`, `chosen`, `items` | the tables; meta `single_bag_id` and `settings.default_bag_id` |
| `lock` | SQLite's write lock |
| `work[t]` | what `merge_or_write_item_record` has read and is about to write in thread `t` |

`Init` is any database of an older version: several bags, rows spread over them,
a chosen bag that may be missing. `Startup` is `init_db`, `Sync` the part of
`run_sync_request` that settles the bag and stores a row, `SingleBag` the whole
of `ensure_single_bag`. `ReadItem` and `WriteItem` are the two halves of an edit.
A dashboard handler writes before it reads (`canonical_ui_bag_row` runs
`ensure_single_bag`), so it holds the lock between the halves; a REST handler
does not. `Kinds` says which handlers run.

### CameraSession and CameraPage

| Model | Code |
|---|---|
| `state` | `_state`; a frame, code or error is the session whose worker stored it |
| `installed`, `told` | `_thread` with its `_stop_event`; the events that are set |
| `worker[s]` | the point of `_capture_loop` the worker of `s` is at |
| `call[c]` | the point of `start` or `stop` a thread is at |

`start` runs on the event loop, so it never overlaps itself; `stop` runs on
threads of the pool. Each `with self._lock` block is one action; capture, decode,
signal and join are outside. `Join` may end before the worker does (two
seconds), so two captures can overlap for a while.

`CameraPage` has no threads, only what a page is shown and which sessions have
begun (their worker exists or is about to be spawned): a session is opened once,
and only while nothing is shown; it is photographed while it runs; it ends with
one result, of its own; and it is closed. Everything the threads do on the way
is a stutter.

### SensorLink

| Model | Code |
|---|---|
| `plugged`, `sends`, `line` | the serial devices; the format each ESP32 sends; the next line of a text frame |
| `leftover` | the next line was received between `reset_input_buffer` and the reset |
| `headed` | history: a header has been read since the port was opened |
| `at`, `next`, `port`, `silent` | where `_run_loop` is, `_next_serial_port_index`, the open port, the time since it gave anything |
| `frame` | `_text_frame`; a weight is `"this"` if it was read since the port was opened, `"earlier"` if not |
| `snap`, `stored` | `_snapshot`, and its copy in the meta table |

A reading is `"whole"` if all its weights come from one frame and `"mixed"` if
not. `ReadReading`, `ReadStatus`, `ReadOther` and `ReadText` are the four things
`_ingest_serial_line` may do with a line. `Open` leaves open what comes first: a
header, if the reset worked at once; any line, if the reset is off or failed, as
`_reset_esp32_to_run_mode` swallows its errors; or some lines from before the
reset and then a header, since the buffer is emptied before it (`NextLine`). Time is
counted in empty reads.

### PhoneFlags

Each read or write of Room or DataStore by `run_sync_now`, by the four
resolutions and by `set_auto_sync` is one step of a coroutine; the flag and the
preference are written from what was read some steps before.

## 3. Runs

Runs that pass:

| Run | Instance | Shows |
|---|---|---|
| `QuietSync` | 1 phone, 1 sync job, 1 poll, pairing again; 3 edits | types; `NoEditStranded`, `UpToDateAfterSync` |
| `QuietLive` | 1 phone, 1 job, no faults, fairness | `EventuallyConverged` |
| `LateSync` | 1 phone, 2 overlapping jobs, lost replies and killed apps, 1 late request | `BaselineBehindPi`, `StampNamesVersion`, `ItemsOnlyAdvance` |
| `RelayCalls` | 2 calls, clock from 3 to 6, fairness | types, `PendingIsAwaited`, `AtMostOnce` (refinement), `CallsReturn` |
| `CameraSession` | 3 sessions, 1 stopping thread, fairness | types, `ShownOfSession`, `RunningHasWorker`, `NoWorkerForgotten`, `ReplacedWorkersEnd`, `OneSessionAfterAnother` (refinement of `CameraPage`) |
| `Pairing` | 2 phones (a stable id, an older app's id), 1 thread for status requests, 2 troubles, fairness | types, `LiveIsNewest`, `CodeLasts`, `WaitsOnlyIfStale`, `EventuallyPaired`, `EventuallyNotWaiting`, `TokensAreKept` (refinement of `TokenRegistry`) |
| `BagStore` | 2 bag ids, 3 items, 2 batches, 2 threads, dashboard handlers | types, `OneBag`, `NoOrphan`, `AddsCount` |
| `SensorLink` | 3 ports, 2 of them with an ESP32, 3 sections, 4 troubles, fairness | types, `LiveFromOpenPort`, `MixedOnlyAtFirst`, `EventuallyLive` |

Runs that find a violation, each of a sentence the repository writes about the
program (quoted in `PROJECT.json`, "findings"):

| Run | What happens |
|---|---|
| `PackedFlag` | The packed flag changed on both sides, last on the Pi. The Pi sends its row, the phone refuses it because its own is newer than the baseline, and the baseline passes both. |
| `OtherPhone` | Phone 1 edits offline; phone 2 syncs; phone 1's refresh copies the Pi's new sync time into its baseline, and the edit is never sent. |
| `RePairing` | A poll that waited for the Pi while the phone paired again restores the old baseline. |
| `AutoSync` | The user turns auto sync on; the switch finds no conflicts; a sync stores some and turns auto sync off; the switch turns it on. |

### Settings in which a property is known to fail

The passing runs are restricted where the code needs it, and each restriction is
a constant, so the failing setting is one edit of a `.cfg` away.

* `NoEditStranded` and `UpToDateAfterSync` hold in the quiet setting of
  `QuietSync`: one phone, no edit during a sync, no lost reply, no late request,
  one sync at a time, conflicts resolved before the next one. Section 4 proves
  both there; any one of the other `Faults`, or a second phone, makes TLC find
  an edit stranded, so the setting cannot be widened. With `"busy"` in
  `Faults`, an edit made after the rows were collected is older than the baseline
  the sync ends with (`GoBagSyncRepository.kt:257`). With `"unresolved"`, a sync
  run before the user has resolved a conflict deletes it, and the Pi does not
  report it again (`GoBagSyncRepository.kt:233`). With `"loss"`, the Pi runs a
  sync whose reply is lost, the next refresh copies that sync's time into the
  baseline (`PiConnectionManager.kt:263`), and the rows and conflicts of the lost
  reply are never sent again. `QuietSync` includes re-pairing
  with a racing poll, which does break the zero baseline (`RePairing`), and shows
  that this alone strands no edit.
* The bag row may go back in time: `run_sync_request` writes the name and size of
  the request's bag to the Pi before it compares the two (`main.py:5508`).
  `ItemsOnlyAdvance` is about items.
* `AddsCount` and `NoOrphan` hold for the dashboard's handlers. With
  `Kinds = {"ui", "rest"}` both fail: a REST handler reads the row to merge with,
  another request changes that row, renames the bag or deletes the row, and the
  handler writes what it computed. `pi-server/test_api.py:751` checks the merged
  quantity for requests that do not overlap. The Android app and the dashboard's
  own pages do not call these routes.
* That the bag never says it waits for a phone while one is paired
  (`~WrongStatus`, as `SYNC_AND_PAIRING.md:141` has it: "`waiting_for_pair`", "Pi
  has no active paired phone") is not so. A status request counts no tokens
  (`main.py:2698`), `POST /pair` stores one and commits, and the request writes
  `waiting_for_pair` (`main.py:2700`). `WaitsOnlyIfStale` says that nothing else
  leads there, and `EventuallyNotWaiting` that the status is put right.
* That every reading is of one frame is not so, even with
  `SENSOR_SERIAL_RESET_ON_OPEN`, the default: `_text_frame` keeps the weights of a
  frame that was cut off, and if the reset fails (`main.py:1023`) or lines were
  received before it (`main.py:1006` empties the buffer too early), lines from the
  middle of a frame complete it. `MixedOnlyAtFirst` says that this is over with
  the first header.
* `EventuallyLive` needs `OneFormat`: a frame of text left open by one ESP32
  makes the lines of JSON of the next one count as parts of it, for ever.

### Bounds

`MaxTime` and `LastTime` bound the clock of `BagSync`, that is the number of edits
(a realigned bag row also takes a step, hence two bounds); `MaxLate` the abandoned
requests. One item and the bag row suffice because the protocol treats rows
independently of each other; the only exception is the full pull of a phone
without items, which the single item exercises. Two values let contents be equal
or differ. The clock starts at 1, so `MaxTime = 4` allows three edits: one on
each side and the resolution of their conflict. `LateSync` allows two, one on
each side, and has one value: its properties compare stamps and copies, and
versions of an item still differ in the packed and deleted flags. Behaviours end when the clock stops, so these runs do not check for
deadlock.

In `Relay` the shortest constants with the order of the defaults (timeout below
lease and retention) are used, and the clock takes four ticks: enough for a call
to time out, for a lease to end after a restart of the relay, and for its request
to be handed out again. `Enqueue` stops early enough for the clock to reach each
deadline. One ghost poll at a time.

`MaxTrouble` bounds what goes wrong in `Pairing` (an expiry, an admin action, a
lost or late call, an unpairing, pairing without need, a status request that
others overtake between its count and its write) and in `SensorLink` (a
cable pulled or plugged, a failure, a section without a weight, a restart). Two
are enough for a lost reply and a second thing on top of it, such as an overtaken
status request; one thread keeps its count while any number of pairings, syncs and
pages go by. Four let a cable be
pulled in the middle of a frame, plugged in again and pulled elsewhere. In
`CameraSession` three sessions let a session be replaced while its predecessor
still captures. In `BagStore` three items are an edited row, its match and a
bystander, and `MaxQty = 3` lets two additions meet. None of these four runs
stops, so deadlock is checked.

### Fairness

`BagSync`: a started job gets on (weak), and a call that can succeed again and
again does at last, syncs are started again and again, since each edit and each
tap runs one, and a conflict on the screen is resolved at last (strong). Neither
edits nor polls nor failures are fair. `Relay`: its clock and the threads that
serve calls keep running (weak). Nothing is assumed of the Pi or the phones.
`CameraSession`: threads that can run do (weak); nobody has to start or stop.
`Pairing`: a user whose phone asks for pairing reads a code and sends it, paired
phones sync, requests are served and replies received (weak); `MaxTrouble` says
that trouble ends. `SensorLink`: the reader thread runs (weak), an ESP32 that is
being read goes on sending (strong, because reading is interrupted again and
again by the rotation among ports).

## 4. Proofs

Every theorem holds for all values of the constants that satisfy the named
assumptions: any number of phones, jobs, items, sessions, threads, ports,
sections, any bounds; for the relay, any number of requests and any times with
`Timeout < Lease` and `Timeout <= Retention`, which the defaults satisfy.

`BagSyncProofs`, `BagStampProofs`:

* `TypeCorrect` (`BagSync!TypeOK`): inductive as it stands.
* `BaselinesBehind` (`BaselineBehindPi`): inductive with `TypeOK`. The property
  already covers every place that can hold a time, the jobs and the late
  requests, because each feeds a baseline later. The lemmas say that the Pi's
  last sync time only grows and that each job step passes on times it was given.
* `ItemsAdvance` (`ItemsOnlyAdvance`): an action property. It rests on a lemma
  about `TakesItem`, that an item taken over an existing one has a later stamp:
  either the Pi's copy is not newer than the request's baseline and the phone's
  is, or the stamps are compared.
* `StampsNameVersions` (`StampNamesVersion`): the invariant is not inductive
  alone, since a new edit must get a stamp no copy has. `StampInv` adds that no
  copy anywhere is stamped later than the clock. Each action is then shown either
  to store one row under the next stamp, or to move copies around
  (`StampInvariant`, on which `UpToDateAfterSync` rests too).

`BagQuietProofs` proves `QuietPhoneStrandsNothing` (`NoEditStranded`) and
`QuietPhoneIsUpToDate` (`UpToDateAfterSync`) under `ASSUME Quiet`: of the faults
only pairing again, and no two phones; for any items, values, jobs, polls and
bound of the clock. Both properties speak of a phone at rest, so
neither is inductive: between two rests a sync carries what decides them in its
local variables. `QuietInv` says what those hold at each point:

* `OneSyncAtATime`: one sync job runs at most, polls never send one, and no
  abandoned request is under way.
* `BagRowLives`: no copy of the bag row, in a store or in a message, is deleted
  or stamped later than the clock.
* `ConflictsCurrent`: a conflict, stored or in a reply, is still the Pi's row, or
  the Pi has edited that row since the last sync. `NoConflictMeanwhile`: a sync
  that has begun finds none on the phone.
* `RequestCurrent`: a request on its way carries what the phone still has.
* `RowsAccounted`: while no reply is being stored, each row is `Pending`: equal on
  both sides, newer than the Pi's last sync on one of them, or in conflict. While
  one is being stored, the reply `Settles` each row that the Pi has not edited
  since: with the row it brings, with the phone's own, or with a conflict. The
  Pi's last sync time stands here for the phone's baseline, which never exceeds
  it (`BaselineBehindPi`) and may be raised to it by any refresh.

The heart is `RequestVerdict`: for a request that carries the phone's current
rows, each row on which the two sides differ is taken, sent, or reported as a
conflict (`ItemVerdict`, `ConflictVerdict`, `BagVerdict`, about the definitions of
`SyncRows`); so none is left behind the time of the sync. `ApplyQuiet` then
follows the reply through the phone, where the sync ends with every row pending
again. Since nothing depends on the value of the baseline but on its bound,
pairing again (`RePairQuiet`) and a poll that puts the old baseline back do no
harm. TLC checked `QuietInv` on the instance of `QuietSync` before it was proved.

`RelayProofs`:

* `RelayInvariant`: `RelayInv` strengthens `TypeOK` with, for every request, what
  is true of it before it is sent (`Untouched`), `PendingIsAwaited` (`Awaited`),
  that a waiting thread's deadline is at most `Timeout` after its row was written
  (`InTime`), that a row that has been handed out is leased beyond that deadline
  (`LeasedBeyond`), and what the phone's view says of the runs (`Truthful`).
  `LeasedBeyond` is the heart: with `Timeout < Lease` the thread expires the row
  before it can be handed out again. `RelayTypes` and `PendingRequestsAwaited`
  follow.
* `RelayImplementsRemoteCall` (`AtMostOnce`): initial states map to initial
  states, and under `RelayInv` every step is a step of `RemoteCall` or a stutter.
  `Execute` uses `RelayInv` to show that the request has not run or is lost.

`CameraSessionProofs`:

* `Invariance`: `CameraInv` adds to the properties which sessions can be known
  at all. `KnownHasWorker` says that a session anybody has seen has a worker or is
  being spawned, `PreparedUnborn` that a start prepares a session without one (so
  nobody has told it to stop), `VictimsOut` that a worker taken out by a call is
  not installed, `SpawningIsNoticed` that a session about to be spawned is
  installed, told or about to be told, and `StartHasTheCamera` that no worker is
  installed between the two locked parts of a start. `PagesShowOneSession`,
  `RunningIsServed` and `WorkersAreTold` follow.
* `CameraImplementsCameraPage` (`OneSessionAfterAnother`): a step that changes
  what is shown is one step of `CameraPage`, every other a stutter (`WorkShows`
  for the steps of a worker, which look at the session id under the lock). It
  adds `PageInv` to `CameraInv`: the session shown runs as long as its worker
  lives, a running session has no result yet, and nothing is shown between the two
  locked parts of a start. So a session is opened over an empty page only, and
  its id is new (`PreparedUnborn`).

`PairingProofs`:

* `Invariance`: `PairingInv` adds to the properties only that calls and stored
  tokens name codes and tokens that have been made (`CallsInRange`). That a live
  token is the newest of its phone is preserved because a pairing revokes the
  phone's own tokens in the transaction that issues the new one.
  `OneTokenPerPhone` follows.
* `WaitsForPairedOnlyIfStale` (`WaitsOnlyIfStale`): an action property, one step
  per action. Whoever writes the status writes it from the tokens as they are, but
  for `Report` with a count from before.
* `CodesLast` (`CodeLasts`): an action property, one step per action; only
  `NewCode` drops a code, and outside the admin route it runs when none is valid.
* `PairingImplementsTokenRegistry` (`TokensAreKept`): `RunPair` maps to `Grant`,
  `RunUnpair` to `Unpair`, the admin route to `RevokeAll`, and what a phone stores
  to `Hold`. From `LiveIsNewest` it follows that `TokenOf(p)` is the only valid
  token of `p` (`OneTokenOf`), so that a revocation of tokens is one of phones; and
  `RepliesAreOwn`, inductive with `TypeOK`, says that a reply carries a token of
  the phone that asked, however late it is.

`BagStoreProofs`:

* `TypeAndOneBag`, hence `TypeCorrect` and `BagIsSingle`, hold for all handlers.
* `Invariance`: for dashboard handlers only (`OnlyPages`), `StoreInv` adds that a
  thread between its halves has the lock (`ReadersLock`) and that what it read is
  still what is stored (`TasksFresh`). `ItemsHaveABag` and `AdditionsCount`
  follow; both are stated under `ASSUME OnlyPages`.

`SensorLinkProofs`:

* `LiveIsCurrent` (`LiveFromOpenPort`): inductive with `TypeOK`.
* `NoneMixedAfterHeader` (`MixedOnlyAtFirst`), with or without the reset: a mixed
  reading takes a weight from before the port was opened, and after a header the
  frame has none (`FrameOfOpenPort`), because a header starts an empty frame.

Only model-checked: the liveness properties `EventuallyConverged`, `CallsReturn`,
`ReplacedWorkersEnd`, `EventuallyPaired`, `EventuallyNotWaiting` and
`EventuallyLive` (the prover does not
handle fairness or `ENABLED`), and everything about the runs that find
violations. Every other property of a passing run is a theorem. No module uses
`RECURSIVE`, and no theorem needs induction over data: both are out of the
prover's reach.

## 5. Abstractions

`BagSync`, `Relay`:

* One clock. Phone and Pi stamp edits with clocks that may differ in reality;
  skew is a listed hazard and not modelled.
* Time advances with edits, so a sync happens at the time of the edit before it;
  two edits never share a millisecond.
* A reply's rows are read in one step and written in another, where the code
  alternates read and write row by row.
* A merge of two items is two edits, a save and a delete. On the phone it is two
  writes; on the Pi one transaction, so the model allows more.
* Pairing's calls are one action, followed by a sync job; tokens are in `Pairing`,
  so a call is never refused for its token in `BagSync`. In `Relay` a request may
  be refused (`Reject`).
* A phone has one paired bag; row filters by bag are then vacuous.
* The user edits the row as stored, where the screens copy the row they show.
* Readiness, alerts, notifications, connection labels and validation messages
  change no row and are left out. A request that fails validation is `CallFails`.
* In `Relay`, a waiting thread acts within the tick of its deadline; registration
  and secrets of a Pi are left out.

`Pairing`:

* Codes and tokens are numbers in the order they are made: two never coincide,
  and nobody guesses one. In the code a pair code is an earlier one with a small
  chance; the request then fails and changes nothing.
* `settings.last_connected_device` is not modelled. Two late requests that are
  equal in everything are one element of `calls`.
* A phone with several bags has a token for each; the model follows one bag.
* What the code does and the model shows: a sync admitted before a revocation
  still runs; an unpairing that reaches the Pi late revokes the token of a newer
  pairing of the same phone, and the phone has to pair again.

`BagStore`: a quantity is a small number and what makes a batch one value; notes,
flags and expiry are carried along with it. Which of several equal matches is
taken, and which bag is the fullest, is left open. A crash loses what has not
been committed.

`CameraSession`: a capture and a decoding either succeed, find nothing or fail;
frames are named by the session that captured them. Counters and time stamps of
frames are left out.

`SensorLink`: a weight is there or not. No header or footer is lost on an open
port, but for a footer that a reset prevents; a section's line may be. Ports without an ESP32 are silent: a port that
keeps sending other text would be read for ever, as the code resets its silence
on every line (`main.py:1237`). An unreadable line leaves a live reading live
(`ParseError`). A snapshot that could not be stored is ignored by the code, and
storing never fails in the model. `SENSOR_SERIAL_PORT` is the case of one port;
with the serial link disabled, `start` overwrites the restored reading, which is
not modelled.

`PhoneFlags`: the rows a resolution writes are in `BagSync`; here only the
conflict goes. A sync may bring any set of conflicts.

## 6. Not modelled

* Saved addresses and endpoint choice: each operation is one DataStore
  transaction, and the outcome depends on which addresses answer. What it does to
  the protocol, two stored copies of the baseline, is a listed hazard.
* Readiness, checklist and alerts: functions of the rows without state.
* QR and camera capture, Wi-Fi set-up: calls of external tools and parsing of
  their output. Kiosk, dashboard, shutdown, Android screens: presentation.
  Installers: shell scripts that run once.
* Registration of a Pi at the relay, templates, categories, settings: single
  writes that nothing else of the protocol reads.
* `.pi-test-deps` and other vendored code is not part of the program.

## 7. Plan

1. `Endpoints`: saved addresses, the choice of endpoint, the two stored
   baselines.
2. `BagSync`: an offset per phone's clock, and edits under equal stamps; a property that follows single edits,
   so that an overwritten edit is seen; `Relay` in place of the fault `late`.
3. `Readiness`: the rules of both sides as functions, compared with each other.
4. `Relay`: the bound on the threads of the pool.
5. Proofs: that `BagSync`'s late requests are those `RemoteCall` allows; an
   abstract specification of the single bag's quantities for `BagStore` to
   implement; one of the exchange of rows, which a phone and the Pi implement in
   the quiet setting.
