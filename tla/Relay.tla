------------------------------- MODULE Relay --------------------------------
(***************************************************************************)
(* The relay server: a phone's HTTP call is queued as a row of a database, *)
(* the Pi fetches it by long polling and posts the answer, and the thread  *)
(* that serves the phone waits for the row to change.                      *)
(*                                                                         *)
(* A request is a row (row[r]), the relay's thread that serves the phone's *)
(* call (call[r]) and the phone's own view (phone[r]).  Every `with        *)
(* db_conn()` block holds one lock, so it is one step.  Several polls of   *)
(* the Pi can be open: a poll whose client is gone goes on as a ghost.     *)
(*                                                                         *)
(* Time passes in ticks.  A waiting thread looks at its row every 150 ms,  *)
(* far less than a tick, so a tick never passes its deadline.              *)
(***************************************************************************)
EXTENDS Naturals

CONSTANTS
    Requests,
    Timeout,     \* REQUEST_TIMEOUT_MS
    Lease,       \* REQUEST_LEASE_MS
    Window,      \* PI_ONLINE_WINDOW_MS
    PollTime,    \* poll_timeout_ms of the Pi
    Retention,   \* REQUEST_RETENTION_MS
    MaxTime      \* bound on the clock

\* The defaults (25 s, 30 s, 1 h) keep these relations; nothing else does.
ASSUME TimesAssumption ==
    /\ Timeout \in Nat /\ Lease \in Nat /\ Window \in Nat /\ PollTime \in Nat
    /\ Retention \in Nat /\ MaxTime \in Nat
    /\ Timeout < Lease /\ Timeout <= Retention

VARIABLES
    now,
    seen,    \* last_seen_at of the Pi
    row,     \* relay_requests
    call,    \* the thread in proxy_request
    phone,   \* what the phone knows of its call
    poll,    \* deadlines of the open polls, 0 for none
    pi,      \* the thread of RelayClientManager
    ran      \* how often the Pi ran the request

vars == <<now, seen, row, call, phone, poll, pi, ran>>

Handlers == {"live", "ghost"}
Entry == [status : {"none", "pending", "responded", "expired"},
          created : Nat, updated : Nat, lease : Nat, body : {"none", "done", "refused"}]
NoEntry == [status |-> "none", created |-> 0, updated |-> 0, lease |-> 0, body |-> "none"]

PiIdle == {[pc |-> "idle"]}
PiState == PiIdle \cup [pc : {"handed"}, r : Requests]
                  \cup [pc : {"ready"}, r : Requests, body : {"done", "refused"}]

TypeOK ==
    /\ now \in Nat
    /\ seen \in Nat
    /\ row \in [Requests -> Entry]
    /\ call \in [Requests -> [pc : {"idle", "queued", "waiting", "returned", "lost"}, deadline : Nat]]
    /\ phone \in [Requests -> {"unsent", "offline", "open", "done", "refused", "failed"}]
    /\ poll \in [Handlers -> Nat]
    /\ pi \in PiState
    /\ ran \in [Requests -> Nat]

\* The Pi is offline, or it was just seen.
Init ==
    /\ now = Window + 1
    /\ seen \in {0, now}
    /\ row = [r \in Requests |-> NoEntry]
    /\ call = [r \in Requests |-> [pc |-> "idle", deadline |-> 0]]
    /\ phone = [r \in Requests |-> "unsent"]
    /\ poll = [h \in Handlers |-> 0]
    /\ pi = [pc |-> "idle"]
    /\ ran = [r \in Requests |-> 0]

Online == now <= seen + Window

Tick ==
    /\ now < MaxTime
    /\ \A r \in Requests : /\ call[r].pc # "queued"
                           /\ call[r].pc = "waiting" => now < call[r].deadline
    /\ now' = now + 1
    /\ UNCHANGED <<seen, row, call, phone, poll, pi, ran>>

\* cleanup_old_requests
Kept == [r \in Requests |->
            IF row[r].status # "pending" /\ row[r].updated + Retention < now
            THEN NoEntry ELSE row[r]]

-----------------------------------------------------------------------------
(* A phone's call: enqueue_request, then wait_for_response. *)

Enqueue(r) ==
    /\ phone[r] = "unsent"
    /\ now + Timeout <= MaxTime
    /\ Online
    /\ row' = [Kept EXCEPT ![r] = [NoEntry EXCEPT !.status = "pending",
                                                  !.created = now, !.updated = now]]
    /\ call' = [call EXCEPT ![r].pc = "queued"]
    /\ phone' = [phone EXCEPT ![r] = "open"]
    /\ UNCHANGED <<now, seen, poll, pi, ran>>

\* 503; the old requests are deleted all the same.
Refuse(r) ==
    /\ phone[r] = "unsent"
    /\ ~Online
    /\ row' = Kept
    /\ call' = [call EXCEPT ![r].pc = "returned"]
    /\ phone' = [phone EXCEPT ![r] = "offline"]
    /\ UNCHANGED <<now, seen, poll, pi, ran>>

StartWait(r) ==
    /\ call[r].pc = "queued"
    /\ call' = [call EXCEPT ![r] = [pc |-> "waiting", deadline |-> now + Timeout]]
    /\ UNCHANGED <<now, seen, row, phone, poll, pi, ran>>

\* The thread ends; the phone hears of it if it still listens.
Return(r, answer) ==
    /\ call' = [call EXCEPT ![r].pc = "returned"]
    /\ phone' = [phone EXCEPT ![r] = IF @ = "open" THEN answer ELSE @]
    /\ UNCHANGED <<now, seen, poll, pi, ran>>

Expire(r) == row' = [row EXCEPT ![r].status = "expired", ![r].updated = now]

\* The last look before the deadline may still come after it.
SeeAnswer(r) ==
    /\ call[r].pc = "waiting"
    /\ row[r].status = "responded"
    /\ Return(r, row[r].body)
    /\ UNCHANGED row

SeeOffline(r) ==
    /\ call[r].pc = "waiting"
    /\ row[r].status = "pending"
    /\ ~Online
    /\ Expire(r)
    /\ Return(r, "failed")

\* Wrong: the row stays pending.
GiveUpSilently(r) ==
    /\ call[r].pc = "waiting"
    /\ now >= call[r].deadline
    /\ Return(r, "failed")
    /\ UNCHANGED row

\* Wrong: only while the phone is connected.
GiveUpIfHeard(r) ==
    /\ call[r].pc = "waiting"
    /\ phone[r] = "open"
    /\ now >= call[r].deadline
    /\ Expire(r)
    /\ Return(r, "failed")

\* Expires the row even if the answer has just arrived.
GiveUp(r) ==
    /\ call[r].pc = "waiting"
    /\ now >= call[r].deadline
    /\ Expire(r)
    /\ Return(r, "failed")

\* The app's read timeout is shorter than the relay's, and connections break;
\* the relay's thread does not notice.
PhoneHangsUp(r) ==
    /\ phone[r] = "open"
    /\ phone' = [phone EXCEPT ![r] = "failed"]
    /\ UNCHANGED <<now, seen, row, call, poll, pi, ran>>

-----------------------------------------------------------------------------
(* The Pi: RelayClientManager, and pi_poll and pi_respond of the relay. *)

Poll ==
    /\ pi.pc = "idle" /\ poll["live"] = 0
    /\ poll' = [poll EXCEPT !["live"] = now + PollTime]
    /\ seen' = now
    /\ row' = Kept
    /\ UNCHANGED <<now, call, phone, pi, ran>>

\* Wrong: leases are not looked at.
LeasedToo == {r \in Requests : row[r].status = "pending"}

Claimable == {r \in Requests : row[r].status = "pending" /\ row[r].lease <= now}

\* A poll, whose client may be gone, takes the oldest request.
Claim(h, r) ==
    /\ poll[h] > 0
    /\ r \in Claimable
    /\ \A q \in Claimable : row[r].created <= row[q].created
    /\ row' = [row EXCEPT ![r].lease = now + Lease, ![r].updated = now]
    /\ seen' = now
    /\ poll' = [poll EXCEPT ![h] = 0]
    /\ pi' = IF h = "live" THEN [pc |-> "handed", r |-> r] ELSE pi
    /\ UNCHANGED <<now, call, phone, ran>>

FindNothing(h) ==
    /\ poll[h] > 0
    /\ Claimable = {}
    /\ seen' = now
    /\ poll' = [poll EXCEPT ![h] = IF now >= @ THEN 0 ELSE @]
    /\ UNCHANGED <<now, row, call, phone, pi, ran>>

\* relay_sync_payload and its siblings: the Pi checks the phone's token first.
Execute ==
    /\ pi.pc = "handed"
    /\ ran' = [ran EXCEPT ![pi.r] = @ + 1]
    /\ pi' = [pc |-> "ready", r |-> pi.r, body |-> "done"]
    /\ UNCHANGED <<now, seen, row, call, phone, poll>>

Reject ==
    /\ pi.pc = "handed"
    /\ pi' = [pc |-> "ready", r |-> pi.r, body |-> "refused"]
    /\ UNCHANGED <<now, seen, row, call, phone, poll, ran>>

\* Wrong: a status the waiting thread does not know.
RespondUnknown ==
    /\ pi.pc = "ready"
    /\ row' = [row EXCEPT ![pi.r].status = "done"]
    /\ seen' = now
    /\ pi' = [pc |-> "idle"]
    /\ UNCHANGED <<now, call, phone, poll, ran>>

\* Answers even an expired row; 404 if the row has been deleted.
Respond ==
    /\ pi.pc = "ready"
    /\ row' = IF row[pi.r].status = "none" THEN row
              ELSE [row EXCEPT ![pi.r] = [@ EXCEPT !.status = "responded", !.body = pi.body,
                                                   !.updated = now, !.lease = 0]]
    /\ seen' = now
    /\ pi' = [pc |-> "idle"]
    /\ UNCHANGED <<now, call, phone, poll, ran>>

\* A connection of the Pi breaks or its process restarts: it drops what it was
\* doing.  Bound: one ghost at a time.
PiDrops ==
    /\ pi.pc # "idle" \/ (poll["live"] > 0 /\ poll["ghost"] = 0)
    /\ pi' = [pc |-> "idle"]
    /\ poll' = IF poll["live"] > 0 THEN [live |-> 0, ghost |-> poll["live"]] ELSE poll
    /\ UNCHANGED <<now, seen, row, call, phone, ran>>

\* The database survives, the threads do not.
RelayRestarts ==
    /\ call' = [r \in Requests |-> IF call[r].pc \in {"queued", "waiting"}
                                   THEN [call[r] EXCEPT !.pc = "lost"] ELSE call[r]]
    /\ phone' = [r \in Requests |-> IF call'[r].pc = "lost" /\ phone[r] = "open"
                                    THEN "failed" ELSE phone[r]]
    /\ poll' = [h \in Handlers |-> 0]
    /\ UNCHANGED <<now, seen, row, pi, ran>>

-----------------------------------------------------------------------------
Serve(r) == StartWait(r) \/ SeeAnswer(r) \/ SeeOffline(r) \/ GiveUp(r)
PollStep(h) == FindNothing(h) \/ \E r \in Requests : Claim(h, r)

Next ==
    \/ Tick
    \/ \E r \in Requests : Enqueue(r) \/ Refuse(r) \/ Serve(r) \/ PhoneHangsUp(r)
    \/ Poll \/ Execute \/ Reject \/ Respond
    \/ \E h \in Handlers : PollStep(h)
    \/ PiDrops \/ RelayRestarts

Spec == Init /\ [][Next]_vars

\* The relay's clock and its threads keep running.  Nothing is assumed of the
\* Pi or of the phones.
FairSpec == Spec /\ WF_vars(Tick) /\ \A r \in Requests : WF_vars(Serve(r))

-----------------------------------------------------------------------------
\* A request that can still be handed out has a thread that will expire it,
\* and a thread that waits has a row that can still be answered: the row it
\* waits for is never deleted or expired under it.  Only the restart of the
\* relay leaves a pending row behind, which then stays for ever.
PendingIsAwaited ==
    \A r \in Requests :
        /\ row[r].status = "pending" => call[r].pc \in {"queued", "waiting", "lost"}
        /\ call[r].pc \in {"queued", "waiting"} => row[r].status \in {"pending", "responded"}

\* The relay keeps the promise of RemoteCall: polling, leases and ghosts run a
\* request at most once, the phone hears "done" only of a request that ran,
\* "refused" only of one that did not, and "offline" of one that never will.
Remote == INSTANCE RemoteCall WITH
    phase <- phone, runs <- ran, lost <- {r \in Requests : call[r].pc = "lost"}
AtMostOnce == Remote!Spec

\* Whatever the Pi and the phone do, no thread of the relay serves a call for
\* ever (a waiting call holds a thread of the server's pool).
CallsReturn ==
    \A r \in Requests : call[r].pc = "queued" ~> call[r].pc \in {"returned", "lost"}

=============================================================================
