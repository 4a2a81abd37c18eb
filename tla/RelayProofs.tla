---------------------------- MODULE RelayProofs -----------------------------
(***************************************************************************)
(* Theorems about Relay, for every set of requests, every bound on the     *)
(* clock, and all times that keep TimesAssumption.                         *)
(*                                                                         *)
(* That a request runs at most once rests on an argument about time: a     *)
(* row that was handed out is leased beyond the deadline of the thread     *)
(* that waits for it, so the row is expired before it can be claimed       *)
(* again.                                                                  *)
(***************************************************************************)
EXTENDS Relay, TLAPS

\* Does the Pi's thread have request r in hand?
Held(r) == pi.pc # "idle" /\ pi.r = r

HandedOut(r) == Held(r) \/ ran[r] > 0

\* A request that was never accepted has left no trace.
Untouched(r) ==
    /\ phone[r] = "unsent" => call[r].pc = "idle"
    /\ phone[r] \in {"unsent", "offline"} =>
          row[r].status = "none" /\ ran[r] = 0 /\ ~Held(r)

\* A row and the thread that waits for it.
Awaited(r) ==
    /\ row[r].status = "pending" => call[r].pc \in {"queued", "waiting", "lost"}
    /\ call[r].pc \in {"queued", "waiting"} => row[r].status \in {"pending", "responded"}

\* A thread that waits is within its time, and its row is too young to be deleted.
InTime(r) ==
    /\ row[r].updated <= now
    /\ call[r].pc = "queued" => now <= row[r].updated
    /\ call[r].pc = "waiting" => /\ now <= call[r].deadline
                                 /\ call[r].deadline <= row[r].updated + Timeout

\* A request in hand, or one that ran, is leased until its thread has given up.
LeasedBeyond(r) ==
    row[r].status = "pending" /\ HandedOut(r) =>
        /\ call[r].pc = "queued" => now + Timeout < row[r].lease
        /\ call[r].pc = "waiting" => call[r].deadline < row[r].lease

\* What the Pi says of a request is true, and it says it once.
Truthful(r) ==
    /\ row[r].status = "responded" => row[r].body \in {"done", "refused"}
    /\ row[r].status = "responded" /\ row[r].body = "done" => ran[r] > 0
    /\ Held(r) /\ pi.pc = "ready" /\ pi.body = "done" => ran[r] > 0
    /\ call[r].pc # "lost" =>
          /\ row[r].status = "responded" /\ row[r].body = "refused" => ran[r] = 0
          /\ Held(r) => row[r].status # "responded"
          /\ Held(r) /\ pi.pc = "handed" => ran[r] = 0
          /\ Held(r) /\ pi.pc = "ready" /\ pi.body = "refused" => ran[r] = 0

RequestInv(r) == Untouched(r) /\ Awaited(r) /\ InTime(r) /\ LeasedBeyond(r) /\ Truthful(r)

RelayInv == TypeOK /\ \A r \in Requests : RequestInv(r)

-----------------------------------------------------------------------------
(* Facts used by several steps. *)

\* The types, field by field.
LEMMA Fields ==
    ASSUME TypeOK
    PROVE  /\ pi.pc \in {"idle", "handed", "ready"}
           /\ pi.pc # "idle" => pi.r \in Requests
           /\ pi.pc = "ready" => pi.body \in {"done", "refused"}
           /\ now \in Nat /\ seen \in Nat
           /\ \A r \in Requests :
                 /\ row[r] \in Entry
                 /\ row[r].created \in Nat /\ row[r].updated \in Nat /\ row[r].lease \in Nat
                 /\ call[r].deadline \in Nat /\ ran[r] \in Nat
           /\ \A h \in Handlers : poll[h] \in Nat
  BY DEF TypeOK, PiState, PiIdle, Entry

\* The cleanup deletes no row that is pending, and none that is waited for.
LEMMA KeptRows ==
    ASSUME RelayInv
    PROVE  /\ Kept \in [Requests -> Entry]
           /\ \A r \in Requests :
                 \/ Kept[r] = row[r]
                 \/ /\ Kept[r] = NoEntry
                    /\ row[r].status # "pending"
                    /\ call[r].pc \notin {"queued", "waiting"}
  <1>1. TypeOK
    BY DEF RelayInv
  <1>2. NoEntry \in Entry
    BY DEF NoEntry, Entry
  <1>3. Kept \in [Requests -> Entry]
    BY <1>1, <1>2 DEF Kept, TypeOK
  <1>4. ASSUME NEW r \in Requests, row[r].updated + Retention < now
        PROVE  call[r].pc \notin {"queued", "waiting"}
    <2>1. InTime(r)
      BY DEF RelayInv, RequestInv
    <2>2. row[r].updated \in Nat /\ now \in Nat /\ call[r].deadline \in Nat
      BY <1>1, Fields
    <2> QED
      BY <1>4, <2>1, <2>2, TimesAssumption DEF InTime
  <1> QED
    BY <1>3, <1>4 DEF Kept

\* A request that a step leaves alone, but for deleting its row, keeps its
\* invariant; the Pi may drop it.
LEMMA Untouching ==
    ASSUME RelayInv, NEW r \in Requests,
           now' = now, call'[r] = call[r], phone'[r] = phone[r], ran'[r] = ran[r],
           row'[r] = row[r] \/ row'[r] = Kept[r],
           Held(r)' => pi' = pi
    PROVE  RequestInv(r)'
  <1>1. RequestInv(r) /\ (Held(r)' => Held(r))
    BY DEF RelayInv, Held
  <1>2. \/ row'[r] = row[r]
        \/ /\ row'[r].status = "none" /\ row'[r].updated = 0
           /\ row[r].status # "pending"
           /\ call[r].pc \notin {"queued", "waiting"}
    BY KeptRows DEF NoEntry
  <1>3. now \in Nat
    BY Fields DEF RelayInv
  <1>4. CASE row'[r] = row[r]
    BY <1>1, <1>4 DEF RequestInv, Untouched, Awaited, InTime, LeasedBeyond, Truthful, HandedOut, Held
  <1>5. CASE /\ row'[r].status = "none" /\ row'[r].updated = 0
             /\ row[r].status # "pending"
             /\ call[r].pc \notin {"queued", "waiting"}
    BY <1>1, <1>3, <1>5 DEF RequestInv, Untouched, Awaited, InTime, LeasedBeyond, Truthful, HandedOut, Held
  <1> QED
    BY <1>2, <1>4, <1>5

-----------------------------------------------------------------------------
(* The invariant is kept by the threads that serve the phones. *)

LEMMA EnqueueInv ==
    ASSUME RelayInv, NEW r \in Requests, Enqueue(r)
    PROVE  RelayInv'
  <1>1. TypeOK /\ RequestInv(r)
    BY DEF RelayInv
  <1> DEFINE entry == [NoEntry EXCEPT !.status = "pending", !.created = now, !.updated = now]
  <1>2. /\ entry \in Entry /\ entry.status = "pending" /\ entry.updated = now
    BY <1>1 DEF NoEntry, Entry, TypeOK
  <1>3. /\ row' = [Kept EXCEPT ![r] = entry] /\ row'[r] = entry
        /\ row' \in [Requests -> Entry]
        /\ \A q \in Requests \ {r} : row'[q] = Kept[q]
    BY <1>2, KeptRows DEF Enqueue
  <1>4. /\ call' = [call EXCEPT ![r].pc = "queued"] /\ phone' = [phone EXCEPT ![r] = "open"]
        /\ UNCHANGED <<now, seen, poll, pi, ran>> /\ phone[r] = "unsent"
    BY DEF Enqueue
  <1>5. call'[r].pc = "queued" /\ phone'[r] = "open"
    BY <1>1, <1>4 DEF TypeOK
  <1>6. TypeOK'
    BY <1>1, <1>3, <1>4 DEF TypeOK
  <1>7. ran[r] = 0 /\ ~Held(r) /\ now \in Nat
    BY <1>1, <1>4, Fields DEF RequestInv, Untouched
  <1>8. RequestInv(r)'
    BY <1>2, <1>3, <1>4, <1>5, <1>7
       DEF RequestInv, Untouched, Awaited, InTime, LeasedBeyond, Truthful, HandedOut, Held
  <1>9. ASSUME NEW q \in Requests \ {r} PROVE RequestInv(q)'
    <2>1. call'[q] = call[q] /\ phone'[q] = phone[q] /\ row'[q] = Kept[q]
      BY <1>1, <1>3, <1>4 DEF TypeOK
    <2> QED
      BY <1>4, <2>1, Untouching
  <1> QED
    BY <1>6, <1>8, <1>9 DEF RelayInv

LEMMA RefuseInv ==
    ASSUME RelayInv, NEW r \in Requests, Refuse(r)
    PROVE  RelayInv'
  <1>1. TypeOK /\ RequestInv(r)
    BY DEF RelayInv
  <1>2. /\ row' = Kept /\ phone[r] = "unsent" /\ UNCHANGED <<now, seen, poll, pi, ran>>
        /\ call' = [call EXCEPT ![r].pc = "returned"] /\ phone' = [phone EXCEPT ![r] = "offline"]
    BY DEF Refuse
  <1>3. call'[r].pc = "returned" /\ phone'[r] = "offline"
    BY <1>1, <1>2 DEF TypeOK
  <1>4. TypeOK'
    BY <1>1, <1>2, KeptRows DEF TypeOK
  <1>5. row[r].status = "none" /\ ran[r] = 0 /\ ~Held(r) /\ now \in Nat /\ row[r].updated <= now
    BY <1>1, <1>2, Fields DEF RequestInv, Untouched, InTime
  <1>6. row'[r].status = "none" /\ row'[r].updated <= now
    BY <1>2, <1>5, KeptRows DEF NoEntry
  <1>7. RequestInv(r)'
    BY <1>2, <1>3, <1>5, <1>6
       DEF RequestInv, Untouched, Awaited, InTime, LeasedBeyond, Truthful, HandedOut, Held
  <1>8. ASSUME NEW q \in Requests \ {r} PROVE RequestInv(q)'
    <2>1. call'[q] = call[q] /\ phone'[q] = phone[q] /\ row'[q] = Kept[q]
      BY <1>1, <1>2 DEF TypeOK
    <2> QED
      BY <1>2, <2>1, Untouching
  <1> QED
    BY <1>4, <1>7, <1>8 DEF RelayInv

LEMMA StartWaitInv ==
    ASSUME RelayInv, NEW r \in Requests, StartWait(r)
    PROVE  RelayInv'
  <1>1. TypeOK /\ RequestInv(r)
    BY DEF RelayInv
  <1>2. /\ call[r].pc = "queued" /\ UNCHANGED <<now, seen, row, phone, poll, pi, ran>>
        /\ call' = [call EXCEPT ![r] = [pc |-> "waiting", deadline |-> now + Timeout]]
    BY DEF StartWait
  <1>3. call'[r].pc = "waiting" /\ call'[r].deadline = now + Timeout
    BY <1>1, <1>2 DEF TypeOK
  <1>4. now \in Nat /\ row[r].updated \in Nat
    BY <1>1, Fields
  <1>5. TypeOK'
    BY <1>1, <1>2, TimesAssumption DEF TypeOK
  <1>6. RequestInv(r)'
    BY <1>1, <1>2, <1>3, <1>4, TimesAssumption
       DEF RequestInv, Untouched, Awaited, InTime, LeasedBeyond, Truthful, HandedOut, Held
  <1>7. ASSUME NEW q \in Requests \ {r} PROVE RequestInv(q)'
    <2>1. call'[q] = call[q]
      BY <1>1, <1>2 DEF TypeOK
    <2> QED
      BY <1>2, <2>1, Untouching
  <1> QED
    BY <1>5, <1>6, <1>7 DEF RelayInv

\* The three ways a thread ends.
LEMMA ReturnInv ==
    ASSUME RelayInv, NEW r \in Requests, SeeAnswer(r) \/ SeeOffline(r) \/ GiveUp(r)
    PROVE  RelayInv'
  <1>1. TypeOK /\ RequestInv(r)
    BY DEF RelayInv
  <1>2. call[r].pc = "waiting"
    BY DEF SeeAnswer, SeeOffline, GiveUp
  <1>3. PICK a \in {"done", "refused", "failed"} : Return(r, a)
    <2>1. CASE SeeAnswer(r)
      BY <1>1, <2>1 DEF SeeAnswer, RequestInv, Truthful
    <2> QED
      BY <2>1 DEF SeeOffline, GiveUp
  <1>4. /\ UNCHANGED <<now, seen, poll, pi, ran>>
        /\ call' = [call EXCEPT ![r].pc = "returned"]
        /\ phone' = [phone EXCEPT ![r] = IF @ = "open" THEN a ELSE @]
    BY <1>3 DEF Return
  <1>5. /\ call'[r].pc = "returned"
        /\ phone'[r] \in {"unsent", "offline"} => phone'[r] = phone[r]
    BY <1>1, <1>4 DEF TypeOK
  <1>6. \/ row' = row /\ row[r].status = "responded"
        \/ Expire(r)
    BY DEF SeeAnswer, SeeOffline, GiveUp
  <1>7. /\ row' \in [Requests -> Entry]
        /\ \A q \in Requests \ {r} : row'[q] = row[q]
        /\ row'[r].status \in {"responded", "expired"}
        /\ row'[r].status = "responded" => row' = row
        /\ row'[r].updated <= now
    <2>1. now \in Nat /\ row[r].updated <= now /\ row \in [Requests -> Entry]
      BY <1>1, Fields DEF RequestInv, InTime, TypeOK
    <2>2. CASE row' = row /\ row[r].status = "responded"
      BY <2>1, <2>2
    <2>3. CASE Expire(r)
      <3> DEFINE entry == [row[r] EXCEPT !.status = "expired", !.updated = now]
      <3>1. entry \in Entry /\ entry.status = "expired" /\ entry.updated = now
        BY <2>1 DEF Entry
      <3>2. row' = [row EXCEPT ![r] = entry]
        BY <2>3 DEF Expire
      <3> HIDE DEF entry
      <3> QED
        BY <2>1, <3>1, <3>2
    <2> QED
      BY <1>6, <2>2, <2>3
  <1>8. TypeOK'
    BY <1>1, <1>4, <1>7 DEF TypeOK
  <1>9. phone'[r] \notin {"unsent", "offline"}
    BY <1>1, <1>2, <1>5 DEF RequestInv, Untouched, Awaited
  <1>10. RequestInv(r)'
    BY <1>1, <1>2, <1>4, <1>5, <1>7, <1>9
       DEF RequestInv, Untouched, Awaited, InTime, LeasedBeyond, Truthful, HandedOut, Held
  <1>11. ASSUME NEW q \in Requests \ {r} PROVE RequestInv(q)'
    <2>1. call'[q] = call[q] /\ phone'[q] = phone[q] /\ row'[q] = row[q]
      BY <1>1, <1>4, <1>7 DEF TypeOK
    <2> QED
      BY <1>4, <2>1, Untouching
  <1> QED
    BY <1>8, <1>10, <1>11 DEF RelayInv

LEMMA PhoneHangsUpInv ==
    ASSUME RelayInv, NEW r \in Requests, PhoneHangsUp(r)
    PROVE  RelayInv'
  <1>1. TypeOK /\ RequestInv(r)
    BY DEF RelayInv
  <1>2. /\ phone[r] = "open" /\ phone' = [phone EXCEPT ![r] = "failed"]
        /\ UNCHANGED <<now, seen, row, call, poll, pi, ran>>
    BY DEF PhoneHangsUp
  <1>3. phone'[r] = "failed"
    BY <1>1, <1>2 DEF TypeOK
  <1>4. TypeOK'
    BY <1>1, <1>2 DEF TypeOK
  <1>5. RequestInv(r)'
    BY <1>1, <1>2, <1>3
       DEF RequestInv, Untouched, Awaited, InTime, LeasedBeyond, Truthful, HandedOut, Held
  <1>6. ASSUME NEW q \in Requests \ {r} PROVE RequestInv(q)'
    <2>1. phone'[q] = phone[q]
      BY <1>1, <1>2 DEF TypeOK
    <2> QED
      BY <1>2, <2>1, Untouching
  <1> QED
    BY <1>4, <1>5, <1>6 DEF RelayInv

-----------------------------------------------------------------------------
(* And by the Pi, the clock and the restarts. *)

LEMMA TickInv ==
    ASSUME RelayInv, Tick
    PROVE  RelayInv'
  <1>1. TypeOK
    BY DEF RelayInv
  <1>2. now' = now + 1 /\ UNCHANGED <<seen, row, call, phone, poll, pi, ran>>
    BY DEF Tick
  <1>3. TypeOK'
    BY <1>1, <1>2 DEF TypeOK
  <1>4. ASSUME NEW r \in Requests PROVE RequestInv(r)'
    <2>1. RequestInv(r) /\ now \in Nat /\ row[r].updated \in Nat /\ call[r].deadline \in Nat
      BY <1>1, Fields DEF RelayInv
    <2>2. call[r].pc # "queued" /\ (call[r].pc = "waiting" => now < call[r].deadline)
      BY DEF Tick
    <2> QED
      BY <1>2, <2>1, <2>2
         DEF RequestInv, Untouched, Awaited, InTime, LeasedBeyond, Truthful, HandedOut, Held
  <1> QED
    BY <1>3, <1>4 DEF RelayInv

\* Polls that hand nothing out.
LEMMA PollInv ==
    ASSUME RelayInv, Poll \/ \E h \in Handlers : FindNothing(h)
    PROVE  RelayInv'
  <1>1. TypeOK /\ now \in Nat
    BY Fields DEF RelayInv
  <1>2. UNCHANGED <<now, call, phone, pi, ran>> /\ seen' = now /\ row' \in {row, Kept}
    BY DEF Poll, FindNothing
  <1>3. poll' \in [Handlers -> Nat]
    BY <1>1, TimesAssumption DEF Poll, FindNothing, TypeOK
  <1>4. TypeOK'
    BY <1>1, <1>2, <1>3, KeptRows DEF TypeOK
  <1>5. ASSUME NEW r \in Requests PROVE RequestInv(r)'
    BY <1>2, Untouching
  <1> QED
    BY <1>4, <1>5 DEF RelayInv

\* A row that is claimed has not been handed out before, unless its call is lost.
LEMMA ClaimableIsNew ==
    ASSUME RelayInv, NEW r \in Requests, r \in Claimable, call[r].pc # "lost"
    PROVE  ~HandedOut(r) /\ call[r].pc \in {"queued", "waiting"}
  <1>1. TypeOK /\ RequestInv(r)
    BY DEF RelayInv
  <1>2. row[r].status = "pending" /\ row[r].lease <= now
    BY DEF Claimable
  <1>3. call[r].pc \in {"queued", "waiting"}
    BY <1>1, <1>2 DEF RequestInv, Awaited
  <1>4. now \in Nat /\ row[r].lease \in Nat /\ call[r].deadline \in Nat
    BY <1>1, Fields
  <1> QED
    BY <1>1, <1>2, <1>3, <1>4, TimesAssumption DEF RequestInv, LeasedBeyond, InTime

LEMMA ClaimInv ==
    ASSUME RelayInv, NEW h \in Handlers, NEW r \in Requests, Claim(h, r)
    PROVE  RelayInv'
  <1>1. TypeOK /\ RequestInv(r)
    BY DEF RelayInv
  <1> DEFINE entry == [row[r] EXCEPT !.lease = now + Lease, !.updated = now]
  <1>2. /\ now \in Nat /\ row[r] \in Entry /\ row[r].updated \in Nat
        /\ call[r].deadline \in Nat /\ ran[r] \in Nat
    BY <1>1, Fields
  <1>3. /\ entry \in Entry /\ entry.lease = now + Lease /\ entry.updated = now
        /\ entry.status = row[r].status /\ entry.body = row[r].body
    <2>1. now + Lease \in Nat
      BY <1>2, TimesAssumption
    <2> QED
      BY <1>2, <2>1 DEF Entry
  <1>4. /\ r \in Claimable /\ row[r].status = "pending"
        /\ row' = [row EXCEPT ![r] = entry]
        /\ seen' = now /\ poll' = [poll EXCEPT ![h] = 0]
        /\ UNCHANGED <<now, call, phone, ran>>
        /\ pi' = [pc |-> "handed", r |-> r] \/ pi' = pi
    BY DEF Claim, Claimable
  <1>5. row'[r] = entry /\ row' \in [Requests -> Entry] /\ \A q \in Requests \ {r} : row'[q] = row[q]
    BY <1>1, <1>3, <1>4 DEF TypeOK
  <1>6. pi' \in PiState
    BY <1>1, <1>4 DEF PiState, TypeOK
  <1>7. TypeOK'
    BY <1>1, <1>2, <1>4, <1>5, <1>6 DEF TypeOK
  <1>8. call[r].pc # "lost" => ran[r] = 0 /\ ~Held(r) /\ call[r].pc \in {"queued", "waiting"}
    BY <1>2, <1>4, ClaimableIsNew DEF HandedOut
  <1>9. RequestInv(r)'
    <2>1. Untouched(r)' /\ Awaited(r)' /\ InTime(r)'
      BY <1>1, <1>2, <1>3, <1>4, <1>5, TimesAssumption
         DEF RequestInv, Untouched, Awaited, InTime
    <2>2. LeasedBeyond(r)'
      BY <1>1, <1>2, <1>3, <1>4, <1>5, TimesAssumption DEF RequestInv, InTime, LeasedBeyond
    <2>3. Truthful(r)'
      BY <1>1, <1>3, <1>4, <1>5, <1>8 DEF RequestInv, Truthful, Held
    <2> QED
      BY <2>1, <2>2, <2>3 DEF RequestInv
  <1>10. ASSUME NEW q \in Requests \ {r} PROVE RequestInv(q)'
    <2>1. row'[q] = row[q] /\ (Held(q)' => pi' = pi)
      BY <1>4, <1>5 DEF Held
    <2> QED
      BY <1>4, <2>1, Untouching
  <1> QED
    BY <1>7, <1>9, <1>10 DEF RelayInv

\* The Pi runs the request it holds, or refuses it.
LEMMA HandleInv ==
    ASSUME RelayInv, Execute \/ Reject
    PROVE  RelayInv'
  <1>0. PICK h \in Requests : h = pi.r
    BY Fields DEF RelayInv, Execute, Reject
  <1>1. TypeOK /\ pi.pc = "handed" /\ h \in Requests /\ Held(h)
    BY <1>0 DEF RelayInv, Execute, Reject, Held
  <1>2. RequestInv(h) /\ ran[h] \in Nat
    BY <1>1, Fields DEF RelayInv
  <1>3. UNCHANGED <<now, seen, row, call, phone, poll>>
    BY DEF Execute, Reject
  <1>4. \/ /\ ran' = [ran EXCEPT ![h] = @ + 1] /\ ran'[h] > 0
           /\ pi' = [pc |-> "ready", r |-> h, body |-> "done"]
        \/ /\ ran' = ran
           /\ pi' = [pc |-> "ready", r |-> h, body |-> "refused"]
    BY <1>0, <1>1, <1>2 DEF Execute, Reject, TypeOK
  <1>5. \A q \in Requests \ {h} : ran'[q] = ran[q] /\ ~Held(q)'
    BY <1>1, <1>4 DEF Held, TypeOK
  <1>6. pi' \in PiState
    BY <1>1, <1>4 DEF PiState
  <1>7. ran' \in [Requests -> Nat]
    BY <1>1, <1>4 DEF TypeOK
  <1>8. TypeOK'
    BY <1>1, <1>3, <1>6, <1>7 DEF TypeOK
  <1>9. Held(h)' /\ pi'.pc = "ready" /\ (pi'.body = "done" => ran'[h] > 0)
        /\ (pi'.body = "refused" => ran' = ran)
    BY <1>4 DEF Held
  <1>10. RequestInv(h)'
    <2>1. Untouched(h)' /\ Awaited(h)' /\ InTime(h)'
      BY <1>1, <1>2, <1>3 DEF RequestInv, Untouched, Awaited, InTime
    <2>2. LeasedBeyond(h)'
      BY <1>1, <1>2, <1>3 DEF RequestInv, LeasedBeyond, HandedOut
    <2>3. ran' = ran \/ ran'[h] > 0
      BY <1>4
    <2>4. Truthful(h)'
      BY <1>1, <1>2, <1>3, <1>9, <2>3 DEF RequestInv, Truthful
    <2> QED
      BY <2>1, <2>2, <2>4 DEF RequestInv
  <1>11. ASSUME NEW q \in Requests \ {h} PROVE RequestInv(q)'
    BY <1>3, <1>5, Untouching
  <1> QED
    BY <1>8, <1>10, <1>11 DEF RelayInv

LEMMA RespondInv ==
    ASSUME RelayInv, Respond
    PROVE  RelayInv'
  <1>0. PICK h \in Requests : h = pi.r
    BY Fields DEF RelayInv, Respond
  <1> DEFINE entry == [row[h] EXCEPT !.status = "responded", !.body = pi.body,
                                     !.updated = now, !.lease = 0]
  <1>1. TypeOK /\ pi.pc = "ready" /\ h \in Requests /\ Held(h)
    BY <1>0 DEF RelayInv, Respond, Held
  <1>2. /\ RequestInv(h) /\ row[h] \in Entry /\ now \in Nat /\ pi.body \in {"done", "refused"}
        /\ row[h].updated \in Nat /\ call[h].deadline \in Nat
    BY <1>1, Fields DEF RelayInv
  <1>3. /\ UNCHANGED <<now, call, phone, poll, ran>> /\ seen' = now /\ pi' = [pc |-> "idle"]
        /\ row' = IF row[h].status = "none" THEN row ELSE [row EXCEPT ![h] = entry]
    BY <1>0 DEF Respond
  <1>4. /\ entry \in Entry /\ entry.status = "responded" /\ entry.body = pi.body
        /\ entry.updated = now
    BY <1>2 DEF Entry
  <1> HIDE DEF entry
  <1>5. /\ row' \in [Requests -> Entry]
        /\ \A q \in Requests \ {h} : row'[q] = row[q]
        /\ row[h].status # "none" => row'[h] = entry
    BY <1>1, <1>3, <1>4 DEF TypeOK
  <1>6. TypeOK'
    BY <1>1, <1>2, <1>3, <1>5 DEF TypeOK, PiState, PiIdle
  <1>7. \A q \in Requests : ~Held(q)'
    BY <1>3 DEF Held
  <1>8. RequestInv(h)'
    <2>1. CASE row[h].status = "none"
      BY <1>3, <1>7, <2>1, Untouching, <1>1
    <2>2. CASE row[h].status # "none"
      <3>1. Untouched(h)' /\ Awaited(h)' /\ LeasedBeyond(h)'
        BY <1>1, <1>2, <1>3, <1>4, <1>5, <2>2 DEF RequestInv, Untouched, Awaited, LeasedBeyond
      <3>2. InTime(h)'
        BY <1>2, <1>3, <1>4, <1>5, <2>2, TimesAssumption DEF RequestInv, InTime
      <3>3. Truthful(h)'
        BY <1>1, <1>2, <1>3, <1>4, <1>5, <1>7, <2>2 DEF RequestInv, Truthful
      <3> QED
        BY <3>1, <3>2, <3>3 DEF RequestInv
    <2> QED
      BY <2>1, <2>2
  <1>9. ASSUME NEW q \in Requests \ {h} PROVE RequestInv(q)'
    BY <1>3, <1>5, <1>7, Untouching
  <1> QED
    BY <1>6, <1>8, <1>9 DEF RelayInv

LEMMA PiDropsInv ==
    ASSUME RelayInv, PiDrops
    PROVE  RelayInv'
  <1>1. TypeOK
    BY DEF RelayInv
  <1>2. UNCHANGED <<now, seen, row, call, phone, ran>> /\ pi' = [pc |-> "idle"]
    BY DEF PiDrops
  <1>3. poll' \in [Handlers -> Nat]
    BY <1>1 DEF PiDrops, TypeOK, Handlers
  <1>4. TypeOK'
    BY <1>1, <1>2, <1>3 DEF TypeOK, PiState, PiIdle
  <1>5. ASSUME NEW r \in Requests PROVE RequestInv(r)'
    BY <1>2, Untouching DEF Held
  <1> QED
    BY <1>4, <1>5 DEF RelayInv

\* A call that is lost gives up its guarantees, the others keep theirs.
LEMMA RelayRestartsInv ==
    ASSUME RelayInv, RelayRestarts
    PROVE  RelayInv'
  <1>1. TypeOK
    BY DEF RelayInv
  <1>2. UNCHANGED <<now, seen, row, pi, ran>>
    BY DEF RelayRestarts
  <1>3. ASSUME NEW r \in Requests
        PROVE  /\ \/ call'[r] = call[r] /\ call[r].pc \notin {"queued", "waiting"}
                  \/ call'[r] = [call[r] EXCEPT !.pc = "lost"] /\ call[r].pc \in {"queued", "waiting"}
               /\ \/ phone'[r] = phone[r]
                  \/ phone'[r] = "failed" /\ phone[r] = "open"
    BY DEF RelayRestarts
  <1>4. ASSUME NEW r \in Requests PROVE [call[r] EXCEPT !.pc = "lost"].pc = "lost"
    BY <1>1 DEF TypeOK
  <1>5. TypeOK'
    BY <1>1, <1>2 DEF RelayRestarts, TypeOK, Handlers
  <1>6. ASSUME NEW r \in Requests PROVE RequestInv(r)'
    <2>1. RequestInv(r)
      BY DEF RelayInv
    <2>2. \/ call'[r] = call[r]
          \/ call'[r].pc = "lost" /\ call[r].pc \in {"queued", "waiting"}
      BY <1>3, <1>4
    <2>3. call'[r].pc \notin {"queued", "waiting"}
      BY <1>3, <1>4
    <2>4. phone'[r] = phone[r] \/ phone'[r] = "failed"
      BY <1>3
    <2> QED
      BY <1>2, <2>1, <2>2, <2>3, <2>4
         DEF RequestInv, Untouched, Awaited, InTime, LeasedBeyond, Truthful, HandedOut, Held
  <1> QED
    BY <1>5, <1>6 DEF RelayInv

-----------------------------------------------------------------------------

\* The inductive invariant.
THEOREM RelayInvariant == Spec => []RelayInv
  <1>1. Init => RelayInv
    <2> SUFFICES ASSUME Init PROVE RelayInv
      OBVIOUS
    <2>1. TypeOK
      BY TimesAssumption DEF Init, TypeOK, NoEntry, Entry, PiState, PiIdle, Handlers
    <2>2. ASSUME NEW r \in Requests PROVE RequestInv(r)
      BY TimesAssumption
         DEF Init, NoEntry, RequestInv, Untouched, Awaited, InTime, LeasedBeyond, Truthful, HandedOut, Held
    <2> QED
      BY <2>1, <2>2 DEF RelayInv
  <1>2. RelayInv /\ [Next]_vars => RelayInv'
    <2> SUFFICES ASSUME RelayInv, [Next]_vars PROVE RelayInv'
      OBVIOUS
    <2>1. CASE Next
      <3>1. ASSUME NEW r \in Requests, Serve(r) PROVE RelayInv'
        BY <3>1, StartWaitInv, ReturnInv DEF Serve
      <3>2. ASSUME NEW h \in Handlers, PollStep(h) PROVE RelayInv'
        BY <3>2, PollInv, ClaimInv DEF PollStep
      <3> QED
        BY <2>1, <3>1, <3>2, TickInv, EnqueueInv, RefuseInv, PhoneHangsUpInv, PollInv,
           HandleInv, RespondInv, PiDropsInv, RelayRestartsInv DEF Next
    <2>2. CASE UNCHANGED vars
      BY <2>2 DEF vars, RelayInv, TypeOK, RequestInv, Untouched, Awaited, InTime, LeasedBeyond,
                  Truthful, HandedOut, Held
    <2> QED
      BY <2>1, <2>2
  <1> QED
    BY <1>1, <1>2, PTL DEF Spec

\* Types: what a phone is told has the right form only because no row is marked
\* as responded without an answer in it.
THEOREM RelayTypes == Spec => []TypeOK
  BY RelayInvariant, PTL DEF RelayInv

\* No request can be handed out once its call has returned, and no row
\* disappears or expires under the thread that waits for it.
THEOREM PendingRequestsAwaited == Spec => []PendingIsAwaited
  <1>1. RelayInv => PendingIsAwaited
    BY DEF RelayInv, RequestInv, Awaited, PendingIsAwaited
  <1> QED
    BY <1>1, RelayInvariant, PTL

\* The relay implements RemoteCall: at most one run of each request, and only
\* true answers.
THEOREM RelayImplementsRemoteCall == Spec => AtMostOnce
  <1> DEFINE died == {r \in Requests : call[r].pc = "lost"}
  <1>1. Init => Remote!Init
    BY DEF Init, Remote!Init
  <1>2. RelayInv /\ RelayInv' /\ [Next]_vars => [Remote!Next]_<<phone, ran, died>>
    <2> SUFFICES ASSUME RelayInv, RelayInv', [Next]_vars
                 PROVE  Remote!Next \/ UNCHANGED <<phone, ran, died>>
      BY DEF Remote!Next
    <2>1. TypeOK /\ \A r \in Requests : RequestInv(r)
      BY DEF RelayInv
    <2>2. CASE UNCHANGED vars
      BY <2>2 DEF vars
    <2>3. ASSUME NEW r \in Requests, call[r].pc # "lost", call'[r].pc # "lost",
                 \A q \in Requests \ {r} : call'[q] = call[q]
          PROVE  died' = died
      BY <2>3
    <2>4. ASSUME NEW r \in Requests, Enqueue(r) PROVE Remote!Call(r)
      <3>1. phone[r] = "unsent" /\ phone' = [phone EXCEPT ![r] = "open"] /\ ran' = ran
        BY <2>4 DEF Enqueue
      <3>2. call[r].pc = "idle" /\ call'[r].pc = "queued" /\ \A q \in Requests \ {r} : call'[q] = call[q]
        BY <2>1, <2>4 DEF Enqueue, RequestInv, Untouched, TypeOK
      <3> QED
        BY <2>3, <3>1, <3>2 DEF Remote!Call
    <2>5. ASSUME NEW r \in Requests, Refuse(r) PROVE Remote!TurnAway(r)
      <3>1. phone[r] = "unsent" /\ phone' = [phone EXCEPT ![r] = "offline"] /\ ran' = ran
        BY <2>5 DEF Refuse
      <3>2. call[r].pc = "idle" /\ call'[r].pc = "returned" /\ \A q \in Requests \ {r} : call'[q] = call[q]
        BY <2>1, <2>5 DEF Refuse, RequestInv, Untouched, TypeOK
      <3> QED
        BY <2>3, <3>1, <3>2 DEF Remote!TurnAway
    <2>6. ASSUME NEW r \in Requests, StartWait(r) PROVE UNCHANGED <<phone, ran, died>>
      <3>1. call[r].pc = "queued" /\ call'[r].pc = "waiting" /\ \A q \in Requests \ {r} : call'[q] = call[q]
        BY <2>1, <2>6 DEF StartWait, TypeOK
      <3> QED
        BY <2>3, <2>6, <3>1 DEF StartWait
    <2>7. ASSUME NEW r \in Requests, NEW a \in Remote!Answers, call[r].pc = "waiting", Return(r, a),
                 a = "done" => ran[r] > 0, a = "refused" => ran[r] = 0
          PROVE  Remote!Answer(r, a) \/ UNCHANGED <<phone, ran, died>>
      <3>1. call'[r].pc = "returned" /\ \A q \in Requests \ {r} : call'[q] = call[q]
        BY <2>1, <2>7 DEF Return, TypeOK
      <3>2. died' = died
        BY <2>3, <2>7, <3>1
      <3>3. ran' = ran /\ phone' = [phone EXCEPT ![r] = IF @ = "open" THEN a ELSE @]
        BY <2>7 DEF Return
      <3>4. CASE phone[r] = "open"
        BY <2>7, <3>2, <3>3, <3>4 DEF Remote!Answer
      <3>5. CASE phone[r] # "open"
        <4>1. phone' = phone
          BY <2>1, <3>3, <3>5 DEF TypeOK
        <4> QED
          BY <3>2, <3>3, <4>1
      <3> QED
        BY <3>4, <3>5
    <2>8. ASSUME NEW r \in Requests, SeeAnswer(r) \/ SeeOffline(r) \/ GiveUp(r)
          PROVE  Remote!Next \/ UNCHANGED <<phone, ran, died>>
      <3>1. call[r].pc = "waiting"
        BY <2>8 DEF SeeAnswer, SeeOffline, GiveUp
      <3>2. PICK a \in Remote!Answers : /\ Return(r, a)
                                        /\ a = "done" => ran[r] > 0
                                        /\ a = "refused" => ran[r] = 0
        <4>1. CASE SeeAnswer(r)
          <5>1. /\ row[r].status = "responded" /\ Return(r, row[r].body)
                /\ Truthful(r) /\ call[r].pc # "lost"
            BY <2>1, <3>1, <4>1 DEF SeeAnswer, RequestInv
          <5> QED
            BY <5>1 DEF Truthful, Remote!Answers
        <4>2. CASE SeeOffline(r) \/ GiveUp(r)
          <5>1. Return(r, "failed")
            BY <4>2 DEF SeeOffline, GiveUp
          <5> QED
            BY <5>1 DEF Remote!Answers
        <4> QED
          BY <2>8, <4>1, <4>2
      <3> QED
        BY <2>7, <3>1, <3>2 DEF Remote!Next
    <2>9. ASSUME NEW r \in Requests, PhoneHangsUp(r) PROVE Remote!Answer(r, "failed")
      BY <2>9 DEF PhoneHangsUp, Remote!Answer
    <2>10. CASE Execute
      <3>1. PICK r \in Requests : r = pi.r
        BY <2>1, <2>10, Fields DEF Execute
      <3>2. Held(r) /\ pi.pc = "handed" /\ ran' = [ran EXCEPT ![r] = @ + 1] /\ UNCHANGED <<phone, call>>
        BY <2>10, <3>1 DEF Execute, Held
      <3>3. phone[r] \notin {"unsent", "offline"} /\ (ran[r] = 0 \/ r \in died)
        BY <2>1, <3>2 DEF RequestInv, Untouched, Truthful
      <3>4. Remote!Run(r)
        BY <3>2, <3>3 DEF Remote!Run
      <3> QED
        BY <3>4 DEF Remote!Next
    <2>11. CASE RelayRestarts
      <3>1. PICK dead \in SUBSET Requests : dead = {r \in Requests : call'[r].pc = "lost"}
        OBVIOUS
      <3>2. \A r \in Requests : r \in died => r \in dead
        BY <2>11, <3>1 DEF RelayRestarts
      <3>3. died' = died \cup dead
        BY <3>1, <3>2
      <3>4. phone' = [r \in Requests |-> IF r \in dead /\ phone[r] = "open" THEN "failed" ELSE phone[r]]
        BY <2>11, <3>1 DEF RelayRestarts
      <3>5. ran' = ran
        BY <2>11 DEF RelayRestarts
      <3>6. Remote!Lose(dead)
        BY <3>3, <3>4, <3>5 DEF Remote!Lose
      <3> QED
        BY <3>6 DEF Remote!Next
    <2>12. CASE Tick \/ Poll \/ Reject \/ Respond \/ PiDrops \/ \E h \in Handlers : PollStep(h)
      BY <2>12 DEF Tick, Poll, Reject, Respond, PiDrops, PollStep, FindNothing, Claim
    <2>13. "failed" \in Remote!Answers
      BY DEF Remote!Answers
    <2> QED
      BY <2>2, <2>4, <2>5, <2>6, <2>8, <2>9, <2>10, <2>11, <2>12, <2>13 DEF Next, Serve, Remote!Next
  <1> QED
    BY <1>1, <1>2, RelayInvariant, PTL DEF Spec, AtMostOnce, Remote!Spec

=============================================================================
