--------------------------- MODULE PairingProofs ---------------------------
(***************************************************************************)
(* Theorems about Pairing, for every set of phones, whichever of them have *)
(* ids of old and of new apps.                                             *)
(***************************************************************************)
EXTENDS Pairing, TLAPS

\* The tokens that calls carry have been issued.
CallsInRange ==
    \A r \in calls :
        /\ r.kind = "pair" => r.result <= Len(owner)
        /\ r.kind = "sync" => r.arg <= Len(owner)

PairingInv == TypeOK /\ CallsInRange /\ LiveIsNewest

----------------------------------------------------------------------------
(* Facts used by several steps. *)

\* Showing the code makes one if there is none, and replaces none.
LEMMA ShowCodeKeeps ==
    ASSUME TypeOK, ShowCode
    PROVE  /\ codes' \in Nat \ {0} /\ codes <= codes'
           /\ active' \subseteq 1 .. codes' /\ active' # {}
           /\ old' \subseteq active'
           /\ Valid \subseteq Valid'
  <1>1. codes \in Nat \ {0} /\ active \subseteq 1 .. codes
    BY DEF TypeOK
  <1>2. CASE active' = Valid /\ old' = {} /\ codes' = codes /\ Valid # {}
    <2>1. Valid' = Valid
      BY <1>2 DEF Valid
    <2>2. Valid \subseteq 1 .. codes
      BY <1>1 DEF Valid
    <2> QED
      BY <1>1, <1>2, <2>1, <2>2
  <1>3. CASE NewCode /\ Valid = {}
    <2>1. codes' = codes + 1 /\ active' = {codes + 1} /\ old' = {}
      BY <1>3 DEF NewCode
    <2> QED
      BY <1>1, <1>3, <2>1
  <1> QED
    BY <1>2, <1>3 DEF ShowCode

\* The step shows the code, or not, and the status, and sends a request at most.
Shows ==
    /\ ShowCode \/ UNCHANGED <<codes, active, old>>
    /\ UNCHANGED <<owner, live>>

LEMMA ShowsKeeps ==
    ASSUME TypeOK, Shows
    PROVE  /\ codes' \in Nat \ {0} /\ codes <= codes'
           /\ active' \subseteq 1 .. codes'
           /\ old' \subseteq active'
           /\ Valid \subseteq Valid'
           /\ owner' = owner /\ live' = live
  <1>1. CASE ShowCode
    BY <1>1, ShowCodeKeeps DEF Shows
  <1>2. CASE UNCHANGED <<codes, active, old>>
    BY <1>2 DEF Shows, TypeOK, Valid
  <1> QED
    BY <1>1, <1>2 DEF Shows

LEMMA ShowingKeeps ==
    ASSUME PairingInv, Shows, waiting' \in BOOLEAN,
           seen' \in [Readers -> {"idle", "none", "some"}],
           read' \in [Phones -> 0 .. codes'], held' = held, refused' = refused,
           trouble' \in 0 .. MaxTrouble,
           calls' \subseteq Call,
           \A r \in calls' \ calls : r.kind = "pair" /\ r.result = 0
    PROVE  PairingInv'
  <1>1. TypeOK
    BY DEF PairingInv
  <1>2. TypeOK'
    BY <1>1, ShowsKeeps DEF TypeOK, Tokens
  <1>3. CallsInRange'
    BY <1>1, ShowsKeeps DEF PairingInv, CallsInRange, TypeOK
  <1>4. LiveIsNewest'
    BY <1>1, ShowsKeeps DEF PairingInv, LiveIsNewest, TokensOf, Tokens
  <1> QED
    BY <1>2, <1>3, <1>4 DEF PairingInv

LEMMA ReportKeeps ==
    ASSUME TypeOK, NEW t \in Readers, Report(t)
    PROVE  /\ waiting' \in BOOLEAN
           /\ seen' \in [Readers -> {"idle", "none", "some"}]
           /\ UNCHANGED <<owner, live>>
  BY DEF TypeOK, Report

LEMMA StatusInv ==
    ASSUME PairingInv, NEW t \in Readers, CountTokens(t) \/ AnswerStatus(t)
    PROVE  PairingInv'
  <1>1. TypeOK
    BY DEF PairingInv
  <1>2. CASE CountTokens(t)
    <2>1. seen' \in [Readers -> {"idle", "none", "some"}]
      <3>1. Count \in {"idle", "none", "some"}
        BY DEF Count
      <3> QED
        BY <1>1, <1>2, <3>1 DEF CountTokens, TypeOK
    <2>2. trouble' \in 0 .. MaxTrouble
      BY <1>1, <1>2, PairingAssumption DEF CountTokens, Trouble, TypeOK
    <2> QED
      BY <1>1, <1>2, <2>1, <2>2, ShowingKeeps DEF CountTokens, Shows, pi, phone, TypeOK
  <1>3. CASE AnswerStatus(t)
    <2>1. Shows /\ UNCHANGED <<phone, calls, trouble>>
      BY <1>3 DEF AnswerStatus, Report, Shows
    <2>2. /\ waiting' \in BOOLEAN
          /\ seen' \in [Readers -> {"idle", "none", "some"}]
      BY <1>1, <1>3, ReportKeeps DEF AnswerStatus
    <2>3. read' \in [Phones -> 0 .. codes']
      <3>1. 0 .. codes \subseteq 0 .. codes'
        BY <1>1, <2>1, ShowsKeeps DEF TypeOK
      <3> QED
        BY <1>1, <2>1, <3>1 DEF TypeOK, phone
    <2> QED
      BY <1>1, <2>1, <2>2, <2>3, ShowingKeeps DEF phone, TypeOK
  <1> QED
    BY <1>2, <1>3

LEMMA OneChanged ==
    ASSUME NEW n \in Nat, NEW f \in [Phones -> 0 .. n], NEW p \in Phones
    PROVE  [f EXCEPT ![p] = 0] \in [Phones -> 0 .. n]
  <1>1. 0 \in 0 .. n
    OBVIOUS
  <1> QED
    BY <1>1

LEMMA AnswerIsCall ==
    ASSUME calls \subseteq Call, NEW r \in calls, NEW result \in Nat, Answer(r, result)
    PROVE  /\ calls' \subseteq Call
           /\ \A q \in calls' \ calls : q.kind = r.kind /\ q.arg = r.arg /\ q.result = result
  BY DEF Answer, Call

\* Tokens may be revoked, and calls go on, but none is issued.
LEMMA RevokingKeeps ==
    ASSUME PairingInv,
           UNCHANGED <<codes, owner, seen, phone>>,
           active' = active, old' \subseteq active,
           live' \subseteq live, waiting' \in BOOLEAN,
           trouble' \in 0 .. MaxTrouble,
           calls' \subseteq Call,
           \A r \in calls' \ calls : /\ r.kind = "pair" => r.result <= Len(owner)
                                     /\ r.kind = "sync" => r.arg <= Len(owner)
    PROVE  PairingInv'
  <1>1. TypeOK
    BY DEF PairingInv
  <1>2. TypeOK'
    BY <1>1 DEF TypeOK, Tokens, phone
  <1>3. CallsInRange'
    BY DEF PairingInv, CallsInRange
  <1>4. LiveIsNewest'
    BY DEF PairingInv, LiveIsNewest, TokensOf, Tokens
  <1> QED
    BY <1>2, <1>3, <1>4 DEF PairingInv

LEMMA TroubleIsBounded ==
    ASSUME TypeOK, Trouble
    PROVE  trouble' \in 0 .. MaxTrouble
  BY PairingAssumption DEF TypeOK, Trouble

\* What a call returned fits into what the phone stores.
LEMMA StoreKeeps ==
    ASSUME PairingInv, NEW r \in Call, NEW result \in Nat, Store(r, result),
           r.kind = "pair" => result <= Len(owner),
           r.kind = "sync" => r.arg <= Len(owner),
           UNCHANGED <<pi, seen>>,
           trouble' \in 0 .. MaxTrouble,
           calls' \subseteq Call,
           \A q \in calls' \ calls : /\ q.kind = "pair" => q.result <= Len(owner)
                                     /\ q.kind = "sync" => q.arg <= Len(owner)
    PROVE  PairingInv'
  <1>1. TypeOK
    BY DEF PairingInv
  <1>2. /\ r.phone \in Phones /\ r.arg \in Nat /\ Len(owner) \in Nat /\ codes \in Nat
        /\ read \in [Phones -> 0 .. codes]
        /\ held \in [Phones -> 0 .. Len(owner)]
        /\ refused \in [Phones -> 0 .. Len(owner)]
    BY <1>1 DEF Call, TypeOK
  <1>3. /\ read' \in [Phones -> 0 .. codes]
        /\ held' \in [Phones -> 0 .. Len(owner)]
        /\ refused' \in [Phones -> 0 .. Len(owner)]
    <2>1. CASE r.kind = "pair"
      <3>1. UNCHANGED <<codes, owner, refused>>
        BY <2>1 DEF Store, pi
      <3>2. read' \in [Phones -> 0 .. codes]
        BY <1>2, <2>1, OneChanged DEF Store
      <3>3. held' \in [Phones -> 0 .. Len(owner)]
        <4>1. held' = held \/ (result \in 0 .. Len(owner) /\ held' = [held EXCEPT ![r.phone] = result])
          BY <1>2, <2>1 DEF Store
        <4> QED
          BY <1>1, <4>1 DEF TypeOK
      <3> QED
        BY <1>2, <3>1, <3>3, <3>2
    <2>2. CASE r.kind = "unpair"
      <3>1. UNCHANGED <<codes, owner, read, refused>>
        BY <2>2 DEF Store, pi
      <3>2. held' \in [Phones -> 0 .. Len(owner)]
        BY <1>2, <2>2, OneChanged DEF Store
      <3> QED
        BY <1>2, <3>1, <3>2
    <2>3. CASE r.kind = "sync"
      <3>1. \/ refused' = refused
            \/ r.arg \in 0 .. Len(owner) /\ refused' = [refused EXCEPT ![r.phone] = r.arg]
        BY <1>2, <2>3 DEF Store
      <3>2. UNCHANGED <<codes, owner, read, held>>
        BY <2>3 DEF Store, pi
      <3> QED
        BY <1>1, <3>1, <3>2 DEF TypeOK
    <2> QED
      BY <2>1, <2>2, <2>3 DEF Call
  <1>4. TypeOK'
    BY <1>1, <1>3 DEF TypeOK, Tokens, pi
  <1>5. CallsInRange'
    BY <1>2 DEF PairingInv, CallsInRange, pi
  <1>6. LiveIsNewest'
    BY DEF PairingInv, LiveIsNewest, TokensOf, Tokens, pi
  <1> QED
    BY <1>4, <1>5, <1>6 DEF PairingInv

----------------------------------------------------------------------------
(* The invariant is kept by the Pi. *)

LEMMA AdminInv ==
    ASSUME PairingInv, CodeExpires \/ AdminNewCode \/ AdminRevoke
    PROVE  PairingInv'
  <1>1. TypeOK /\ calls' = calls /\ trouble' \in 0 .. MaxTrouble
    BY TroubleIsBounded DEF PairingInv, CodeExpires, AdminNewCode, AdminRevoke
  <1>2. CASE CodeExpires
    <2>1. old' \subseteq active /\ active' = active
      BY <1>1, <1>2 DEF CodeExpires, Valid, TypeOK
    <2> QED
      BY <1>1, <1>2, <2>1, RevokingKeeps DEF CodeExpires, PairingInv, TypeOK
  <1>3. CASE AdminNewCode
    <2>1. TypeOK'
      BY <1>1, <1>3 DEF AdminNewCode, NewCode, TypeOK, Tokens, phone
    <2>2. CallsInRange' /\ LiveIsNewest'
      BY <1>3 DEF AdminNewCode, NewCode, PairingInv, CallsInRange, LiveIsNewest,
                  TokensOf, Tokens
    <2> QED
      BY <2>1, <2>2 DEF PairingInv
  <1>4. CASE AdminRevoke
    BY <1>1, <1>4, RevokingKeeps DEF AdminRevoke, TypeOK
  <1> QED
    BY <1>2, <1>3, <1>4

\* The new token is the newest, and the phone's others are revoked.
LEMMA RunPairInv ==
    ASSUME PairingInv, NEW r \in calls, RunPair(r)
    PROVE  PairingInv'
  <1> DEFINE n == Len(owner) + 1
  <1>1. TypeOK /\ calls \subseteq Call /\ r \in Call
    BY DEF PairingInv, TypeOK
  <1>2. /\ r.phone \in Phones /\ r.kind = "pair" /\ n \in Nat
        /\ owner \in Seq(Phones) /\ Len(owner) \in Nat /\ live \subseteq 1 .. Len(owner)
    BY <1>1 DEF RunPair, Call, TypeOK, Tokens
  <1>3. CASE /\ r.arg \in Valid
             /\ active' = Valid /\ old' = {}
             /\ owner' = Append(owner, r.phone)
             /\ live' = (live \ Superseded(r.phone)) \cup {n}
             /\ waiting' = FALSE
             /\ Answer(r, n)
             /\ UNCHANGED codes
    <2>1. /\ owner' \in Seq(Phones) /\ Len(owner') = n /\ owner'[n] = r.phone
          /\ \A t \in 1 .. Len(owner) : owner'[t] = owner[t]
      BY <1>2, <1>3
    <2>2. /\ calls' \subseteq Call
          /\ \A q \in calls' \ calls : q.kind = "pair" /\ q.result = n
      BY <1>1, <1>2, <1>3, AnswerIsCall
    <2>3. TypeOK'
      <3>1. live' \subseteq Tokens'
        <4>1. live \subseteq 1 .. n /\ n \in 1 .. n
          BY <1>2
        <4> HIDE DEF n
        <4> QED
          BY <1>3, <2>1, <4>1 DEF Tokens
      <3>2. active' \subseteq 1 .. codes' /\ old' \subseteq active'
        BY <1>1, <1>3 DEF TypeOK, Valid
      <3>3. held' \in [Phones -> 0 .. Len(owner')] /\ refused' \in [Phones -> 0 .. Len(owner')]
        <4>1. held' = held /\ refused' = refused /\ 0 .. Len(owner) \subseteq 0 .. Len(owner')
          BY <1>2, <2>1 DEF RunPair, phone
        <4> QED
          BY <1>1, <4>1 DEF TypeOK
      <3> QED
        BY <1>1, <1>3, <2>1, <2>2, <3>1, <3>2, <3>3 DEF RunPair, TypeOK, phone
    <2>4. CallsInRange'
      BY <1>1, <1>2, <2>1, <2>2 DEF PairingInv, CallsInRange, Call
    <2>5. LiveIsNewest'
      <3>1. SUFFICES ASSUME NEW t \in live', NEW u \in 1 .. n, owner'[u] = owner'[t]
                     PROVE  u <= t
        BY <2>1 DEF LiveIsNewest, TokensOf, Tokens
      <3>2. CASE t = n
        BY <1>2, <3>1, <3>2
      <3>3. CASE t \in live \ Superseded(r.phone)
        <4>1. owner[t] # r.phone /\ t \in 1 .. Len(owner)
          BY <1>2, <3>3 DEF Superseded, TokensOf, Tokens
        <4>2. u \in 1 .. Len(owner)
          BY <1>2, <2>1, <3>1, <4>1
        <4> QED
          BY <2>1, <3>1, <3>3, <4>1, <4>2 DEF PairingInv, LiveIsNewest, TokensOf, Tokens
      <3> QED
        BY <1>3, <3>2, <3>3
    <2> QED
      BY <2>3, <2>4, <2>5 DEF PairingInv
  <1>4. CASE Answer(r, 0) /\ UNCHANGED pi
    <2>1. /\ calls' \subseteq Call
          /\ \A q \in calls' \ calls : q.kind = "pair" /\ q.result = 0
      BY <1>1, <1>2, <1>4, AnswerIsCall
    <2>2. trouble' \in 0 .. MaxTrouble /\ waiting' \in BOOLEAN
      BY <1>1, <1>4 DEF RunPair, pi, TypeOK
    <2>3. UNCHANGED <<codes, owner, seen, phone>> /\ active' = active /\ old' \subseteq active /\ live' \subseteq live
      BY <1>1, <1>4 DEF RunPair, pi, TypeOK
    <2>4. \A q \in calls' \ calls : /\ q.kind = "pair" => q.result <= Len(owner)
                                    /\ q.kind = "sync" => q.arg <= Len(owner)
      BY <1>2, <2>1
    <2> QED
      BY <2>1, <2>2, <2>3, <2>4, RevokingKeeps
  <1> QED
    BY <1>3, <1>4 DEF RunPair

LEMMA RunTokenCallInv ==
    ASSUME PairingInv, NEW r \in calls, Admit(r) \/ RunUnpair(r) \/ RunSync(r)
    PROVE  PairingInv'
  <1>1. /\ TypeOK /\ calls \subseteq Call /\ r \in Call /\ r.kind \in {"unpair", "sync"}
        /\ trouble' = trouble /\ UNCHANGED <<seen, phone>>
        /\ r.kind = "sync" => r.arg <= Len(owner)
    BY DEF PairingInv, CallsInRange, TypeOK, Admit, RunUnpair, RunSync
  <1>2. /\ calls' \subseteq Call
        /\ \A q \in calls' \ calls : q.kind = r.kind /\ q.arg = r.arg
    <2>1. CASE calls' = (calls \ {r}) \cup {[r EXCEPT !.at = "admitted"]}
      BY <1>1, <2>1 DEF Call
    <2>2. CASE Answer(r, 0) \/ Answer(r, 1)
      BY <1>1, <2>2, AnswerIsCall
    <2> QED
      BY <2>1, <2>2 DEF Admit, RunUnpair, RunSync
  <1>3. /\ UNCHANGED <<codes, active, old, owner>>
        /\ live' \subseteq live /\ waiting' \in BOOLEAN
    <2>1. CASE Admit(r)
      BY <1>1, <2>1 DEF Admit, pi, TypeOK
    <2>2. CASE RunUnpair(r)
      BY <2>2 DEF RunUnpair
    <2>3. CASE RunSync(r)
      BY <2>3 DEF RunSync
    <2> QED
      BY <2>1, <2>2, <2>3
  <1> QED
    BY <1>1, <1>2, <1>3, RevokingKeeps DEF TypeOK

----------------------------------------------------------------------------
(* The invariant is kept by the phones. *)

LEMMA SendIsCall ==
    ASSUME calls \subseteq Call, NEW p \in Phones, NEW k \in {"pair", "unpair", "sync"},
           NEW a \in Nat, Send(p, k, a)
    PROVE  /\ calls' \subseteq Call
           /\ \A q \in calls' \ calls : q.kind = k /\ q.arg = a /\ q.result = 0
  <1> DEFINE q == [phone |-> p, kind |-> k, arg |-> a, at |-> "sent", heard |-> TRUE, result |-> 0]
  <1>1. q \in Call /\ q.kind = k /\ q.arg = a /\ q.result = 0
    BY DEF Call
  <1>2. calls' = calls \cup {q}
    BY DEF Send
  <1> HIDE DEF q
  <1> QED
    BY <1>1, <1>2

LEMMA ReadAndPairInv ==
    ASSUME PairingInv, NEW p \in Phones, ReadCode(p) \/ StartPair(p)
    PROVE  PairingInv'
  <1>1. TypeOK /\ calls \subseteq Call /\ read[p] \in Nat
    BY DEF PairingInv, TypeOK
  <1>2. ShowCode /\ Shows /\ codes \in Nat /\ codes' \in Nat /\ codes <= codes'
    BY <1>1, ShowCodeKeeps DEF ReadCode, ShowPage, StartPair, Report, Shows, TypeOK
  <1>3. trouble' \in 0 .. MaxTrouble
    BY <1>1, TroubleIsBounded DEF ReadCode, StartPair, TypeOK
  <1>4. read' \in [Phones -> 0 .. codes']
    <2>1. CASE ReadCode(p)
      <3>1. (CHOOSE c \in active' : TRUE) \in 1 .. codes'
        BY <1>1, <1>2, ShowCodeKeeps
      <3> QED
        BY <1>1, <1>2, <2>1, <3>1 DEF ReadCode, TypeOK
    <2>2. CASE StartPair(p)
      BY <1>1, <1>2, <2>2 DEF StartPair, phone, TypeOK
    <2> QED
      BY <2>1, <2>2
  <1>5. /\ calls' \subseteq Call
        /\ \A q \in calls' \ calls : q.kind = "pair" /\ q.result = 0
    <2>1. CASE ReadCode(p)
      BY <1>1, <2>1 DEF ReadCode
    <2>2. CASE StartPair(p)
      BY <1>1, <2>2, SendIsCall DEF StartPair
    <2> QED
      BY <2>1, <2>2
  <1>6. /\ waiting' \in BOOLEAN
        /\ seen' \in [Readers -> {"idle", "none", "some"}]
    BY <1>1, ReportKeeps DEF ReadCode, ShowPage, StartPair, TypeOK
  <1> QED
    BY <1>2, <1>3, <1>4, <1>5, <1>6, ShowingKeeps DEF ReadCode, StartPair, phone

LEMMA StartTokenCallInv ==
    ASSUME PairingInv, NEW p \in Phones, StartUnpair(p) \/ StartSync(p)
    PROVE  PairingInv'
  <1>1. TypeOK /\ calls \subseteq Call /\ held[p] \in Nat /\ held[p] <= Len(owner)
    BY DEF PairingInv, TypeOK
  <1>2. trouble' \in 0 .. MaxTrouble
    BY <1>1, TroubleIsBounded DEF StartUnpair, StartSync, TypeOK
  <1>3. /\ calls' \subseteq Call
        /\ \A q \in calls' \ calls : q.kind # "pair" /\ q.arg = held[p]
    BY <1>1, SendIsCall DEF StartUnpair, StartSync
  <1>4. UNCHANGED <<codes, active, old, owner, live, waiting, seen, phone>>
    BY DEF StartUnpair, StartSync, pi
  <1>5. old \subseteq active /\ waiting \in BOOLEAN
    BY <1>1 DEF TypeOK
  <1> QED
    BY <1>1, <1>2, <1>3, <1>4, <1>5, RevokingKeeps

LEMMA ReturnInv ==
    ASSUME PairingInv, NEW r \in calls, Receive(r) \/ GiveUp(r)
    PROVE  PairingInv'
  <1>1. /\ TypeOK /\ calls \subseteq Call /\ r \in Call
        /\ r.result \in Nat
        /\ r.kind = "pair" => r.result <= Len(owner)
        /\ r.kind = "sync" => r.arg <= Len(owner)
        /\ Len(owner) \in Nat
    <2>1. TypeOK /\ CallsInRange
      BY DEF PairingInv
    <2>2. calls \subseteq Call /\ Len(owner) \in Nat
      BY <2>1 DEF TypeOK
    <2>3. r \in Call /\ r.result \in Nat
      BY <2>2 DEF Call
    <2> QED
      BY <2>1, <2>2, <2>3 DEF CallsInRange
  <1>2. CASE Receive(r)
    BY <1>1, <1>2, StoreKeeps DEF Receive, TypeOK
  <1>3. CASE GiveUp(r)
    <2> DEFINE q == [r EXCEPT !.at = "sent"]
    <2>1. q \in Call /\ q.kind = r.kind /\ q.arg = r.arg
      BY <1>1 DEF Call
    <2>2. trouble' \in 0 .. MaxTrouble /\ Store(q, 0) /\ UNCHANGED <<pi, seen>>
      BY <1>1, <1>3, TroubleIsBounded DEF GiveUp
    <2>3. /\ calls' \subseteq Call
          /\ \A c \in calls' \ calls : c.kind = r.kind /\ c.arg = r.arg /\ c.result = r.result
      BY <1>1, <1>3 DEF GiveUp, Call
    <2> HIDE DEF q
    <2> QED
      BY <1>1, <2>1, <2>2, <2>3, StoreKeeps
  <1> QED
    BY <1>2, <1>3

----------------------------------------------------------------------------

LEMMA InitInv == Init => PairingInv
  BY PairingAssumption
  DEF Init, PairingInv, TypeOK, CallsInRange, LiveIsNewest, TokensOf, Tokens

LEMMA NextInv ==
    ASSUME PairingInv, [Next]_vars
    PROVE  PairingInv'
  <1>1. CASE UNCHANGED vars
    BY <1>1 DEF vars, pi, phone, PairingInv, TypeOK, CallsInRange, LiveIsNewest,
                TokensOf, Tokens
  <1>2. CASE Refresh
    <2>1. TypeOK /\ ShowCode /\ Shows /\ UNCHANGED <<seen, phone, calls, trouble>>
      BY <1>2 DEF Refresh, ShowPage, Shows, PairingInv
    <2>2. read' \in [Phones -> 0 .. codes']
      <3>1. 0 .. codes \subseteq 0 .. codes'
        BY <2>1, ShowCodeKeeps DEF TypeOK
      <3> QED
        BY <2>1, <3>1 DEF TypeOK, phone
    <2>3. calls' \subseteq Call /\ calls' = calls /\ trouble' \in 0 .. MaxTrouble
      BY <2>1 DEF TypeOK
    <2>4. waiting' \in BOOLEAN /\ seen' \in [Readers -> {"idle", "none", "some"}]
      BY <1>2, <2>1 DEF Refresh, ShowPage, TypeOK
    <2> QED
      BY <2>1, <2>2, <2>3, <2>4, ShowingKeeps DEF phone
  <1> QED
    BY <1>1, <1>2, AdminInv, StatusInv, RunPairInv, RunTokenCallInv, ReadAndPairInv, StartTokenCallInv,
       ReturnInv
    DEF Next, Run

\* The inductive invariant holds in every state.
THEOREM Invariance == Spec => []PairingInv
  <1> QED
    BY InitInv, NextInv, PTL DEF Spec

\* The types of the state.
THEOREM TypeCorrect == Spec => []TypeOK
  <1>1. PairingInv => TypeOK
    BY DEF PairingInv
  <1> QED
    BY Invariance, <1>1, PTL

\* A phone has one valid token at most, its newest.
THEOREM OneTokenPerPhone == Spec => []LiveIsNewest
  <1>1. PairingInv => LiveIsNewest
    BY DEF PairingInv
  <1> QED
    BY Invariance, <1>1, PTL

\* Only a status request that counted the tokens before makes the bag say that
\* it waits for a phone while one is paired.
THEOREM WaitsForPairedOnlyIfStale == Spec => WaitsOnlyIfStale
  <1> DEFINE Stale == \E t \in Readers : seen[t] = "none" /\ seen'[t] = "idle"
             Step == WrongStatus' => WrongStatus \/ Stale
  <1>1. ASSUME TypeOK, [Next]_vars
        PROVE  [Step]_vars
    <2>1. ASSUME UNCHANGED <<live, waiting>>  PROVE Step
      BY <2>1 DEF WrongStatus
    <2>2. ASSUME waiting' => live' = {}  PROVE Step
      BY <2>2 DEF WrongStatus
    <2>3. CASE ShowPage
      BY <2>2, <2>3 DEF ShowPage, Count
    <2>4. ASSUME NEW t \in Readers, Report(t)  PROVE Step
      <3>1. seen \in [Readers -> {"idle", "none", "some"}] /\ seen' = [seen EXCEPT ![t] = "idle"]
        BY <1>1, <2>4 DEF Report, TypeOK
      <3>2. seen[t] \in {"idle", "none", "some"} /\ seen'[t] = "idle"
        BY <3>1
      <3>3. CASE seen[t] = "idle"
        BY <2>2, <2>4, <3>3 DEF Report, Counted, Count
      <3>4. CASE seen[t] = "none"
        <4>1. Stale
          BY <3>2, <3>4
        <4> QED
          BY <4>1
      <3>5. CASE seen[t] = "some"
        BY <2>2, <2>4, <3>5 DEF Report, Counted
      <3> QED
        BY <3>2, <3>3, <3>4, <3>5
    <2>5. ASSUME NEW t \in Readers, CountTokens(t)  PROVE Step
      BY <2>1, <2>5 DEF CountTokens, pi
    <2>6. CASE CodeExpires \/ AdminNewCode
      BY <2>1, <2>6 DEF CodeExpires, AdminNewCode
    <2>7. CASE AdminRevoke
      BY <2>2, <2>7 DEF AdminRevoke
    <2>8. ASSUME NEW r \in calls, Run(r)  PROVE Step
      BY <2>1, <2>2, <2>8 DEF Run, RunPair, Admit, RunUnpair, RunSync, pi
    <2>9. ASSUME NEW r \in calls, Receive(r) \/ GiveUp(r)  PROVE Step
      BY <2>1, <2>9 DEF Receive, GiveUp, pi
    <2>10. ASSUME NEW p \in Phones, StartUnpair(p) \/ StartSync(p)  PROVE Step
      BY <2>1, <2>10 DEF StartUnpair, StartSync, pi
    <2>11. CASE UNCHANGED vars
      BY <2>1, <2>11 DEF vars, pi
    <2> HIDE DEF Step
    <2> QED
      BY <1>1, <2>3, <2>4, <2>5, <2>6, <2>7, <2>8, <2>9, <2>10, <2>11
      DEF Next, Refresh, ReadCode, StartPair, AnswerStatus
  <1> QED
    BY TypeCorrect, <1>1, PTL DEF Spec, WaitsOnlyIfStale

\* A code is replaced by nothing but its expiry or an admin.
THEOREM CodesLast == Spec => CodeLasts
  <1> DEFINE Step == \A c \in Valid : c \in Valid' \/ AdminNewCode \/ CodeExpires
  <1>1. ASSUME TypeOK, [Next]_vars
        PROVE  [Step]_vars
    <2>1. CASE UNCHANGED vars
      BY <2>1
    <2>2. CASE ShowCode
      BY <1>1, <2>2, ShowCodeKeeps
    <2>3. ASSUME UNCHANGED <<active, old>>  PROVE Step
      BY <2>3 DEF Valid
    <2>4. ASSUME active' = Valid, old' = {}  PROVE Step
      BY <2>4 DEF Valid
    <2>5. CASE AdminNewCode \/ CodeExpires
      BY <2>5
    <2>6. CASE AdminRevoke
      BY <2>3, <2>6 DEF AdminRevoke
    <2>7. ASSUME NEW r \in calls, Run(r)  PROVE Step
      BY <2>3, <2>4, <2>7 DEF Run, RunPair, Admit, RunUnpair, RunSync, pi
    <2>8. ASSUME NEW r \in calls, Receive(r) \/ GiveUp(r)  PROVE Step
      BY <2>3, <2>8 DEF Receive, GiveUp, pi
    <2>9. ASSUME NEW p \in Phones, StartUnpair(p) \/ StartSync(p)  PROVE Step
      BY <2>3, <2>9 DEF StartUnpair, StartSync, pi
    <2>10. ASSUME NEW t \in Readers, CountTokens(t) \/ AnswerStatus(t)  PROVE [Step]_vars
      BY <2>2, <2>3, <2>10 DEF CountTokens, AnswerStatus, pi
    <2> QED
      BY <1>1, <2>1, <2>2, <2>5, <2>6, <2>7, <2>8, <2>9, <2>10
      DEF Next, Refresh, ShowPage, ReadCode, StartPair
  <1> QED
    BY TypeCorrect, <1>1, PTL DEF Spec, CodeLasts

----------------------------------------------------------------------------
(* Pairing implements TokenRegistry. *)

\* The result of a call that pairs is a token of the phone that made it.
RepliesAreOwn ==
    \A r \in calls :
        r.kind = "pair" /\ r.result # 0 => r.result \in Tokens /\ owner[r.result] = r.phone

\* TokenOf(p) is the one valid token of p.
TokenIs(p, t) ==
    \/ t = 0 /\ \A u \in live : owner[u] # p
    \/ t \in live /\ \A u \in live : owner[u] = p <=> u = t

TokenFacts == \A p \in Phones : TokenIs(p, TokenOf(p))

LEMMA OneTokenOf == TypeOK /\ LiveIsNewest => TokenFacts
  <1> SUFFICES ASSUME TypeOK, LiveIsNewest, NEW p \in Phones
               PROVE  TokenIs(p, TokenOf(p))
    BY DEF TokenFacts
  <1>1. CASE \A t \in live : owner[t] # p
    BY <1>1 DEF TokenIs, TokenOf
  <1>2. CASE \E t \in live : owner[t] = p
    <2>1. TokenOf(p) \in live /\ owner[TokenOf(p)] = p
      BY <1>2 DEF TokenOf
    <2>2. ASSUME NEW t \in live, NEW u \in live, owner[t] = p, owner[u] = p
          PROVE  t = u
      <3>1. t \in TokensOf(owner[u]) /\ u \in TokensOf(owner[t])
        BY <2>2 DEF TokensOf, TypeOK
      <3>2. t <= u /\ u <= t
        BY <3>1 DEF LiveIsNewest
      <3>3. t \in Int /\ u \in Int
        BY DEF TypeOK, Tokens
      <3> QED
        BY <3>2, <3>3
    <2> QED
      BY <2>1, <2>2 DEF TokenIs
  <1> QED
    BY <1>1, <1>2

\* No reply is written for another phone, and no token changes hands.
LEMMA RepliesNext ==
    ASSUME TypeOK, RepliesAreOwn, [Next]_vars
    PROVE  RepliesAreOwn'
  <1>1. owner \in Seq(Phones) /\ Len(owner) \in Nat /\ calls \subseteq Call
    BY DEF TypeOK
  <1>2. ASSUME owner' = owner,
               \A q \in calls' : q.kind = "pair" /\ q.result # 0 =>
                   \E r \in calls : r.kind = "pair" /\ r.result = q.result /\ r.phone = q.phone
        PROVE  RepliesAreOwn'
    BY <1>2 DEF RepliesAreOwn, Tokens
  <1>3. ASSUME owner' = owner, calls' \subseteq calls  PROVE RepliesAreOwn'
    BY <1>2, <1>3
  <1>4. ASSUME Refresh \/ \E t \in Readers : CountTokens(t) \/ AnswerStatus(t)
        PROVE  RepliesAreOwn'
    BY <1>3, <1>4 DEF Refresh, ShowPage, CountTokens, AnswerStatus, Report, pi
  <1>5. ASSUME NEW p \in Phones, NEW a \in Nat, NEW k \in {"pair", "unpair", "sync"},
               Send(p, k, a), owner' = owner
        PROVE  RepliesAreOwn'
    <2>1. \A q \in calls' \ calls : q.result = 0
      BY <1>1, <1>5, SendIsCall
    <2> QED
      BY <1>2, <1>5, <2>1
  <1>6. ASSUME NEW r \in calls, RunPair(r)  PROVE RepliesAreOwn'
    <2>1. r.phone \in Phones /\ r \in Call
      BY <1>1 DEF Call
    <2>2. CASE Answer(r, 0) /\ UNCHANGED pi
      <3>1. \A q \in calls' \ calls : q.result = 0
        BY <1>1, <2>2, AnswerIsCall
      <3> QED
        BY <1>2, <2>2, <3>1 DEF pi
    <2>3. CASE owner' = Append(owner, r.phone) /\ Answer(r, Len(owner) + 1)
      <3> DEFINE n == Len(owner) + 1
      <3>1. /\ Len(owner') = n /\ owner'[n] = r.phone /\ n \in Nat /\ n \in 1 .. n
            /\ \A t \in 1 .. Len(owner) : owner'[t] = owner[t] /\ t \in 1 .. n
        BY <1>1, <2>1, <2>3
      <3>2. \A q \in calls' \ calls : q.phone = r.phone /\ q.result = n
        BY <2>1, <2>3 DEF Answer, Call
      <3> HIDE DEF n
      <3> QED
        BY <3>1, <3>2 DEF RepliesAreOwn, Tokens
    <2> QED
      BY <1>6, <2>2, <2>3 DEF RunPair
  <1>7. ASSUME NEW r \in calls, Admit(r) \/ RunUnpair(r) \/ RunSync(r)  PROVE RepliesAreOwn'
    <2>1. r \in Call /\ r.kind # "pair" /\ owner' = owner
      BY <1>1, <1>7 DEF Admit, RunUnpair, RunSync, pi
    <2>2. \A q \in calls' \ calls : q.kind = r.kind
      <3>1. CASE calls' = (calls \ {r}) \cup {[r EXCEPT !.at = "admitted"]}
        BY <2>1, <3>1 DEF Call
      <3>2. CASE Answer(r, 0) \/ Answer(r, 1)
        BY <1>1, <3>2, AnswerIsCall
      <3> QED
        BY <1>7, <3>1, <3>2 DEF Admit, RunUnpair, RunSync
    <2> QED
      BY <1>2, <2>1, <2>2
  <1>8. ASSUME NEW r \in calls, Receive(r) \/ GiveUp(r)  PROVE RepliesAreOwn'
    <2>1. r \in Call /\ owner' = owner
      BY <1>1, <1>8 DEF Receive, GiveUp, pi
    <2>2. \A q \in calls' \ calls : q.kind = r.kind /\ q.result = r.result /\ q.phone = r.phone
      BY <1>8, <2>1 DEF Receive, GiveUp, Call
    <2> QED
      BY <1>2, <2>1, <2>2
  <1>9. ASSUME NEW p \in Phones, ReadCode(p) \/ StartPair(p) \/ StartUnpair(p) \/ StartSync(p)
        PROVE  RepliesAreOwn'
    <2>1. read[p] \in Nat /\ held[p] \in Nat
      BY DEF TypeOK
    <2> QED
      BY <1>3, <1>5, <1>9, <2>1
      DEF ReadCode, ShowPage, StartPair, Report, StartUnpair, StartSync, pi
  <1>10. CASE CodeExpires \/ AdminNewCode \/ AdminRevoke \/ UNCHANGED vars
    BY <1>3, <1>10 DEF CodeExpires, AdminNewCode, AdminRevoke, vars, pi
  <1> QED
    BY <1>4, <1>6, <1>7, <1>8, <1>9, <1>10 DEF Next, Run

\* A pairing, an unpairing and a revocation each change the valid tokens as
\* TokenRegistry lets them, and nothing else does.
LEMMA ValidTokensKept ==
    ASSUME TokenFacts, TokenFacts', TypeOK, owner' = owner, live' = live
    PROVE  [p \in Phones |-> TokenOf(p)]' = [p \in Phones |-> TokenOf(p)]
  <1>1. ASSUME NEW p \in Phones  PROVE TokenOf(p)' = TokenOf(p)
    BY DEF TokenOf
  <1> QED
    BY <1>1

LEMMA PairGrants ==
    ASSUME TokenFacts, TokenFacts', TypeOK, NEW r \in calls, RunPair(r), r.arg \in Valid
    PROVE  Registry!Grant(r.phone)
  <1>1. PICK p \in Phones : p = r.phone
    BY DEF TypeOK, Call
  <1>2. PICK n \in Nat : n = Len(owner) + 1
    BY DEF TypeOK
  <1>3. /\ owner' = Append(owner, p) /\ owner \in Seq(Phones) /\ held' = held
        /\ live' = (live \ Superseded(p)) \cup {n}
        /\ live \subseteq 1 .. Len(owner)
    BY <1>1, <1>2 DEF RunPair, phone, TypeOK, Tokens
  <1>4. /\ owner'[n] = p /\ n \notin live /\ 0 \notin live /\ 0 \notin live'
        /\ \A t \in live : owner'[t] = owner[t]
    BY <1>2, <1>3
  <1>5. ASSUME NEW t \in live  PROVE t \in Superseded(p) => owner[t] = p \/ Registry!Replaces(p, owner[t])
    BY <1>5 DEF Superseded, TokensOf, Registry!Replaces
  <1>6. ASSUME NEW t \in live  PROVE owner[t] = p => t \in Superseded(p)
    BY <1>3, <1>6 DEF Superseded, TokensOf, Tokens
  <1> DEFINE gone == {q \in Phones : q # p /\ TokenOf(q) # 0 /\ TokenOf(q) \in Superseded(p)}
  <1>7. gone \subseteq {q \in Phones : Registry!Replaces(p, q)}
    <2> SUFFICES ASSUME NEW q \in gone  PROVE Registry!Replaces(p, q)
      OBVIOUS
    <2>1. TokenOf(q) \in live /\ owner[TokenOf(q)] = q
      BY DEF TokenFacts, TokenIs
    <2> QED
      BY <1>5, <2>1
  <1>8. TokenOf(p)' = n
    BY <1>3, <1>4 DEF TokenFacts, TokenIs
  <1>9. ASSUME NEW q \in Phones, q # p
        PROVE  TokenOf(q)' = IF q \in gone THEN 0 ELSE TokenOf(q)
    <2>1. CASE q \in gone
      <3>1. TokenOf(q) \in live /\ \A u \in live : owner[u] = q <=> u = TokenOf(q)
        BY <2>1 DEF TokenFacts, TokenIs
      <3>2. \A u \in live' : owner'[u] # q
        BY <1>3, <1>4, <1>9, <2>1, <3>1
      <3> QED
        BY <2>1, <3>2 DEF TokenFacts, TokenIs
    <2>2. CASE q \notin gone /\ TokenOf(q) # 0
      <3>1. TokenOf(q) \in live /\ owner[TokenOf(q)] = q
        BY <2>2 DEF TokenFacts, TokenIs
      <3>2. TokenOf(q) \in live' /\ owner'[TokenOf(q)] = q
        BY <1>3, <1>4, <1>9, <2>2, <3>1
      <3> QED
        BY <2>2, <3>2 DEF TokenFacts, TokenIs
    <2>3. CASE TokenOf(q) = 0
      <3>1. \A u \in live : owner[u] # q
        BY <1>4, <2>3 DEF TokenFacts, TokenIs
      <3>2. \A u \in live' : owner'[u] # q
        BY <1>3, <1>4, <1>9, <3>1
      <3> QED
        BY <2>3, <3>2 DEF TokenFacts, TokenIs
    <2> QED
      BY <2>1, <2>2, <2>3
  <1> HIDE DEF gone
  <1>10. [q \in Phones |-> TokenOf(q)]' =
             [q \in Phones |-> IF q = p THEN n ELSE IF q \in gone THEN 0 ELSE TokenOf(q)]
    BY <1>8, <1>9
  <1> QED
    BY <1>1, <1>2, <1>3, <1>7, <1>10 DEF Registry!Grant

LEMMA UnpairUnpairs ==
    ASSUME TokenFacts, TokenFacts', TypeOK, NEW r \in calls, RunUnpair(r)
    PROVE  Registry!Unpair(r.phone)
  <1>1. PICK p \in Phones : p = r.phone
    BY DEF TypeOK, Call
  <1>2. /\ owner' = owner /\ held' = held /\ live' = live \ TokensOf(p)
        /\ live \subseteq Tokens /\ 0 \notin live
    BY <1>1 DEF RunUnpair, phone, TypeOK, Tokens
  <1>3. \A t \in live : t \in TokensOf(p) <=> owner[t] = p
    BY <1>2 DEF TokensOf
  <1>4. TokenOf(p)' = 0
    BY <1>2, <1>3 DEF TokenFacts, TokenIs
  <1>5. ASSUME NEW q \in Phones, q # p  PROVE TokenOf(q)' = TokenOf(q)
    BY <1>2, <1>3, <1>5 DEF TokenFacts, TokenIs
  <1>6. [q \in Phones |-> TokenOf(q)]' = [[q \in Phones |-> TokenOf(q)] EXCEPT ![p] = 0]
    BY <1>4, <1>5
  <1> QED
    BY <1>1, <1>2, <1>6 DEF Registry!Unpair

LEMMA RevokeRevokes ==
    ASSUME TokenFacts', AdminRevoke
    PROVE  Registry!RevokeAll
  <1>1. owner' = owner /\ held' = held /\ live' = {}
    BY DEF AdminRevoke, phone
  <1>2. ASSUME NEW p \in Phones  PROVE TokenOf(p)' = 0
    BY <1>1 DEF TokenFacts, TokenIs
  <1>3. [p \in Phones |-> TokenOf(p)]' = Registry!None
    BY <1>2 DEF Registry!None
  <1> QED
    BY <1>1, <1>3 DEF Registry!RevokeAll

\* A phone comes to hold no token but its own, or none.
LEMMA PhoneHolds ==
    ASSUME TypeOK, RepliesAreOwn, NEW r \in calls, Receive(r) \/ GiveUp(r)
    PROVE  held' = held \/ \E t \in 0 .. Len(owner) :
               (t # 0 => owner[t] = r.phone) /\ held' = [held EXCEPT ![r.phone] = t]
  <1>1. r \in Call /\ Len(owner) \in Nat
    BY DEF TypeOK
  <1>2. PICK q, result : /\ q \in Call /\ q.kind = r.kind /\ q.phone = r.phone
                         /\ Store(q, result) /\ result \in {0, r.result}
    <2>1. CASE Receive(r)
      BY <1>1, <2>1 DEF Receive
    <2>2. CASE GiveUp(r)
      <3>1. [r EXCEPT !.at = "sent"] \in Call /\ [r EXCEPT !.at = "sent"].kind = r.kind
            /\ [r EXCEPT !.at = "sent"].phone = r.phone
        BY <1>1 DEF Call
      <3> QED
        BY <2>2, <3>1 DEF GiveUp
    <2> QED
      BY <2>1, <2>2
  <1>3. CASE r.kind = "pair"
    BY <1>1, <1>2, <1>3 DEF Store, RepliesAreOwn, Tokens
  <1>4. CASE r.kind = "unpair"
    BY <1>1, <1>2, <1>4 DEF Store
  <1>5. CASE r.kind = "sync"
    BY <1>2, <1>5 DEF Store
  <1> QED
    BY <1>1, <1>3, <1>4, <1>5 DEF Call

\* The pairing of the code implements TokenRegistry, for every set of phones:
\* whatever is late, lost or sent twice, a valid token lasts until its own phone
\* pairs again or is unpaired, all are revoked, or a phone with a stable id takes
\* the place of one with an old id; a token that is no longer valid never is
\* again; and no phone holds the token of another.
THEOREM PairingImplementsTokenRegistry == Spec => TokensAreKept
  <1> DEFINE valid == [p \in Phones |-> TokenOf(p)]
  <1>1. Init => RepliesAreOwn /\ Registry!Init
    <2> SUFFICES ASSUME Init  PROVE RepliesAreOwn /\ Registry!Init
      OBVIOUS
    <2>1. \A p \in Phones : TokenOf(p) = 0
      BY DEF Init, TokenOf
    <2> QED
      BY <2>1 DEF Init, RepliesAreOwn, Registry!Init, Registry!None
  <1>2. TypeOK /\ RepliesAreOwn /\ TokenFacts /\ TokenFacts' /\ [Next]_vars
            => [Registry!Next]_<<owner, valid, held>>
    <2> SUFFICES ASSUME TypeOK, RepliesAreOwn, TokenFacts, TokenFacts', [Next]_vars
                 PROVE  Registry!Next \/ UNCHANGED <<owner, valid, held>>
      BY DEF Registry!Next
    <2>1. ASSUME UNCHANGED <<owner, live, held>>  PROVE UNCHANGED <<owner, valid, held>>
      BY <2>1, ValidTokensKept
    <2>2. ASSUME NEW r \in calls, RunPair(r)
          PROVE  Registry!Next \/ UNCHANGED <<owner, valid, held>>
      <3>1. r.phone \in Phones
        BY DEF TypeOK, Call
      <3>2. CASE r.arg \in Valid
        BY <2>2, <3>1, <3>2, PairGrants DEF Registry!Next
      <3>3. CASE r.arg \notin Valid
        BY <2>1, <2>2, <3>3 DEF RunPair, pi, phone
      <3> QED
        BY <3>2, <3>3
    <2>3. ASSUME NEW r \in calls, RunUnpair(r)  PROVE Registry!Next
      <3>1. r.phone \in Phones
        BY DEF TypeOK, Call
      <3> QED
        BY <2>3, <3>1, UnpairUnpairs DEF Registry!Next
    <2>4. CASE AdminRevoke
      BY <2>4, RevokeRevokes DEF Registry!Next
    <2>5. ASSUME NEW r \in calls, Receive(r) \/ GiveUp(r)
          PROVE  Registry!Next \/ UNCHANGED <<owner, valid, held>>
      <3>1. r.phone \in Phones /\ UNCHANGED <<owner, live>>
        BY <2>5 DEF TypeOK, Call, Receive, GiveUp, pi
      <3>2. valid' = valid
        BY <3>1, ValidTokensKept
      <3>3. CASE held' = held
        BY <3>1, <3>2, <3>3
      <3>4. ASSUME NEW t \in 0 .. Len(owner), t # 0 => owner[t] = r.phone,
                   held' = [held EXCEPT ![r.phone] = t]
            PROVE  Registry!Next
        <4>1. Registry!Hold(r.phone, t)
          BY <3>1, <3>2, <3>4 DEF Registry!Hold
        <4> QED
          BY <3>1, <4>1 DEF Registry!Next
      <3> QED
        BY <2>5, <3>3, <3>4, PhoneHolds
    <2>6. ASSUME NEW r \in calls, Admit(r) \/ RunSync(r)
          PROVE  UNCHANGED <<owner, valid, held>>
      BY <2>1, <2>6 DEF Admit, RunSync, pi, phone
    <2>7. ASSUME NEW p \in Phones, ReadCode(p) \/ StartPair(p) \/ StartUnpair(p) \/ StartSync(p)
          PROVE  UNCHANGED <<owner, valid, held>>
      BY <2>1, <2>7 DEF ReadCode, ShowPage, StartPair, Report, StartUnpair, StartSync, pi, phone
    <2>8. CASE Refresh \/ CodeExpires \/ AdminNewCode \/ UNCHANGED vars
      BY <2>1, <2>8 DEF Refresh, ShowPage, CodeExpires, AdminNewCode, vars, pi, phone
    <2>9. ASSUME NEW t \in Readers, CountTokens(t) \/ AnswerStatus(t)
          PROVE  UNCHANGED <<owner, valid, held>>
      BY <2>1, <2>9 DEF CountTokens, AnswerStatus, Report, pi, phone
    <2> QED
      BY <2>2, <2>3, <2>4, <2>5, <2>6, <2>7, <2>8, <2>9 DEF Next, Run
  <1> HIDE DEF valid
  <1> QED
    BY <1>1, <1>2, TypeCorrect, OneTokenPerPhone, OneTokenOf, RepliesNext, PTL
    DEF Spec, TokensAreKept, Registry!Spec, valid

============================================================================
