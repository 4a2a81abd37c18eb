------------------------------ MODULE Pairing ------------------------------
(***************************************************************************)
(* Pair codes and tokens.  The Pi shows a code, a phone that sends it back *)
(* in POST /pair is given a token, and POST /sync and POST /unpair are     *)
(* admitted with a token that is not revoked.  The handlers of the Pi that *)
(* change the database run one at a time.  Two reads come before the lock: *)
(* the check of a token (require_token), and the count of tokens that a    *)
(* status request writes its status from (update_device_state).            *)
(*                                                                         *)
(* Codes and tokens are numbered in the order they are made.  0 is none.   *)
(***************************************************************************)
EXTENDS Integers, Sequences

CONSTANTS Phones,     \* phone ids
          Stable,     \* the ids made from ANDROID_ID ("android-...")
          Legacy,     \* the ids of older apps, which are UUIDs
          Readers,    \* threads of the Pi that answer status requests
          MaxTrouble  \* bound on expiries, admin actions, failed calls, unpairings,
                      \* and status requests that others overtake

ASSUME PairingAssumption ==
  /\ Stable \subseteq Phones /\ Legacy \subseteq Phones
  /\ Stable \cap Legacy = {}
  /\ MaxTrouble \in Nat

VARIABLES codes,   \* how many codes have been made
          active,  \* pair_codes: the codes marked active
          old,     \* the active codes whose expires_at has passed
          owner,   \* tokens: the phone each token was issued to
          live,    \* tokens: the ones that are not revoked
          waiting, \* device_state.connection_status is "waiting_for_pair",
                   \* neither "paired" nor "synced"
          seen,    \* what the status request that a thread is about to answer
                   \* has counted: tokens ("some") or "none"; or "idle"
          read,    \* phone: the code its user has read from the bag, or 0
          held,    \* phone: the stored auth_token, or 0
          refused, \* phone: the token the bag refused last, or 0
          calls,   \* requests and replies under way
          trouble  \* how much has gone wrong

pi == <<codes, active, old, owner, live, waiting>>
phone == <<read, held, refused>>
vars == <<pi, seen, phone, calls, trouble>>

Tokens == 1 .. Len(owner)
TokensOf(p) == {t \in Tokens : owner[t] = p}
Valid == active \ old

Init ==
  /\ codes = 1 /\ active = {1} /\ old = {}
  /\ owner = <<>> /\ live = {}
  /\ waiting = TRUE
  /\ seen = [t \in Readers |-> "idle"]
  /\ read = [p \in Phones |-> 0]
  /\ held = [p \in Phones |-> 0]
  /\ refused = [p \in Phones |-> 0]
  /\ calls = {}
  /\ trouble = 0

Count == IF live = {} THEN "none" ELSE "some"

\* What a thread that answers now has counted, then or before.
Counted(t) == IF seen[t] = "idle" THEN Count ELSE seen[t]

Trouble == trouble < MaxTrouble /\ trouble' = trouble + 1
----------------------------------------------------------------------------
(* The Pi.                                                                 *)

\* Wrong: the code is not counted.
NewCodeUncounted ==
  /\ active' = {codes + 1}
  /\ old' = {}
  /\ UNCHANGED codes

NewCode ==
  /\ codes' = codes + 1
  /\ active' = {codes + 1}
  /\ old' = {}

\* Wrong: a new code each time.
ShowNewCode == NewCode

\* Pages and status requests show the valid code, and make one if there is
\* none.
ShowCode ==
  IF Valid # {} THEN active' = Valid /\ old' = {} /\ UNCHANGED codes ELSE NewCode

\* A page takes the lock with the codes, before it counts the tokens.
ShowPage ==
  /\ ShowCode
  /\ waiting' = (Count = "none")
  /\ UNCHANGED <<owner, live>>

Refresh == ShowPage /\ UNCHANGED <<seen, phone, calls, trouble>>

\* A status request counts the tokens without a lock, in update_device_state,
\* and others may go before it writes ...
CountTokens(t) ==
  /\ Trouble
  /\ seen[t] = "idle"
  /\ seen' = [seen EXCEPT ![t] = Count]
  /\ UNCHANGED <<pi, phone, calls>>

\* Wrong: the count is kept for the next request.
ReportAgain(t) ==
  /\ waiting' = (Counted(t) = "none")
  /\ UNCHANGED <<owner, live, seen>>

\* ... the status of what it counted, whatever was paired since.
Report(t) ==
  /\ waiting' = (Counted(t) = "none")
  /\ seen' = [seen EXCEPT ![t] = "idle"]
  /\ UNCHANGED <<owner, live>>

\* GET /device/status, in the transaction it writes in, shows the code too;
\* GET /sync/status does not.
AnswerStatus(t) ==
  /\ Report(t)
  /\ ShowCode \/ UNCHANGED <<codes, active, old>>
  /\ UNCHANGED <<phone, calls, trouble>>

\* Five minutes after it was made.
CodeExpires ==
  /\ Trouble
  /\ \E c \in Valid : old' = old \cup {c}
  /\ UNCHANGED <<codes, active, owner, live, waiting, seen, phone, calls>>

AdminNewCode ==
  /\ Trouble
  /\ NewCode
  /\ UNCHANGED <<owner, live, waiting, seen, phone, calls>>

AdminRevoke ==
  /\ Trouble
  /\ live' = {}
  /\ waiting' = TRUE
  /\ UNCHANGED <<codes, active, old, owner, seen, phone, calls>>

\* Wrong: only those of older apps.
SupersededOthers(p) ==
  LET others == {t \in live : owner[t] # p}
  IN  IF p \in Stable /\ \A t \in others : owner[t] \in Legacy THEN others ELSE {}

\* Wrong: those of all phones.
SupersededAll(p) == live

\* The tokens a pairing of p revokes: its own, and all others if p has a
\* stable id and only phones of older apps have one.
Superseded(p) ==
  LET others == {t \in live : owner[t] # p}
  IN  TokensOf(p) \cup
      (IF p \in Stable /\ \A t \in others : owner[t] \in Legacy THEN others ELSE {})

\* The reply to r goes to the phone if it still waits for it.
Answer(r, result) ==
  calls' = (calls \ {r}) \cup
           (IF r.heard THEN {[r EXCEPT !.at = "answered", !.result = result]} ELSE {})

\* The code is not used up: it pairs other phones until it expires.
RunPair(r) ==
  /\ r.kind = "pair" /\ r.at = "sent"
  /\ \/ /\ r.arg \in Valid
        /\ active' = Valid /\ old' = {}
        /\ owner' = Append(owner, r.phone)
        /\ live' = (live \ Superseded(r.phone)) \cup {Len(owner) + 1}
        /\ waiting' = FALSE
        /\ Answer(r, Len(owner) + 1)
        /\ UNCHANGED codes
     \/ /\ r.arg \notin Valid
        /\ Answer(r, 0)
        /\ UNCHANGED pi
  /\ UNCHANGED <<seen, phone, trouble>>

\* require_token, on a connection of its own.
Admit(r) ==
  /\ r.kind \in {"unpair", "sync"} /\ r.at = "sent"
  /\ IF r.arg \in live THEN calls' = (calls \ {r}) \cup {[r EXCEPT !.at = "admitted"]}
                       ELSE Answer(r, 0)
  /\ UNCHANGED <<pi, seen, phone, trouble>>

\* Wrong: as if no other phone were paired.
RunUnpairAll(r) ==
  /\ r.kind = "unpair" /\ r.at = "admitted"
  /\ live' = live \ TokensOf(r.phone)
  /\ waiting' = TRUE
  /\ Answer(r, 1)
  /\ UNCHANGED <<codes, active, old, owner, seen, phone, trouble>>

RunUnpair(r) ==
  /\ r.kind = "unpair" /\ r.at = "admitted"
  /\ live' = live \ TokensOf(r.phone)
  /\ waiting' = (live' = {})
  /\ Answer(r, 1)
  /\ UNCHANGED <<codes, active, old, owner, seen, phone, trouble>>

RunSync(r) ==
  /\ r.kind = "sync" /\ r.at = "admitted"
  /\ waiting' = FALSE
  /\ Answer(r, 1)
  /\ UNCHANGED <<codes, active, old, owner, live, seen, phone, trouble>>

Run(r) == RunPair(r) \/ Admit(r) \/ RunUnpair(r) \/ RunSync(r)
----------------------------------------------------------------------------
(* The phones.                                                             *)

\* A phone makes one call of each kind at a time.
Calling(p, kind) == \E r \in calls : r.phone = p /\ r.kind = kind /\ r.heard

Send(p, kind, arg) ==
  /\ ~Calling(p, kind)
  /\ calls' = calls \cup {[phone |-> p, kind |-> kind, arg |-> arg,
                           at |-> "sent", heard |-> TRUE, result |-> 0]}

\* Wrong: a refused token is not noticed.
NeedsFirstPairing(p) == held[p] = 0

\* The app asks for pairing if it has no token or the bag refuses the one
\* it has ("This phone needs to reconnect to the bag.").
NeedsPairing(p) == held[p] \in {0, refused[p]}

\* The user looks at the screen of the bag, or scans its QR code.  A user
\* may also pair a phone that is paired.
ReadCode(p) ==
  /\ read[p] = 0
  /\ IF NeedsPairing(p) THEN UNCHANGED trouble ELSE Trouble
  /\ ShowPage
  /\ read' = [read EXCEPT ![p] = CHOOSE c \in active' : TRUE]
  /\ UNCHANGED <<seen, held, refused, calls>>

\* perform_pairing up to the reply: a probe, which is a status request that
\* is answered, and POST /pair.
StartPair(p) ==
  /\ read[p] # 0
  /\ \E t \in Readers : Report(t)
  /\ ShowCode
  /\ Send(p, "pair", read[p])
  /\ UNCHANGED <<phone, trouble>>

StartUnpair(p) ==
  /\ held[p] # 0
  /\ Trouble
  /\ Send(p, "unpair", held[p])
  /\ UNCHANGED <<pi, seen, phone>>

StartSync(p) ==
  /\ ~NeedsPairing(p)
  /\ Send(p, "sync", held[p])
  /\ UNCHANGED <<pi, seen, phone, trouble>>

\* What the phone stores when a call has returned, with the result or with
\* none: unpair_bag forgets the token in every case.
Store(r, result) ==
  LET p == r.phone IN
  \/ /\ r.kind = "pair"
     /\ held' = IF result = 0 THEN held ELSE [held EXCEPT ![p] = result]
     /\ read' = [read EXCEPT ![p] = 0]
     /\ UNCHANGED refused
  \/ /\ r.kind = "unpair"
     /\ held' = [held EXCEPT ![p] = 0]
     /\ UNCHANGED <<read, refused>>
  \/ /\ r.kind = "sync"
     /\ refused' = IF r.at = "answered" /\ result = 0
                   THEN [refused EXCEPT ![p] = r.arg] ELSE refused
     /\ UNCHANGED <<read, held>>

Receive(r) ==
  /\ r.at = "answered"
  /\ Store(r, r.result)
  /\ calls' = calls \ {r}
  /\ UNCHANGED <<pi, seen, trouble>>

\* The phone gives up: the request or the reply is lost, or the request
\* still reaches the Pi, or is being run there.
GiveUp(r) ==
  /\ r.heard
  /\ Trouble
  /\ Store([r EXCEPT !.at = "sent"], 0)
  /\ \/ calls' = calls \ {r}
     \/ r.at # "answered" /\ calls' = (calls \ {r}) \cup {[r EXCEPT !.heard = FALSE]}
  /\ UNCHANGED <<pi, seen>>
----------------------------------------------------------------------------
Next ==
  \/ Refresh \/ CodeExpires \/ AdminNewCode \/ AdminRevoke
  \/ \E t \in Readers : CountTokens(t) \/ AnswerStatus(t)
  \/ \E p \in Phones : ReadCode(p) \/ StartPair(p) \/ StartUnpair(p) \/ StartSync(p)
  \/ \E r \in calls : Run(r) \/ Receive(r) \/ GiveUp(r)

Spec == Init /\ [][Next]_vars

\* Users try to pair until they have, phones sync, requests are served.
Fairness ==
  /\ \A p \in Phones : /\ WF_vars(NeedsPairing(p) /\ ReadCode(p))
                       /\ WF_vars(StartPair(p))
                       /\ WF_vars(StartSync(p))
  /\ \A p \in Phones, k \in {"pair", "unpair", "sync"} :
       WF_vars(\E r \in calls : r.phone = p /\ r.kind = k /\ (Run(r) \/ Receive(r)))

FairSpec == Spec /\ Fairness
----------------------------------------------------------------------------
Call == [phone : Phones, kind : {"pair", "unpair", "sync"}, arg : Nat,
         at : {"sent", "admitted", "answered"}, heard : BOOLEAN, result : Nat]

TypeOK ==
  /\ codes \in Nat \ {0}
  /\ active \subseteq 1 .. codes
  /\ old \subseteq active
  /\ owner \in Seq(Phones)
  /\ live \subseteq Tokens
  /\ waiting \in BOOLEAN
  /\ seen \in [Readers -> {"idle", "none", "some"}]
  /\ read \in [Phones -> 0 .. codes]
  /\ held \in [Phones -> 0 .. Len(owner)]
  /\ refused \in [Phones -> 0 .. Len(owner)]
  /\ calls \subseteq Call
  /\ trouble \in 0 .. MaxTrouble

\* A phone has one valid token at most, the one issued to it last, however
\* its pairings, late requests and lost replies follow one another
\* (revoke_superseded_phone_tokens).
LiveIsNewest ==
  \A t \in live : \A u \in TokensOf(owner[t]) : u <= t

\* The bag comes to say that it waits for a phone while one is paired, which
\* it should not, only by the status request that counted the tokens before:
\* no pairing, unpairing, sync or page does that, in any order
\* (update_device_state).
WrongStatus == waiting /\ live # {}
WaitsOnlyIfStale ==
  [][WrongStatus' => WrongStatus \/ \E t \in Readers : seen[t] = "none" /\ seen'[t] = "idle"]_vars

\* The code a user is typing in stays valid until it expires or somebody
\* asks for a new one: no status request or pairing replaces it
\* (active_pair_code, create_pair_code).
CodeLasts ==
  [][\A c \in Valid : c \in Valid' \/ AdminNewCode \/ CodeExpires]_vars

\* Pairing keeps the promise of TokenRegistry, with pairings, unpairings, late
\* requests and lost replies of several phones in any order: nobody's token is
\* revoked on another's account (but one of an older app), none comes back, and
\* no reply gives a phone the token of another (pair, unpair, require_token).
TokenOf(p) ==
  IF \E t \in live : owner[t] = p THEN CHOOSE t \in live : owner[t] = p ELSE 0
Registry == INSTANCE TokenRegistry WITH
  granted <- owner, valid <- [p \in Phones |-> TokenOf(p)], held <- held
TokensAreKept == Registry!Spec

\* However replies were lost, tokens revoked and requests delayed: once that
\* ends, every phone ends up with a token the bag accepts.
EventuallyPaired == <>[](\A p \in Phones : held[p] \in live)

\* And the wrong status that a status request left is put right by then, by a
\* sync or the next request.
EventuallyNotWaiting == <>[]~waiting

============================================================================
