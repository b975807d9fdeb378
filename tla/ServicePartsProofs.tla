-------------------------- MODULE ServicePartsProofs --------------------------
(* Proofs about the services that stand for themselves: SaleorClient,        *)
(* Keyring, RateLimit, Login, Registration and Erasure, each under its own   *)
(* specification and for every value of its constants.                       *)
EXTENDS SaleorClient, Keyring, RateLimit, Login, Registration, Erasure, FiniteSetTheorems, TLAPS

(***************************************************************************)
(* SaleorClient                                                            *)
(***************************************************************************)

\* How far a call has come bounds what it has sent, and what it has sent bounds
\* what Saleor can have carried out; a refused call is over and sent nothing.
SentOK ==
  \A c \in Calls :
    /\ sent[c] <= Attempts(c) /\ applied[c] <= sent[c]
    /\ at[c] = "send" => sent[c] < Attempts(c)
    /\ at[c] = "wait" => applied[c] < sent[c]
    /\ outcome[c] = "circuit_open" => at[c] = "idle" /\ sent[c] = 0

\* Unless a success failed to delete it the counter counts no more failures than
\* there were in a row; who is about to open the circuit, and no success was in
\* its way, has counted the threshold.
CountOK ==
  /\ failures <= streak \/ streak = Threshold \/ stale
  /\ stale => failures > 0
  /\ \A c \in Calls : at[c] = "trip" /\ c \notin void => streak = Threshold

ClientInv == ClientTypeOK /\ SentOK /\ CountOK

-----------------------------------------------------------------------------

LEMMA AttemptsBounded ==
  ASSUME NEW c \in Calls
  PROVE  Attempts(c) \in 1 .. MaxAttempts /\ (c \notin Reads => Attempts(c) = 1)
BY ClientConstants DEF Attempts

LEMMA RepliesAreTyped ==
  ASSUME NEW c \in Calls, NEW reply \in Replies
  PROVE  /\ Carries(c, reply) \subseteq {0, 1}
         /\ Outcome(reply) \in Outcomes \ {"circuit_open"}
BY DEF Replies, Carries, Outcome, Outcomes

LEMMA ClientInvInit == ClientInit => ClientInv
<1> SUFFICES ASSUME ClientInit PROVE ClientInv
  OBVIOUS
<1>0. /\ at = [c \in Calls |-> "idle"] /\ outcome = [c \in Calls |-> "none"]
      /\ sent = [c \in Calls |-> 0] /\ applied = [c \in Calls |-> 0]
  BY DEF ClientInit
<1>1. ClientTypeOK
  <2>1. healthy \in BOOLEAN /\ cacheUp \in BOOLEAN /\ open \in BOOLEAN /\ wasOpen \in BOOLEAN
    BY DEF ClientInit
  <2>2. troubles \in 0 .. MaxFaults /\ failures \in Nat /\ streak \in 0 .. Threshold
    BY ClientConstants DEF ClientInit
  <2>3. stale \in BOOLEAN /\ void \subseteq Calls
    BY DEF ClientInit
  <2>4. QED
    BY <1>0, <2>1, <2>2, <2>3, ClientConstants DEF ClientTypeOK, Steps, Outcomes
<1>2. SentOK
  <2>1. ASSUME NEW c \in Calls
        PROVE  /\ sent[c] <= Attempts(c) /\ applied[c] <= sent[c] /\ sent[c] = 0
               /\ at[c] = "idle" /\ outcome[c] = "none"
    <3>1. 0 <= Attempts(c)
      BY AttemptsBounded, ClientConstants
    <3>2. QED
      BY <1>0, <3>1
  <2>2. QED
    BY <2>1 DEF SentOK
<1>3. CountOK
  BY <1>0, ClientConstants DEF ClientInit, CountOK
<1>4. QED
  BY <1>1, <1>2, <1>3 DEF ClientInv

LEMMA RecordKeepsInv ==
  ASSUME NEW c \in Calls, ClientInv, at[c] \in {"failed", "incr"}, UNCHANGED world,
         Record(c, failures + 1)
  PROVE  ClientInv'
<1> USE ClientConstants, AttemptsBounded
    DEF ClientInv, ClientTypeOK, SentOK, CountOK, Steps, Outcomes, world, Goto, Return, Record
<1>1. ClientTypeOK'
  OBVIOUS
<1>2. SentOK'
  OBVIOUS
<1>3. CountOK'
  OBVIOUS
<1>4. QED
  BY <1>1, <1>2, <1>3

LEMMA ClientInvStep == ClientInv /\ [ClientNext]_clientVars => ClientInv'
<1> SUFFICES ASSUME ClientInv, [ClientNext]_clientVars PROVE ClientInv'
  OBVIOUS
<1> USE ClientConstants, AttemptsBounded
    DEF ClientInv, ClientTypeOK, SentOK, CountOK, Steps, Outcomes,
        world, circuit, call, recorded, Goto, Return
<1>1. ASSUME NEW c \in Calls, Begin(c) PROVE ClientInv'
  BY <1>1 DEF Begin
<1>2. ASSUME NEW c \in Calls, Send(c) PROVE ClientInv'
  BY <1>2 DEF Send
<1>3. ASSUME NEW c \in Calls, Receive(c) PROVE ClientInv'
  <2> DEFINE Took(reply, n) ==
        /\ applied' = [applied EXCEPT ![c] = @ + n]
        /\ outcome' = [outcome EXCEPT ![c] = Outcome(reply)]
        /\ at' = [at EXCEPT ![c] = IF reply \in {"data", "shape"} THEN "ok"
                                   ELSE IF reply \in {"busy", "lost"} /\ MayRetry(c) THEN "send"
                                   ELSE "failed"]
  <2>0. PICK reply \in Replies : \E n \in Carries(c, reply) : Took(reply, n)
    BY <1>3 DEF Receive
  <2>1. PICK n \in Carries(c, reply) : Took(reply, n)
    BY <2>0
  <2>2. n \in {0, 1} /\ Outcome(reply) \in Outcomes \ {"circuit_open"}
    BY RepliesAreTyped
  <2>3. at[c] = "wait" /\ UNCHANGED <<world, circuit, sent, recorded>>
    BY <1>3 DEF Receive
  <2>4. ClientTypeOK'
    BY <2>1, <2>2, <2>3
  <2>5. SentOK'
    BY <2>1, <2>2, <2>3 DEF MayRetry
  <2>6. CountOK'
    <3>1. \A d \in Calls : at'[d] = "trip" => at[d] = "trip"
      BY <2>1
    <3>2. QED
      BY <2>3, <3>1
  <2>7. QED
    BY <2>4, <2>5, <2>6
<1>4. ASSUME NEW c \in Calls, Count(c) PROVE ClientInv'
  <2>1. CASE cacheUp /\ failures = 0 /\ Record(c, 1)
    BY <1>4, <2>1, RecordKeepsInv DEF Count
  <2>2. CASE cacheUp /\ failures > 0 /\ Goto(c, "incr") /\ UNCHANGED <<circuit, recorded>>
    BY <1>4, <2>2 DEF Count
  <2>3. CASE ~cacheUp /\ Uncounted(c)
    BY <1>4, <2>3 DEF Count, Uncounted
  <2>4. QED
    BY <1>4, <2>1, <2>2, <2>3 DEF Count
<1>5. ASSUME NEW c \in Calls, Incr(c) PROVE ClientInv'
  <2>1. CASE cacheUp /\ failures > 0 /\ Record(c, failures + 1)
    BY <1>5, <2>1, RecordKeepsInv DEF Incr
  <2>2. CASE (~cacheUp \/ failures = 0) /\ Uncounted(c)
    BY <1>5, <2>2 DEF Incr, Uncounted
  <2>3. QED
    BY <1>5, <2>1, <2>2 DEF Incr
<1>6. ASSUME NEW c \in Calls, Trip(c) PROVE ClientInv'
  BY <1>6 DEF Trip
<1>7. ASSUME NEW c \in Calls, Mark(c) PROVE ClientInv'
  BY <1>7 DEF Mark
<1>8. ASSUME NEW c \in Calls, Reset(c) PROVE ClientInv'
  <2>1. stale' \in BOOLEAN /\ (stale' => failures' > 0)
    BY <1>8 DEF Reset
  <2>2. failures' \in Nat /\ (failures' = 0 \/ failures' = failures)
    BY <1>8 DEF Reset
  <2>3. QED
    BY <1>8, <2>1, <2>2 DEF Reset
<1>9. ASSUME NEW c \in Calls, Clear(c) PROVE ClientInv'
  <2>1. stale' \in BOOLEAN /\ (stale' => failures' > 0)
    BY <1>9 DEF Clear, Succeeded
  <2>2. failures' \in Nat /\ (failures' = 0 \/ failures' = failures)
    BY <1>9 DEF Clear
  <2>3. ClientTypeOK' /\ SentOK'
    BY <1>9, <2>1, <2>2 DEF Clear, Succeeded
  <2>4. failures' <= streak' \/ streak' = Threshold \/ stale'
    <3>1. streak' = 0
      BY <1>9 DEF Clear, Succeeded
    <3>2. CASE failures' = 0
      BY <3>1, <3>2
    <3>3. CASE failures' # 0
      <4>1. ~cacheUp /\ failures > 0
        BY <1>9, <3>3 DEF Clear
      <4>2. QED
        BY <1>9, <4>1 DEF Clear, Succeeded
    <3>4. QED
      BY <3>2, <3>3
  <2>5. ASSUME NEW d \in Calls, at'[d] = "trip" PROVE d \in void'
    <3>1. at[d] = "trip"
      BY <1>9, <2>5 DEF Clear
    <3>2. QED
      BY <1>9, <3>1 DEF Clear, Succeeded
  <2>6. QED
    BY <2>1, <2>3, <2>4, <2>5
<1>10. ASSUME NEW c \in Calls, Recover(c) PROVE ClientInv'
  BY <1>10 DEF Recover
<1>11. ASSUME NEW c \in Calls, Close(c) PROVE ClientInv'
  BY <1>11 DEF Close
<1>12. CASE CooldownEnds
  BY <1>12 DEF CooldownEnds
<1>13. CASE FailuresLapse
  <2>1. stale' \in BOOLEAN /\ (stale' => failures' > 0)
    BY <1>13 DEF FailuresLapse
  <2>2. failures' \in Nat /\ (failures' = 0 \/ failures' = failures)
    BY <1>13 DEF FailuresLapse
  <2>3. QED
    BY <1>13, <2>1, <2>2 DEF FailuresLapse
<1>14. CASE MarkLapses
  BY <1>14 DEF MarkLapses
<1>15. CASE Trouble
  <2>1. troubles' \in 0 .. MaxFaults
    BY <1>15 DEF Trouble
  <2>2. healthy' \in BOOLEAN /\ cacheUp' \in BOOLEAN
    BY <1>15 DEF Trouble
  <2>3. UNCHANGED <<circuit, call, recorded>>
    BY <1>15 DEF Trouble
  <2>4. QED
    BY <2>1, <2>2, <2>3
<1>16. CASE TroubleEnds
  BY <1>16 DEF TroubleEnds
<1>17. CASE UNCHANGED clientVars
  BY <1>17 DEF clientVars
<1>18. QED
  BY <1>1, <1>2, <1>3, <1>4, <1>5, <1>6, <1>7, <1>8, <1>9, <1>10, <1>11, <1>12, <1>13,
     <1>14, <1>15, <1>16, <1>17 DEF ClientNext, CallStep

LEMMA ClientInvAlways == ClientSpec => []ClientInv
BY ClientInvInit, ClientInvStep, PTL DEF ClientSpec

-----------------------------------------------------------------------------

\* The variables of the client keep their types; no call sends more than its
\* attempts.
THEOREM ClientTypeCorrect == ClientSpec => []ClientTypeOK
BY ClientInvAlways, PTL DEF ClientInv

\* However often requests time out, and whatever the breaker does meanwhile, one
\* call has Saleor carry out a mutation at most once.
THEOREM MutationsCarriedOutOnce == ClientSpec => []CarriedOutOnce
<1>1. ASSUME ClientInv PROVE CarriedOutOnce
  <2> SUFFICES ASSUME NEW c \in Calls
               PROVE  /\ c \notin Reads => applied[c] <= 1
                      /\ outcome[c] = "circuit_open" => sent[c] = 0 /\ applied[c] = 0
    BY DEF CarriedOutOnce
  <2>1. applied[c] \in Nat /\ sent[c] \in Nat /\ applied[c] <= sent[c] /\ sent[c] <= Attempts(c)
    BY <1>1 DEF ClientInv, ClientTypeOK, SentOK
  <2>2. outcome[c] = "circuit_open" => sent[c] = 0
    BY <1>1 DEF ClientInv, SentOK
  <2>3. QED
    BY <2>1, <2>2, AttemptsBounded
<1>2. QED
  BY ClientInvAlways, <1>1, PTL

\* The circuit is set open only after that many calls have failed in a row, for
\* any number of workers whose Redis commands interleave, but for a success
\* recorded between the last count and the set or kept from deleting the counter.
THEOREM OpensOnlyOnConsecutiveFailures == ClientSpec => OpensOnConsecutiveFailures
<1> DEFINE A == \A c \in Calls : at[c] = "trip" /\ at'[c] = "mark" /\ c \notin void
                   => streak >= Threshold
<1>1. ASSUME ClientInv PROVE A
  BY <1>1, ClientConstants DEF ClientInv, CountOK
<1>2. QED
  BY ClientInvAlways, <1>1, PTL DEF ClientSpec, OpensOnConsecutiveFailures

(***************************************************************************)
(* Keyring                                                                 *)
(***************************************************************************)

\* Between the request to Saleor and the cache there is the holder of the lease,
\* alone, or there are outlived refreshes; what a worker brings is published, and
\* what the holder brings is no older than what the cache holds.
FlightInv ==
  /\ \A w \in Workers : stage[w] \in {"fetch", "store"} =>
       w \in outlived \/ (holder = w /\ outlived = {})
  /\ \A w \in outlived : stage[w] \in {"fetch", "store"}
  /\ \A w \in Workers : stage[w] = "store" =>
       /\ document[w] <= published
       /\ w \notin outlived /\ cached \in Documents => cached <= document[w]

\* No document is in the cache before Saleor publishes it.
PublishedInv == cached \in Documents => cached <= published

\* A request that nothing has happened to works for a key of the current document,
\* with every service there; what its second round brings is that document.
UndisturbedInv ==
  \A w \in Workers :
    ~excused[w] =>
      /\ stage[w] # "idle" => key[w] = published /\ reachable = Services
      /\ forced[w] /\ stage[w] \in {"store", "release", "delete", "check"} => document[w] = published
      /\ verdict[w] # "unauthorized"

KeyringInv == KeyringTypeOK /\ FlightInv /\ PublishedInv /\ UndisturbedInv

-----------------------------------------------------------------------------

LEMMA KeyringInvInit == KeyringInit => KeyringInv
<1> SUFFICES ASSUME KeyringInit PROVE KeyringInv
  OBVIOUS
<1> USE KeyringConstants DEF KeyringInit
<1>1. KeyringTypeOK
  BY DEF KeyringTypeOK, Documents, LoadTest, Stages, NoDocument
<1>2. FlightInv /\ PublishedInv /\ UndisturbedInv
  BY DEF FlightInv, PublishedInv, UndisturbedInv, Documents, NoDocument
<1>3. QED
  BY <1>1, <1>2 DEF KeyringInv

\* The documents, and the numbers that stand for none and for the load test.
LEMMA Numbers ==
  /\ Documents \subseteq 0 .. LoadTest /\ Documents \subseteq Nat
  /\ NoDocument \in 0 .. LoadTest /\ LoadTest \in 0 .. LoadTest
  /\ NoDocument \notin Documents /\ LoadTest \notin Documents
  /\ \A n \in Documents : n \in 0 .. MaxDocument /\ n \in KeysOf(n)
BY KeyringConstants DEF Documents, LoadTest, NoDocument, KeysOf

WorkersTyped ==
  /\ stage \in [Workers -> Stages] /\ key \in [Workers -> 0 .. MaxDocument]
  /\ forced \in [Workers -> BOOLEAN]
  /\ before \in [Workers -> 0 .. LoadTest] /\ document \in [Workers -> 0 .. LoadTest]
  /\ verdict \in [Workers -> {"none", "accepted", "unauthorized", "error"}]
  /\ \A w \in Workers : stage[w] = "store" => document[w] \in Documents

\* The four ways a step changes a worker keep its variables in their types.
LEMMA WaysAreTyped ==
  ASSUME KeyringTypeOK, NEW w \in Workers,
         \/ \E next \in Stages \ {"store"} : Proceed(w, next)
         \/ \E d \in 0 .. LoadTest, next \in Stages \ {"store"} : Loaded(w, d, next)
         \/ \E d \in Documents : Loaded(w, d, "store")
         \/ \E how \in {"none", "accepted", "unauthorized", "error"} : End(w, how)
  PROVE  WorkersTyped'
<1> USE DEF KeyringTypeOK, WorkersTyped
<1>1. ASSUME NEW next \in Stages \ {"store"}, Proceed(w, next)
      PROVE  WorkersTyped'
  BY <1>1 DEF Proceed
<1>2. ASSUME NEW d \in 0 .. LoadTest, NEW next \in Stages \ {"store"}, Loaded(w, d, next)
      PROVE  WorkersTyped'
  BY <1>2 DEF Loaded
<1>3. ASSUME NEW d \in Documents, Loaded(w, d, "store")
      PROVE  WorkersTyped'
  BY <1>3, Numbers DEF Loaded, Stages
<1>4. ASSUME NEW how \in {"none", "accepted", "unauthorized", "error"}, End(w, how)
      PROVE  WorkersTyped'
  BY <1>4, Numbers, KeyringConstants DEF End, Stages
<1>5. QED
  BY <1>1, <1>2, <1>3, <1>4

LEMMA KeyringTypeStep == KeyringTypeOK /\ [KeyringNext]_keyringVars => KeyringTypeOK'
<1> SUFFICES ASSUME KeyringTypeOK, [KeyringNext]_keyringVars PROVE KeyringTypeOK'
  OBVIOUS
<1>0. CASE UNCHANGED keyringVars
  BY <1>0 DEF KeyringTypeOK, keyringVars, saleor, keyCache, work
<1>1. ASSUME NEW w \in Workers, Deliver(w)
      PROVE  KeyringTypeOK'
  <2>1. published \in 0 .. MaxDocument
    BY Numbers DEF KeyringTypeOK
  <2>2. /\ UNCHANGED <<saleor, keyCache, forced, before, document>>
        /\ key' \in [Workers -> 0 .. MaxDocument]
        /\ verdict' \in [Workers -> {"none", "accepted", "unauthorized", "error"}]
        /\ stage' \in [Workers -> Stages]
        /\ \A v \in Workers : stage'[v] = "store" => stage[v] = "store"
    BY <1>1, <2>1 DEF Deliver, KeyringTypeOK, Stages
  <2>3. excused' \in [Workers -> BOOLEAN]
    BY <1>1 DEF Deliver, KeyringTypeOK
  <2>4. QED
    BY <2>2, <2>3 DEF KeyringTypeOK, saleor, keyCache
<1>2. ASSUME NEW w \in Workers, Look(w)
      PROVE  KeyringTypeOK'
  <2>1. UNCHANGED <<saleor, keyCache, key, forced, verdict, excused>>
    BY <1>2 DEF Look
  <2>2. stage' \in [Workers -> Stages] /\ \A v \in Workers : stage'[v] = "store" => stage[v] = "store"
    BY <1>2 DEF Look, KeyringTypeOK, Stages
  <2>3. before' \in [Workers -> 0 .. LoadTest] /\ document' \in [Workers -> 0 .. LoadTest]
    BY <1>2, Numbers DEF Look, KeyringTypeOK
  <2>4. \A v \in Workers : stage'[v] = "store" => document'[v] = document[v]
    BY <1>2 DEF Look, KeyringTypeOK
  <2>5. QED
    BY <2>1, <2>2, <2>3, <2>4 DEF KeyringTypeOK, saleor, keyCache
<1>3. ASSUME NEW w \in Workers,
             Lease(w) \/ Fetch(w) \/ Store(w) \/ Release(w) \/ Delete(w) \/ Await(w)
             \/ Die(w)
      PROVE  KeyringTypeOK'
  <2>1. WorkersTyped'
    <3>1. CASE Lease(w)
      BY <3>1, Numbers, WaysAreTyped DEF Lease, Acquired, Stages
    <3>2. CASE Fetch(w)
      BY <3>2, Numbers, WaysAreTyped DEF Fetch, Stages, KeyringTypeOK
    <3>3. CASE Store(w)
      BY <3>3, WaysAreTyped DEF Store, Stages
    <3>4. CASE Release(w)
      BY <3>4, WaysAreTyped DEF Release, Stages
    <3>5. CASE Await(w)
      BY <3>5, Numbers, WaysAreTyped DEF Await, Stages, KeyringTypeOK
    <3>6. CASE Die(w)
      BY <3>6, WaysAreTyped DEF Die
    <3>7. CASE Delete(w)
      BY <3>7, WaysAreTyped DEF Delete, Stages
    <3>8. QED
      BY <1>3, <3>1, <3>2, <3>3, <3>4, <3>5, <3>6, <3>7
  <2>2. UNCHANGED <<published, reachable>> /\ (~Die(w) => UNCHANGED mishaps)
    BY <1>3 DEF Lease, Acquired, Fetch, Store, Release, Delete, Await, Die, saleor
  <2>3. mishaps' \in 0 .. MaxMishaps
    BY <2>2, KeyringConstants DEF Die, Mishap, KeyringTypeOK
  <2>4. cached' \in 0 .. LoadTest
    BY <1>3 DEF Lease, Acquired, Fetch, Store, Release, Delete, Await, Die, keyCache, KeyringTypeOK
  <2>5. holder' \in Workers \cup {Nobody, Dead} /\ outlived' \subseteq Workers
    BY <1>3
    DEF Lease, Acquired, Fetch, Store, Release, Delete, Await, Die, LeftBehind, Without, keyCache, KeyringTypeOK
  <2>6. excused' \in [Workers -> BOOLEAN]
    BY <1>3 DEF Lease, Acquired, Fetch, Store, Release, Delete, Await, Die, KeyringTypeOK
  <2>7. QED
    BY <2>1, <2>2, <2>3, <2>4, <2>5, <2>6 DEF KeyringTypeOK, WorkersTyped
<1>4. ASSUME NEW w \in Workers, Check(w)
      PROVE  KeyringTypeOK'
  <2>1. UNCHANGED <<saleor, keyCache, excused>>
    BY <1>4 DEF Check
  <2>2. \/ End(w, "accepted") \/ End(w, "unauthorized")
        \/ /\ forced' = [forced EXCEPT ![w] = TRUE] /\ stage' = [stage EXCEPT ![w] = "look"]
           /\ UNCHANGED <<key, before, document, verdict>>
    BY <1>4 DEF Check
  <2>3. CASE End(w, "accepted") \/ End(w, "unauthorized")
    BY <2>1, <2>3, WaysAreTyped DEF KeyringTypeOK, WorkersTyped, saleor, keyCache
  <2>4. CASE /\ forced' = [forced EXCEPT ![w] = TRUE] /\ stage' = [stage EXCEPT ![w] = "look"]
             /\ UNCHANGED <<key, before, document, verdict>>
    <3>1. forced' \in [Workers -> BOOLEAN]
      BY <2>4 DEF KeyringTypeOK
    <3>2. stage' \in [Workers -> Stages] /\ \A v \in Workers : stage'[v] = "store" => stage[v] = "store"
      BY <2>4 DEF KeyringTypeOK, Stages
    <3>3. QED
      BY <2>1, <2>4, <3>1, <3>2 DEF KeyringTypeOK, saleor, keyCache
  <2>5. QED
    BY <2>2, <2>3, <2>4
<1>5. ASSUME NEW s \in Services, Outage(s) \/ OutageEnds(s)
      PROVE  KeyringTypeOK'
  <2>1. UNCHANGED <<published, keyCache, work>> /\ reachable' \subseteq Services
    BY <1>5 DEF Outage, OutageEnds, KeyringTypeOK
  <2>2. mishaps' \in 0 .. MaxMishaps
    BY <1>5, KeyringConstants DEF Outage, OutageEnds, Mishap, KeyringTypeOK
  <2>3. excused' \in [Workers -> BOOLEAN]
    BY <1>5 DEF Outage, OutageEnds, Excuse, KeyringTypeOK
  <2>4. QED
    BY <2>1, <2>2, <2>3 DEF KeyringTypeOK, keyCache, work
<1>6. CASE Rotate
  <2>1. UNCHANGED <<reachable, mishaps, keyCache, work>> /\ published' \in Documents
    BY <1>6, KeyringConstants DEF Rotate, KeyringTypeOK, Documents
  <2>2. excused' \in [Workers -> BOOLEAN]
    BY <1>6 DEF Rotate, Excuse, KeyringTypeOK
  <2>3. QED
    BY <2>1, <2>2 DEF KeyringTypeOK, keyCache, work
<1>7. CASE LeaseLapses \/ LeaseLost \/ CacheExpires \/ InstallLoadTestKey \/ RemoveLoadTestKey
  <2>1. UNCHANGED <<published, reachable, work>>
    BY <1>7 DEF LeaseLapses, LeaseLost, CacheExpires, InstallLoadTestKey, RemoveLoadTestKey, saleor
  <2>2. mishaps' \in 0 .. MaxMishaps
    BY <1>7, KeyringConstants
    DEF LeaseLapses, LeaseLost, CacheExpires, InstallLoadTestKey, RemoveLoadTestKey, Mishap, saleor,
        KeyringTypeOK
  <2>3. cached' \in 0 .. LoadTest /\ holder' \in Workers \cup {Nobody, Dead} /\ outlived' \subseteq Workers
    BY <1>7, Numbers
    DEF LeaseLapses, LeaseLost, CacheExpires, InstallLoadTestKey, RemoveLoadTestKey, Without,
        KeyringTypeOK
  <2>4. excused' \in [Workers -> BOOLEAN]
    BY <1>7
    DEF LeaseLapses, LeaseLost, CacheExpires, InstallLoadTestKey, RemoveLoadTestKey, Excuse, KeyringTypeOK
  <2>5. QED
    BY <2>1, <2>2, <2>3, <2>4 DEF KeyringTypeOK, work
<1>8. QED
  BY <1>0, <1>1, <1>2, <1>3, <1>4, <1>5, <1>6, <1>7 DEF KeyringNext, WorkerStep

-----------------------------------------------------------------------------

\* A step of one worker leaves the others alone, and Saleor and Redis too.
LEMMA OthersStay ==
  ASSUME KeyringTypeOK, NEW v \in Workers, Deliver(v) \/ WorkerStep(v) \/ Die(v)
  PROVE  /\ published' = published /\ reachable' = reachable
         /\ \A w \in Workers \ {v} :
              /\ stage'[w] = stage[w] /\ key'[w] = key[w] /\ forced'[w] = forced[w]
              /\ document'[w] = document[w] /\ verdict'[w] = verdict[w]
              /\ excused'[w] = excused[w]
<1> USE DEF KeyringTypeOK, saleor, Proceed, Loaded, End
<1>1. CASE Deliver(v)
  BY <1>1 DEF Deliver
<1>2. CASE Look(v)
  BY <1>2 DEF Look
<1>3. CASE Lease(v)
  BY <1>3 DEF Lease, Acquired
<1>4. CASE Fetch(v)
  BY <1>4 DEF Fetch
<1>5. CASE Store(v)
  BY <1>5 DEF Store
<1>6. CASE Release(v)
  BY <1>6 DEF Release
<1>7. CASE Await(v)
  BY <1>7 DEF Await
<1>8. CASE Check(v)
  BY <1>8 DEF Check
<1>9. CASE Die(v)
  BY <1>9 DEF Die
<1>10. CASE Delete(v)
  BY <1>10 DEF Delete
<1>11. QED
  BY <1>1, <1>2, <1>3, <1>4, <1>5, <1>6, <1>7, <1>8, <1>9, <1>10 DEF WorkerStep

\* The steps of Saleor, of Redis and of the load test leave the workers alone, and
\* no published document comes into the cache by them; the lease and what is
\* remembered of it stay as they are, or it is taken from its holder.
LEMMA WorkersStay ==
  ASSUME KeyringTypeOK,
         \/ \E s \in Services : Outage(s) \/ OutageEnds(s)
         \/ Rotate \/ LeaseLapses \/ LeaseLost \/ CacheExpires \/ InstallLoadTestKey \/ RemoveLoadTestKey
  PROVE  /\ UNCHANGED work
         /\ cached' \in Documents => cached' = cached
         /\ published <= published'
         /\ \/ outlived' = outlived /\ \A w \in Workers : holder = w => holder' = w
            \/ outlived' = Without(holder) /\ holder' = Nobody
<1> USE Numbers, KeyringConstants DEF KeyringTypeOK, saleor, keyCache
<1>1. ASSUME NEW s \in Services, Outage(s) \/ OutageEnds(s)
      PROVE  UNCHANGED <<work, cached, holder, outlived, published>>
  BY <1>1 DEF Outage, OutageEnds
<1>2. CASE Rotate
  BY <1>2 DEF Rotate, Documents
<1>3. CASE LeaseLapses \/ LeaseLost
  BY <1>3 DEF LeaseLapses, LeaseLost, Documents
<1>4. CASE CacheExpires \/ InstallLoadTestKey \/ RemoveLoadTestKey
  BY <1>4 DEF CacheExpires, InstallLoadTestKey, RemoveLoadTestKey, Documents
<1>5. published <= published
  BY DEF Documents
<1>6. QED
  BY <1>1, <1>2, <1>3, <1>4, <1>5

LEMMA KindsOfSteps ==
  ASSUME [KeyringNext]_keyringVars
  PROVE  \/ UNCHANGED keyringVars
         \/ \E v \in Workers : Deliver(v) \/ WorkerStep(v) \/ Die(v)
         \/ \E s \in Services : Outage(s) \/ OutageEnds(s)
         \/ Rotate \/ LeaseLapses \/ LeaseLost \/ CacheExpires \/ InstallLoadTestKey \/ RemoveLoadTestKey
BY DEF KeyringNext

\* How a worker's step treats the cache: it stores what it has in hand, or leaves
\* the cached document as it is.
LEMMA CacheStep ==
  ASSUME KeyringTypeOK, NEW v \in Workers, Deliver(v) \/ WorkerStep(v) \/ Die(v)
  PROVE  /\ \/ cached' = cached
            \/ stage[v] = "store" /\ cached' = document[v] /\ stage'[v] = "release"
         /\ stage'[v] = "store" => document'[v] = published /\ cached' = cached
<1> USE KeyringConstants DEF KeyringTypeOK, saleor, keyCache, Proceed, Loaded, End
<1>1. CASE Deliver(v)
  BY <1>1 DEF Deliver
<1>2. CASE Look(v)
  BY <1>2 DEF Look
<1>3. CASE Lease(v)
  BY <1>3 DEF Lease, Acquired
<1>4. CASE Fetch(v)
  BY <1>4 DEF Fetch
<1>5. CASE Store(v)
  BY <1>5 DEF Store
<1>6. CASE Release(v)
  BY <1>6 DEF Release
<1>7. CASE Delete(v)
  BY <1>7 DEF Delete
<1>8. CASE Await(v)
  BY <1>8 DEF Await
<1>9. CASE Check(v)
  BY <1>9 DEF Check
<1>10. CASE Die(v)
  BY <1>10 DEF Die
<1>11. QED
  BY <1>1, <1>2, <1>3, <1>4, <1>5, <1>6, <1>7, <1>8, <1>9, <1>10 DEF WorkerStep

\* ... and the lease: it leaves both as they are; or takes a lease that is nobody's,
\* beside the outlived; or goes on from fetch to store; or is done with the refresh;
\* or deletes the lease, which may be another's by then.
LEMMA LeaseStep ==
  ASSUME KeyringTypeOK, NEW v \in Workers, Deliver(v) \/ WorkerStep(v) \/ Die(v)
  PROVE  \/ /\ stage[v] \notin {"fetch", "store"} /\ stage'[v] \notin {"fetch", "store"}
            /\ holder' \in {holder, LeftBehind(v)} /\ outlived' \in {outlived, outlived \ {v}}
         \/ /\ stage[v] = "lease" /\ stage'[v] = "fetch" /\ holder = Nobody /\ holder' = v
            /\ outlived' = IF outlived = {} THEN {} ELSE outlived \cup {v}
         \/ /\ stage[v] = "fetch" /\ stage'[v] = "store"
            /\ UNCHANGED <<holder, outlived>>
         \/ /\ stage[v] \in {"fetch", "store"} /\ stage'[v] \notin {"fetch", "store"}
            /\ holder' \in {holder, LeftBehind(v)} /\ outlived' = outlived \ {v}
         \/ /\ stage[v] = "delete" /\ stage'[v] = "check"
            /\ holder' = Nobody /\ outlived' = Without(holder)
<1> USE KeyringConstants DEF KeyringTypeOK, saleor, keyCache, Proceed, Loaded, End
<1>1. CASE Deliver(v)
  BY <1>1 DEF Deliver
<1>2. CASE Look(v)
  BY <1>2 DEF Look
<1>3. CASE Lease(v)
  BY <1>3 DEF Lease, Acquired
<1>4. CASE Fetch(v)
  BY <1>4 DEF Fetch
<1>5. CASE Store(v)
  BY <1>5 DEF Store
<1>6. CASE Release(v)
  BY <1>6 DEF Release
<1>7. CASE Delete(v)
  BY <1>7 DEF Delete
<1>8. CASE Await(v)
  BY <1>8 DEF Await
<1>9. CASE Check(v)
  BY <1>9 DEF Check
<1>10. CASE Die(v)
  BY <1>10 DEF Die
<1>11. QED
  BY <1>1, <1>2, <1>3, <1>4, <1>5, <1>6, <1>7, <1>8, <1>9, <1>10 DEF WorkerStep

\* Two refreshes at once are both outlived.
LEMMA FlightAlone ==
  ASSUME FlightInv, NEW v \in Workers, NEW w \in Workers \ {v},
         stage[v] \in {"fetch", "store"}, stage[w] \in {"fetch", "store"}
  PROVE  v \in outlived /\ w \in outlived
BY DEF FlightInv

\* The holder alone, or the outlived, however the lease is taken from its holder.
LEMMA HoldersStep ==
  ASSUME KeyringTypeOK, FlightInv, [KeyringNext]_keyringVars
  PROVE  /\ \A w \in Workers : stage'[w] \in {"fetch", "store"} =>
              w \in outlived' \/ (holder' = w /\ outlived' = {})
         /\ \A w \in outlived' : stage'[w] \in {"fetch", "store"}
<1> USE DEF FlightInv
<1>1. CASE UNCHANGED keyringVars
  BY <1>1 DEF keyringVars, keyCache, work
<1>2. CASE \/ \E s \in Services : Outage(s) \/ OutageEnds(s)
           \/ Rotate \/ LeaseLapses \/ LeaseLost \/ CacheExpires \/ InstallLoadTestKey \/ RemoveLoadTestKey
  <2>1. stage' = stage
    BY <1>2, WorkersStay DEF work
  <2>2. CASE outlived' = outlived /\ \A w \in Workers : holder = w => holder' = w
    BY <2>1, <2>2
  <2>3. CASE outlived' = Without(holder)
    BY <2>1, <2>3 DEF Without
  <2>4. QED
    BY <1>2, <2>2, <2>3, WorkersStay
<1>3. ASSUME NEW v \in Workers, Deliver(v) \/ WorkerStep(v) \/ Die(v)
      PROVE  /\ \A w \in Workers : stage'[w] \in {"fetch", "store"} =>
                  w \in outlived' \/ (holder' = w /\ outlived' = {})
             /\ \A w \in outlived' : stage'[w] \in {"fetch", "store"}
  <2>0. /\ \A w \in Workers \ {v} : stage'[w] = stage[w]
        /\ outlived \subseteq Workers /\ Nobody \notin Workers
    BY <1>3, OthersStay, KeyringConstants DEF KeyringTypeOK
  <2>1. CASE /\ stage[v] \notin {"fetch", "store"} /\ stage'[v] \notin {"fetch", "store"}
             /\ holder' \in {holder, LeftBehind(v)} /\ outlived' \in {outlived, outlived \ {v}}
    BY <2>0, <2>1 DEF LeftBehind
  <2>2. CASE /\ stage[v] = "lease" /\ stage'[v] = "fetch" /\ holder = Nobody /\ holder' = v
             /\ outlived' = IF outlived = {} THEN {} ELSE outlived \cup {v}
    BY <2>0, <2>2
  <2>3. CASE /\ stage[v] = "fetch" /\ stage'[v] = "store"
             /\ UNCHANGED <<holder, outlived>>
    BY <2>0, <2>3
  <2>4. CASE /\ stage[v] \in {"fetch", "store"} /\ stage'[v] \notin {"fetch", "store"}
             /\ holder' \in {holder, LeftBehind(v)} /\ outlived' = outlived \ {v}
    BY <2>0, <2>4 DEF LeftBehind
  <2>5. CASE /\ stage[v] = "delete" /\ stage'[v] = "check"
             /\ holder' = Nobody /\ outlived' = Without(holder)
    BY <2>0, <2>5 DEF Without
  <2>6. QED
    BY <1>3, <2>1, <2>2, <2>3, <2>4, <2>5, LeaseStep
<1>4. QED
  BY <1>1, <1>2, <1>3, KindsOfSteps

LEMMA FlightStep ==
  ASSUME KeyringTypeOK, FlightInv, PublishedInv, [KeyringNext]_keyringVars
  PROVE  FlightInv' /\ PublishedInv'
<1>1. CASE UNCHANGED keyringVars
  BY <1>1 DEF FlightInv, PublishedInv, keyringVars, saleor, keyCache, work
<1>2. ASSUME NEW v \in Workers, Deliver(v) \/ WorkerStep(v) \/ Die(v)
      PROVE  FlightInv' /\ PublishedInv'
  <2>0. published' = published /\ published <= published
    BY <1>2, OthersStay DEF KeyringTypeOK, Documents
  <2>1. PublishedInv'
    <3>1. CASE cached' = cached
      BY <2>0, <3>1 DEF PublishedInv
    <3>2. CASE stage[v] = "store" /\ cached' = document[v]
      BY <2>0, <3>2 DEF FlightInv, PublishedInv
    <3>3. QED
      BY <1>2, <3>1, <3>2, CacheStep
  <2>2. ASSUME NEW w \in Workers, stage'[w] = "store"
        PROVE  /\ document'[w] <= published'
               /\ w \notin outlived' /\ cached' \in Documents => cached' <= document'[w]
    <3>1. CASE w = v
      BY <1>2, <2>0, <2>2, <3>1, CacheStep DEF PublishedInv
    <3>2. CASE w # v
      <4>1. stage[w] = "store" /\ document'[w] = document[w]
        BY <1>2, <2>2, <3>2, OthersStay
      <4>2. document'[w] <= published'
        BY <2>0, <4>1 DEF FlightInv
      <4>3. ASSUME w \notin outlived', cached' \in Documents
            PROVE  cached' <= document'[w]
        <5>1. w \notin outlived
          BY <1>2, <3>2, <4>3, LeaseStep DEF Without
        <5>2. stage[v] # "store"
          BY <3>2, <4>1, <5>1, FlightAlone
        <5>3. cached' = cached
          BY <1>2, <5>2, CacheStep
        <5>4. QED
          BY <4>1, <4>3, <5>1, <5>3 DEF FlightInv
      <4>4. QED
        BY <4>2, <4>3
    <3>3. QED
      BY <3>1, <3>2
  <2>3. QED
    BY <2>1, <2>2, HoldersStep DEF FlightInv
<1>3. ASSUME \/ \E s \in Services : Outage(s) \/ OutageEnds(s)
             \/ Rotate \/ LeaseLapses \/ LeaseLost \/ CacheExpires \/ InstallLoadTestKey \/ RemoveLoadTestKey
      PROVE  FlightInv' /\ PublishedInv'
  <2>1. /\ UNCHANGED work
        /\ cached' \in Documents => cached' = cached
        /\ published <= published' /\ outlived \subseteq outlived'
    BY <1>3, WorkersStay DEF Without
  <2>2. published \in Documents /\ published' \in Documents
    BY KeyringTypeStep DEF KeyringTypeOK
  <2>3. ASSUME NEW w \in Workers, stage'[w] = "store"
        PROVE  /\ document'[w] <= published'
               /\ w \notin outlived' /\ cached' \in Documents => cached' <= document'[w]
    <3>1. stage[w] = "store" /\ document'[w] = document[w]
      BY <2>1, <2>3 DEF work
    <3>2. document[w] \in Nat /\ published \in Nat /\ published' \in Nat
      BY <2>2, <3>1, Numbers DEF KeyringTypeOK
    <3>3. document[w] <= published
      BY <3>1 DEF FlightInv
    <3>4. QED
      BY <2>1, <3>1, <3>2, <3>3 DEF FlightInv
  <2>4. PublishedInv'
    BY <2>1, <2>2, Numbers DEF PublishedInv
  <2>5. QED
    BY <2>3, <2>4, HoldersStep DEF FlightInv
<1>4. QED
  BY <1>1, <1>2, <1>3, KindsOfSteps

-----------------------------------------------------------------------------

\* UndisturbedInv of the worker that takes a step.
LEMMA OwnUndisturbed ==
  ASSUME KeyringInv, NEW v \in Workers, Deliver(v) \/ WorkerStep(v) \/ Die(v), ~excused'[v]
  PROVE  /\ stage'[v] # "idle" => key'[v] = published /\ reachable = Services
         /\ forced'[v] /\ stage'[v] \in {"store", "release", "delete", "check"} =>
              document'[v] = published
         /\ verdict'[v] # "unauthorized"
<1> USE DEF KeyringInv, KeyringTypeOK, UndisturbedInv, Proceed, Loaded, End
<1>0. /\ {"saleor", "redis"} \subseteq Services /\ published \in KeysOf(published)
      /\ (Deliver(v) \/ excused'[v] = excused[v] \/ Await(v))
  <2>1. {"saleor", "redis"} \subseteq Services /\ published \in KeysOf(published)
    BY Numbers DEF Services
  <2>2. Deliver(v) \/ excused' = excused \/ Await(v)
    BY DEF WorkerStep, Look, Lease, Fetch, Store, Release, Delete, Check, Die
  <2>3. QED
    BY <2>1, <2>2
<1>1. CASE Deliver(v)
  BY <1>1 DEF Deliver
<1>2. CASE Look(v)
  BY <1>0, <1>2 DEF Look, Redis
<1>3. CASE Lease(v)
  BY <1>0, <1>3 DEF Lease, Acquired, Redis
<1>4. CASE Fetch(v)
  BY <1>0, <1>4 DEF Fetch
<1>5. CASE Store(v)
  BY <1>0, <1>5 DEF Store
<1>6. CASE Release(v)
  BY <1>0, <1>6 DEF Release, Redis
<1>7. CASE Await(v)
  <2>1. ~excused[v] /\ ~forced[v]
    BY <1>7 DEF Await
  <2>2. QED
    BY <1>7, <2>1 DEF Await
<1>8. CASE Check(v)
  BY <1>0, <1>8 DEF Check
<1>9. CASE Die(v)
  BY <1>0, <1>9 DEF Die
<1>10. CASE Delete(v)
  BY <1>0, <1>10 DEF Delete, Redis
<1>11. QED
  BY <1>1, <1>2, <1>3, <1>4, <1>5, <1>6, <1>7, <1>8, <1>9, <1>10 DEF WorkerStep

LEMMA UndisturbedStep ==
  ASSUME KeyringInv, [KeyringNext]_keyringVars
  PROVE  UndisturbedInv'
<1> USE DEF KeyringInv
<1>1. CASE UNCHANGED keyringVars
  BY <1>1 DEF UndisturbedInv, keyringVars, saleor, work
<1>2. ASSUME NEW v \in Workers, Deliver(v) \/ WorkerStep(v) \/ Die(v)
      PROVE  UndisturbedInv'
  BY <1>2, OthersStay, OwnUndisturbed DEF UndisturbedInv
<1>3. CASE (\E s \in Services : Outage(s)) \/ Rotate \/ InstallLoadTestKey
  <2>1. UNCHANGED work /\ Excuse
    BY <1>3 DEF Outage, Rotate, InstallLoadTestKey
  <2>2. QED
    BY <2>1 DEF UndisturbedInv, Excuse, work, KeyringTypeOK
<1>4. CASE (\E s \in Services : OutageEnds(s)) \/ LeaseLapses \/ LeaseLost \/ CacheExpires \/ RemoveLoadTestKey
  <2>1. UNCHANGED <<work, excused, published>> /\ (reachable = Services => reachable' = Services)
    BY <1>4 DEF OutageEnds, LeaseLapses, LeaseLost, CacheExpires, RemoveLoadTestKey, saleor
  <2>2. QED
    BY <2>1 DEF UndisturbedInv, work
<1>5. QED
  BY <1>1, <1>2, <1>3, <1>4, KindsOfSteps

LEMMA KeyringInvStep == KeyringInv /\ [KeyringNext]_keyringVars => KeyringInv'
BY KeyringTypeStep, FlightStep, UndisturbedStep DEF KeyringInv

LEMMA KeyringInvAlways == KeyringSpec => []KeyringInv
BY KeyringInvInit, KeyringInvStep, PTL DEF KeyringSpec

-----------------------------------------------------------------------------

\* The variables of the key cache keep their types.
THEOREM KeyringTypeCorrect == KeyringSpec => []KeyringTypeOK
<1>1. KeyringInv => KeyringTypeOK
  BY DEF KeyringInv
<1>2. QED
  BY <1>1, KeyringInvAlways, PTL

\* However many workers refresh the keys, die on the way, lose the lease or meet an
\* outage, an older document replaces a newer one only by a refresh that outlived
\* its lease, or one begun beside such a one (the lease of _load_jwks).
THEOREM CacheNeverOlder == KeyringSpec => CacheNeverGoesBack
<1>1. ASSUME KeyringInv, [KeyringNext]_keyringVars
      PROVE  [cached' # cached /\ {cached, cached'} \subseteq Documents =>
                \/ cached' > cached
                \/ \E w \in outlived : stage[w] = "store" /\ stage'[w] # "store"]_keyringVars
  <2> SUFFICES ASSUME cached' # cached, cached \in Documents, cached' \in Documents
               PROVE  \/ cached' > cached
                      \/ \E w \in outlived : stage[w] = "store" /\ stage'[w] # "store"
    OBVIOUS
  <2>1. CASE UNCHANGED keyringVars
    BY <2>1 DEF keyringVars, keyCache
  <2>2. ASSUME NEW v \in Workers, Deliver(v) \/ WorkerStep(v) \/ Die(v)
        PROVE  \/ cached' > cached
               \/ \E w \in outlived : stage[w] = "store" /\ stage'[w] # "store"
    <3>1. stage[v] = "store" /\ cached' = document[v] /\ stage'[v] # "store"
      BY <1>1, <2>2, CacheStep DEF KeyringInv
    <3>2. v \in outlived \/ cached <= document[v]
      BY <1>1, <3>1 DEF KeyringInv, FlightInv
    <3>3. cached \in Nat /\ cached' \in Nat
      BY Numbers
    <3>4. QED
      BY <3>1, <3>2, <3>3
  <2>3. CASE \/ \E s \in Services : Outage(s) \/ OutageEnds(s)
             \/ Rotate \/ LeaseLapses \/ LeaseLost \/ CacheExpires \/ InstallLoadTestKey
             \/ RemoveLoadTestKey
    BY <1>1, <2>3, WorkersStay DEF KeyringInv
  <2>4. QED
    BY <1>1, <2>1, <2>2, <2>3, KindsOfSteps
<1>2. QED
  BY <1>1, KeyringInvAlways, PTL DEF KeyringSpec, CacheNeverGoesBack

\* An event of a key that is published is refused only when something came
\* between (the second round of verify_saleor_signature).
THEOREM AlwaysRefusedForAReason == KeyringSpec => []RefusedForAReason
<1>1. KeyringInv => RefusedForAReason
  BY DEF KeyringInv, UndisturbedInv, RefusedForAReason
<1>2. QED
  BY <1>1, KeyringInvAlways, PTL

(***************************************************************************)
(* RateLimit                                                               *)
(***************************************************************************)

-----------------------------------------------------------------------------
(* Whose request it is *)

\* The last hop of a chain of one, two or three that is no proxy.
LEMMA NearestIsLast ==
  ASSUME NEW chain, DOMAIN chain \subseteq 1 .. 3, NEW n \in Foreign(chain),
         \A m \in Foreign(chain) : m <= n
  PROVE  Nearest(chain) = n
<1>1. \A k \in Foreign(chain) : (\A m \in Foreign(chain) : m <= k) => k = n
  BY DEF Foreign
<1>2. QED
  BY <1>1 DEF Nearest

\* A chain that proxies left has the client as its last foreign hop, unless what
\* the client wrote into it is no address.
LEMMA ChainsLeadToTheClient ==
  ASSUME NEW i \in Addresses, NEW chain \in Chains(i)
  PROVE  \/ \E n \in DOMAIN chain : chain[n] = Junk
         \/ /\ \A n \in DOMAIN chain : chain[n] \in Hops
            /\ Foreign(chain) # {} /\ chain[Nearest(chain)] = i
<1> USE LimiterConstants DEF Hops
<1>1. \/ chain = <<i>>
      \/ \E j \in Hops \cup {Junk} : chain = <<j, i>>
      \/ \E h \in Proxies : chain = <<i, h>>
      \/ \E j \in Hops \cup {Junk}, h \in Proxies : chain = <<j, i, h>>
  BY DEF Chains
<1>2. CASE chain = <<i>>
  <2>1. DOMAIN chain = {1} /\ chain[1] = i
    BY <1>2
  <2>2. 1 \in Foreign(chain) /\ \A m \in Foreign(chain) : m <= 1
    BY <2>1 DEF Foreign
  <2>3. QED
    BY <2>1, <2>2, NearestIsLast
<1>3. ASSUME NEW j \in Hops \cup {Junk}, chain = <<j, i>>
      PROVE  \/ \E n \in DOMAIN chain : chain[n] = Junk
             \/ /\ \A n \in DOMAIN chain : chain[n] \in Hops
                /\ Foreign(chain) # {} /\ chain[Nearest(chain)] = i
  <2>1. DOMAIN chain = {1, 2} /\ chain[1] = j /\ chain[2] = i
    BY <1>3
  <2>2. 2 \in Foreign(chain) /\ \A m \in Foreign(chain) : m <= 2
    BY <2>1 DEF Foreign
  <2>3. Nearest(chain) = 2
    BY <2>1, <2>2, NearestIsLast
  <2>4. QED
    BY <2>1, <2>2, <2>3
<1>4. ASSUME NEW h \in Proxies, chain = <<i, h>>
      PROVE  \/ \E n \in DOMAIN chain : chain[n] = Junk
             \/ /\ \A n \in DOMAIN chain : chain[n] \in Hops
                /\ Foreign(chain) # {} /\ chain[Nearest(chain)] = i
  <2>1. DOMAIN chain = {1, 2} /\ chain[1] = i /\ chain[2] = h
    BY <1>4
  <2>2. 1 \in Foreign(chain) /\ \A m \in Foreign(chain) : m <= 1
    BY <2>1 DEF Foreign
  <2>3. Nearest(chain) = 1
    BY <2>1, <2>2, NearestIsLast
  <2>4. QED
    BY <2>1, <2>2, <2>3
<1>5. ASSUME NEW j \in Hops \cup {Junk}, NEW h \in Proxies, chain = <<j, i, h>>
      PROVE  \/ \E n \in DOMAIN chain : chain[n] = Junk
             \/ /\ \A n \in DOMAIN chain : chain[n] \in Hops
                /\ Foreign(chain) # {} /\ chain[Nearest(chain)] = i
  <2>1. DOMAIN chain = {1, 2, 3} /\ chain[1] = j /\ chain[2] = i /\ chain[3] = h
    BY <1>5
  <2>2. 2 \in Foreign(chain) /\ \A m \in Foreign(chain) : m <= 2
    BY <2>1 DEF Foreign
  <2>3. Nearest(chain) = 2
    BY <2>1, <2>2, NearestIsLast
  <2>4. QED
    BY <2>1, <2>2, <2>3
<1>6. QED
  BY <1>1, <1>2, <1>3, <1>4, <1>5

\* Whatever addresses a client puts into X-Forwarded-For, and through whichever
\* trusted proxy it comes, the middleware finds its address, unless it comes with
\* an X-Real-IP of its own or with junk; and REMOTE_ADDR is always an address.
LEMMA TheClientIsFound ==
  ASSUME NEW i \in Addresses, NEW request \in Arrivals(i)
  PROVE  /\ RemoteAddr(request) \in Hops
         /\ Disguise(i, request) \/ RemoteAddr(request) = i
<1> USE LimiterConstants DEF Hops
<1>1. CASE request.peer = i
  BY <1>1 DEF RemoteAddr
<1>2. CASE request.peer \in Proxies /\ request.realIP \in Hops
  BY <1>2 DEF RemoteAddr, Disguise
<1>3. CASE request.peer \in Proxies /\ request.realIP = NoHeader /\ request.forwarded \in Chains(i)
  <2>1. CASE \E n \in DOMAIN request.forwarded : request.forwarded[n] = Junk
    <3>1. RemoteAddr(request) = request.peer
      BY <1>3, <2>1 DEF RemoteAddr
    <3>2. QED
      BY <1>3, <2>1, <3>1 DEF Disguise
  <2>2. CASE /\ \A n \in DOMAIN request.forwarded : request.forwarded[n] \in Hops
             /\ Foreign(request.forwarded) # {} /\ request.forwarded[Nearest(request.forwarded)] = i
    BY <1>3, <2>2 DEF RemoteAddr
  <2>3. QED
    BY <1>3, <2>1, <2>2, ChainsLeadToTheClient
<1>4. QED
  BY <1>1, <1>2, <1>3 DEF Arrivals

\* Where a request counts for a client, it counts at the client's own address.
LEMMA OriginsOfClients ==
  ASSUME NEW i \in Addresses, NEW origin \in Origins[i]
  PROVE  /\ origin.client \in Addresses \cup {NoClient} /\ origin.addr \in Hops
         /\ origin.client \in Addresses => origin.addr = origin.client
<1>1. PICK request \in Arrivals(i) :
        origin = [client |-> IF Disguise(i, request) THEN NoClient ELSE i,
                  addr |-> RemoteAddr(request)]
  BY DEF Origins
<1>2. QED
  BY <1>1, TheClientIsFound, LimiterConstants

-----------------------------------------------------------------------------
(* The window of an address *)

\* The counter of a client's address counts at least the requests of that client
\* that it let through, and what is being counted of a client is counted there.
WindowInv ==
  /\ \A v \in Views, i \in Addresses : admitted[v][i] <= hits[v][i]
  /\ \A p \in Posts : posted[p] # NoPost /\ posted[p].client \in Addresses =>
       posted[p].addr = posted[p].client

LimiterInv == LimiterTypeOK /\ WindowInv

LEMMA LimiterInvInit == LimiterInit => LimiterInv
<1> SUFFICES ASSUME LimiterInit PROVE LimiterInv
  OBVIOUS
<1>1. cacheThere \in BOOLEAN
  BY DEF LimiterInit
<1>2. LimiterTypeOK
  BY <1>1, LimiterConstants DEF LimiterInit, LimiterTypeOK
<1>3. WindowInv
  BY LimiterConstants DEF LimiterInit, WindowInv, Hops
<1>4. QED
  BY <1>2, <1>3 DEF LimiterInv

\* The count and the history go up together, or neither does.
LEMMA CountInKeeps ==
  ASSUME LimiterInv, NEW v \in Views, NEW i \in Addresses \cup {NoClient}, NEW addr \in Hops,
         i \in Addresses => addr = i, CountIn(v, i, addr)
  PROVE  /\ hits' \in [Views -> [Hops -> 0 .. LIMIT]]
         /\ admitted' \in [Views -> [Addresses -> 0 .. LIMIT + 1]]
         /\ \A w \in Views, j \in Addresses : admitted'[w][j] <= hits'[w][j]
<1> USE LimiterConstants DEF LimiterInv, LimiterTypeOK, WindowInv
<1>1. CASE UNCHANGED <<hits, admitted>>
  BY <1>1
<1>2. CASE /\ hits[v][addr] < LIMIT
           /\ hits' = [hits EXCEPT ![v][addr] = @ + 1]
           /\ admitted' = [admitted EXCEPT ![v] =
                            [j \in Addresses |-> IF j = i /\ @[j] <= LIMIT THEN @[j] + 1 ELSE @[j]]]
  <2> DEFINE row == [j \in Addresses |->
                       IF j = i /\ admitted[v][j] <= LIMIT THEN admitted[v][j] + 1 ELSE admitted[v][j]]
  <2>1. /\ \A w \in Views : hits[w] \in [Hops -> 0 .. LIMIT] /\ admitted[w] \in [Addresses -> 0 .. LIMIT + 1]
        /\ Addresses \subseteq Hops
    BY DEF Hops
  <2>2. row \in [Addresses -> 0 .. LIMIT + 1]
    BY <2>1
  <2>3. hits[v][addr] + 1 \in 0 .. LIMIT
    BY <1>2, <2>1
  <2>4. hits' \in [Views -> [Hops -> 0 .. LIMIT]] /\ admitted' = [admitted EXCEPT ![v] = row]
    BY <1>2, <2>1, <2>3
  <2>5. admitted' \in [Views -> [Addresses -> 0 .. LIMIT + 1]]
    BY <2>2, <2>4
  <2>6. ASSUME NEW w \in Views, NEW j \in Addresses
        PROVE  admitted'[w][j] <= hits'[w][j]
    <3>0. /\ admitted[w][j] <= hits[w][j] /\ hits[w][j] \in 0 .. LIMIT /\ admitted[w][j] \in 0 .. LIMIT + 1
      BY <2>1
    <3>1. CASE w # v
      BY <1>2, <2>4, <3>0, <3>1
    <3>2. CASE w = v /\ j # i
      <4>1. admitted'[w][j] = admitted[w][j]
        BY <2>4, <3>2
      <4>2. hits'[w][j] \in {hits[w][j], hits[w][j] + 1}
        BY <1>2, <2>1, <3>2
      <4>3. QED
        BY <3>0, <4>1, <4>2
    <3>3. CASE w = v /\ j = i
      <4>1. addr = j
        BY <3>3
      <4>2. hits'[w][j] = hits[w][j] + 1
        BY <1>2, <2>1, <3>3, <4>1
      <4>3. admitted'[w][j] \in {admitted[w][j], admitted[w][j] + 1}
        BY <2>4, <3>3
      <4>4. QED
        BY <3>0, <4>2, <4>3
    <3>4. QED
      BY <3>1, <3>2, <3>3
  <2>7. QED
    BY <2>4, <2>5, <2>6
<1>3. QED
  BY <1>1, <1>2 DEF CountIn

LEMMA LimiterInvStep == LimiterInv /\ [LimiterNext]_limiterVars => LimiterInv'
<1> SUFFICES ASSUME LimiterInv, [LimiterNext]_limiterVars PROVE LimiterInv'
  OBVIOUS
<1> USE LimiterConstants DEF LimiterInv, LimiterTypeOK, WindowInv
<1>1. ASSUME NEW p \in Posts, NEW v \in Views, NEW i \in Addresses, NEW origin \in Origins[i],
             Post(p, v, origin)
      PROVE  LimiterInv'
  <2>0. /\ origin.client \in Addresses \cup {NoClient} /\ origin.addr \in Hops
        /\ origin.client \in Addresses => origin.addr = origin.client
    BY OriginsOfClients
  <2>1. UNCHANGED <<cacheThere, late, limiterFaults>>
    BY <1>1 DEF Post
  <2>2. CASE UNCHANGED <<hits, admitted, posted>>
    BY <2>1, <2>2
  <2>3. CASE CountIn(v, origin.client, origin.addr) /\ UNCHANGED posted
    BY <2>0, <2>1, <2>3, CountInKeeps
  <2>4. CASE /\ posted' = [posted EXCEPT ![p] =
                            [view |-> v, client |-> origin.client, addr |-> origin.addr]]
             /\ UNCHANGED <<hits, admitted>>
    <3>1. [view |-> v, client |-> origin.client, addr |-> origin.addr] \in Tickets
      BY <2>0 DEF Tickets
    <3>2. posted' \in [Posts -> Tickets \cup {NoPost}]
      BY <2>4, <3>1
    <3>3. ASSUME NEW q \in Posts, posted'[q] # NoPost, posted'[q].client \in Addresses
          PROVE  posted'[q].addr = posted'[q].client
      BY <2>0, <2>4, <3>3
    <3>4. QED
      BY <2>1, <2>4, <3>2, <3>3
  <2>5. QED
    BY <1>1, <2>2, <2>3, <2>4 DEF Post
<1>2. ASSUME NEW p \in Posts, Over(p)
      PROVE  /\ posted' \in [Posts -> Tickets \cup {NoPost}] /\ late' \subseteq Posts
             /\ \A q \in Posts : posted'[q] # NoPost /\ posted'[q].client \in Addresses =>
                  posted'[q].addr = posted'[q].client
  BY <1>2 DEF Over
<1>3. ASSUME NEW p \in Posts, Increment(p)
      PROVE  LimiterInv'
  <2>1. Over(p) /\ UNCHANGED <<cacheThere, limiterFaults>> /\ posted[p] \in Tickets
    BY <1>3 DEF Increment
  <2>2. CASE CountIn(posted[p].view, posted[p].client, posted[p].addr)
    <3>1. /\ posted[p].view \in Views /\ posted[p].addr \in Hops
          /\ posted[p].client \in Addresses \cup {NoClient}
          /\ posted[p].client \in Addresses => posted[p].addr = posted[p].client
      BY <1>3, <2>1 DEF Tickets, Increment
    <3>2. QED
      BY <1>2, <2>1, <2>2, <3>1, CountInKeeps
  <2>3. CASE UNCHANGED <<hits, admitted>>
    BY <1>2, <2>1, <2>3
  <2>4. QED
    BY <1>3, <2>2, <2>3 DEF Increment
<1>4. ASSUME NEW p \in Posts, AnswerIsLost(p)
      PROVE  LimiterInv'
  <2>1. Over(p) /\ UNCHANGED <<cacheThere, admitted>> /\ limiterFaults' \in 0 .. MaxLimiterFaults
    BY <1>4 DEF AnswerIsLost, LimiterFault
  <2>2. posted[p].view \in Views /\ posted[p].addr \in Hops
    BY <1>4 DEF AnswerIsLost, Tickets
  <2>3. \A w \in Views : hits[w] \in [Hops -> 0 .. LIMIT] /\ admitted[w] \in [Addresses -> 0 .. LIMIT + 1]
    OBVIOUS
  <2>4. hits' = [hits EXCEPT ![posted[p].view][posted[p].addr] = IF @ < LIMIT THEN @ + 1 ELSE @]
    BY <1>4 DEF AnswerIsLost
  <2>5. hits' \in [Views -> [Hops -> 0 .. LIMIT]]
    BY <2>2, <2>3, <2>4
  <2>6. ASSUME NEW w \in Views, NEW j \in Addresses
        PROVE  admitted'[w][j] <= hits'[w][j]
    <3>1. j \in Hops
      BY DEF Hops
    <3>2. hits[w][j] <= hits'[w][j]
      BY <2>2, <2>3, <2>4, <3>1
    <3>3. hits[w][j] \in Nat /\ hits'[w][j] \in Nat /\ admitted[w][j] \in Nat
      BY <2>3, <2>5, <3>1
    <3>4. QED
      BY <2>1, <3>2, <3>3
  <2>7. QED
    BY <1>2, <2>1, <2>5, <2>6
<1>5. ASSUME NEW v \in Views, NEW h \in Hops, CounterGoes(v, h)
      PROVE  LimiterInv'
  <2>1. /\ UNCHANGED <<cacheThere, posted, limiterFaults>> /\ late' \subseteq Posts
        /\ hits' = [hits EXCEPT ![v][h] = 0]
        /\ admitted' = [admitted EXCEPT ![v] = [i \in Addresses |-> IF i = h THEN 0 ELSE @[i]]]
    BY <1>5 DEF CounterGoes
  <2>2. \A w \in Views : hits[w] \in [Hops -> 0 .. LIMIT] /\ admitted[w] \in [Addresses -> 0 .. LIMIT + 1]
    OBVIOUS
  <2>3. hits' \in [Views -> [Hops -> 0 .. LIMIT]]
    BY <2>1, <2>2
  <2>4. admitted' \in [Views -> [Addresses -> 0 .. LIMIT + 1]]
    <3>1. [i \in Addresses |-> IF i = h THEN 0 ELSE admitted[v][i]] \in [Addresses -> 0 .. LIMIT + 1]
      BY <2>2
    <3>2. QED
      BY <2>1, <3>1
  <2>5. ASSUME NEW w \in Views, NEW j \in Addresses
        PROVE  admitted'[w][j] <= hits'[w][j]
    <3>1. admitted[w][j] <= hits[w][j] /\ j \in Hops
      BY DEF Hops
    <3>2. CASE w # v
      BY <2>1, <3>1, <3>2
    <3>3. CASE w = v /\ j # h
      BY <2>1, <2>2, <3>1, <3>3
    <3>4. CASE w = v /\ j = h
      BY <2>1, <2>2, <3>1, <3>4
    <3>5. QED
      BY <3>2, <3>3, <3>4
  <2>6. QED
    BY <2>1, <2>3, <2>4, <2>5
<1>6. ASSUME NEW p \in Posts, PostDies(p)
      PROVE  LimiterInv'
  <2>1. /\ Over(p) /\ UNCHANGED <<cacheThere, hits, admitted>>
        /\ limiterFaults' \in 0 .. MaxLimiterFaults
    BY <1>6 DEF PostDies, LimiterFault
  <2>2. QED
    BY <1>2, <2>1
<1>7. CASE CacheGoes \/ CacheComesBack
  <2>1. cacheThere' \in BOOLEAN
    BY <1>7 DEF CacheGoes, CacheComesBack
  <2>2. UNCHANGED <<hits, posted, late, admitted>> /\ limiterFaults' \in 0 .. MaxLimiterFaults
    BY <1>7 DEF CacheGoes, CacheComesBack, LimiterFault
  <2>3. QED
    BY <2>1, <2>2
<1>8. CASE UNCHANGED limiterVars
  BY <1>8 DEF limiterVars
<1>9. QED
  BY <1>1, <1>3, <1>4, <1>5, <1>6, <1>7, <1>8 DEF LimiterNext

LEMMA LimiterInvAlways == LimiterSpec => []LimiterInv
BY LimiterInvInit, LimiterInvStep, PTL DEF LimiterSpec

\* The variables of the limiter keep their types; what is being counted has a view
\* and an address.
THEOREM LimiterTypeCorrect == LimiterSpec => []LimiterTypeOK
<1>1. LimiterInv => LimiterTypeOK
  BY DEF LimiterInv
<1>2. QED
  BY <1>1, LimiterInvAlways, PTL

\* No client gets more than LIMIT requests past one counter of a view, on whichever
\* of its ways through the trusted proxies they come, whatever addresses it puts
\* into X-Forwarded-For and however add, incr and the end of a window interleave.
THEOREM AddressAlwaysBounded == LimiterSpec => []AddressBounded
<1>1. LimiterInv => AddressBounded
  <2> SUFFICES ASSUME LimiterInv, NEW v \in Views, NEW i \in Addresses
               PROVE  admitted[v][i] <= LIMIT
    BY DEF AddressBounded
  <2>1. /\ admitted[v][i] <= hits[v][i] /\ hits[v][i] \in 0 .. LIMIT
        /\ admitted[v][i] \in 0 .. LIMIT + 1
    BY DEF LimiterInv, WindowInv, LimiterTypeOK, Hops
  <2>2. QED
    BY <2>1, LimiterConstants
<1>2. QED
  BY <1>1, LimiterInvAlways, PTL

(***************************************************************************)
(* Login                                                                   *)
(***************************************************************************)

LEMMA LoginTypeInit == LoginInit => LoginTypeOK
<1> SUFFICES ASSUME LoginInit PROVE LoginTypeOK
  OBVIOUS
<1>1. cacheAnswers \in BOOLEAN /\ missed \in BOOLEAN /\ blind \in BOOLEAN
  BY DEF LoginInit
<1>2. QED
  BY <1>1, LoginConstants DEF LoginInit, LoginTypeOK, LoginSteps

LEMMA LoginTypeStep == LoginTypeOK /\ [LoginNext]_loginVars => LoginTypeOK'
<1> SUFFICES ASSUME LoginTypeOK, [LoginNext]_loginVars PROVE LoginTypeOK'
  OBVIOUS
<1> USE LoginConstants DEF LoginTypeOK, LoginSteps, told, Move, Answer
<1>1. ASSUME NEW a \in Tries, Try(a) PROVE LoginTypeOK'
  BY <1>1 DEF Try
<1>2. ASSUME NEW a \in Tries, CheckLock(a) PROVE LoginTypeOK'
  <2>1. blind' \in BOOLEAN
    BY <1>2 DEF CheckLock
  <2>2. QED
    BY <1>2, <2>1 DEF CheckLock
<1>3. ASSUME NEW a \in Tries, Verdict(a) PROVE LoginTypeOK'
  BY <1>3 DEF Verdict
<1>4. ASSUME NEW a \in Tries, Add(a) PROVE LoginTypeOK'
  BY <1>4 DEF Add, Counted
<1>5. ASSUME NEW a \in Tries, IncrementFails(a) PROVE LoginTypeOK'
  <2>1. missed' \in BOOLEAN
    BY <1>5 DEF IncrementFails
  <2>2. QED
    BY <1>5, <2>1 DEF IncrementFails, Counted
<1>6. ASSUME NEW a \in Tries, Notify(a) PROVE LoginTypeOK'
  BY <1>6 DEF Notify
<1>7. ASSUME NEW a \in Tries, ClearFailures(a) PROVE LoginTypeOK'
  <2>0. Gone \/ UNCHANGED <<fails, told>>
    BY <1>7 DEF ClearFailures
  <2>1. fails' \in Nat /\ notices' \in Nat
    BY <2>0 DEF Gone
  <2>2. missed' \in BOOLEAN
    BY <2>0 DEF Gone
  <2>3. QED
    BY <1>7, <2>1, <2>2 DEF ClearFailures
<1>8. ASSUME NEW a \in Tries, Killed(a) PROVE LoginTypeOK'
  BY <1>8 DEF Killed
<1>9. CASE LockoutEnds
  BY <1>9 DEF LockoutEnds, Gone
<1>10. CASE CacheFails
  <2>1. cacheAnswers' \in BOOLEAN
    BY <1>10 DEF CacheFails
  <2>2. faults' \in 0 .. MaxLoginFaults
    BY <1>10 DEF CacheFails
  <2>3. QED
    BY <1>10, <2>1, <2>2 DEF CacheFails
<1>11. CASE CacheReturns
  BY <1>11 DEF CacheReturns
<1>12. CASE UNCHANGED loginVars
  BY <1>12 DEF loginVars
<1>13. QED
  BY <1>1, <1>2, <1>3, <1>4, <1>5, <1>6, <1>7, <1>8, <1>9, <1>10, <1>11, <1>12
  DEF LoginNext, AttemptStep

\* The variables of the sign-in keep their types.
THEOREM LoginTypeCorrect == LoginSpec => []LoginTypeOK
BY LoginTypeInit, LoginTypeStep, PTL DEF LoginSpec

-----------------------------------------------------------------------------
(* The notification *)

\* Below the threshold nothing was decided and nothing lost; from it on exactly
\* one notification was decided on, or the answer that called for it was lost.
NoticeInv ==
  /\ fails < LOCKOUT_THRESHOLD => notices = 0
  /\ notices <= 1
  /\ fails >= LOCKOUT_THRESHOLD => notices = 1 \/ missed

LEMMA NoticeStep == LoginTypeOK /\ NoticeInv /\ [LoginNext]_loginVars => NoticeInv'
<1> SUFFICES ASSUME LoginTypeOK, NoticeInv, [LoginNext]_loginVars PROVE NoticeInv'
  OBVIOUS
<1> USE LoginConstants
<1>0. fails \in Nat /\ notices \in Nat
  BY DEF LoginTypeOK
<1>1. ASSUME NEW a \in Tries, fails' = fails + 1, Counted(a), UNCHANGED missed
      PROVE  NoticeInv'
  BY <1>0, <1>1 DEF NoticeInv, Counted
<1>2. ASSUME NEW a \in Tries, Add(a) PROVE NoticeInv'
  <2>1. CASE fails = 0 /\ fails' = 1 /\ Counted(a)
    BY <1>1, <1>2, <2>1 DEF Add
  <2>2. CASE UNCHANGED <<fails, notices>>
    BY <1>2, <2>2 DEF Add, NoticeInv
  <2>3. QED
    BY <1>2, <2>1, <2>2 DEF Add
<1>3. ASSUME NEW a \in Tries, IncrementFails(a) PROVE NoticeInv'
  <2>1. CASE fails' = fails + 1 /\ Counted(a) /\ UNCHANGED missed
    BY <1>1, <2>1
  <2>2. CASE UNCHANGED <<fails, notices, missed>>
    BY <2>2 DEF NoticeInv
  <2>3. CASE /\ fails' = fails + 1 /\ UNCHANGED notices
             /\ missed' = (missed \/ fails' = LOCKOUT_THRESHOLD)
    <3>1. CASE fails < LOCKOUT_THRESHOLD
      <4>1. fails' >= LOCKOUT_THRESHOLD => fails' = LOCKOUT_THRESHOLD
        BY <1>0, <2>3, <3>1
      <4>2. fails' >= LOCKOUT_THRESHOLD => missed'
        BY <2>3, <4>1
      <4>3. notices = 0 /\ notices' = notices
        BY <2>3, <3>1 DEF NoticeInv
      <4>4. QED
        BY <4>2, <4>3 DEF NoticeInv
    <3>2. CASE fails >= LOCKOUT_THRESHOLD
      <4>1. notices = 1 \/ missed'
        BY <2>3, <3>2 DEF NoticeInv
      <4>2. QED
        BY <1>0, <2>3, <3>2, <4>1 DEF NoticeInv
    <3>3. QED
      BY <1>0, <3>1, <3>2
  <2>4. QED
    BY <1>3, <2>1, <2>2, <2>3 DEF IncrementFails
<1>4. CASE Gone
  BY <1>4 DEF Gone, NoticeInv
<1>5. CASE UNCHANGED <<fails, notices, missed>>
  BY <1>5 DEF NoticeInv
<1>6. ASSUME NEW a \in Tries, ClearFailures(a) PROVE NoticeInv'
  BY <1>4, <1>5, <1>6 DEF ClearFailures, told
<1>7. CASE LockoutEnds
  BY <1>4, <1>7 DEF LockoutEnds
<1>8. QED
  BY <1>2, <1>3, <1>5, <1>6, <1>7
  DEF LoginNext, AttemptStep, Try, CheckLock, Verdict, Notify, Killed,
      CacheFails, CacheReturns, loginVars, told

LEMMA NoticeAlways == LoginSpec => []NoticeInv
<1>1. LoginInit => NoticeInv
  BY LoginConstants DEF LoginInit, NoticeInv
<1>2. QED
  BY <1>1, NoticeStep, LoginTypeCorrect, PTL DEF LoginSpec

\* However the failures of both entry points interleave, a lockout notifies its
\* user once: never twice, and not at all only when the answer was lost.
THEOREM AlwaysNotifiedOnce == LoginSpec => []NotifiedOnce
<1>1. NoticeInv => NotifiedOnce
  BY DEF NoticeInv, NotifiedOnce
<1>2. QED
  BY <1>1, NoticeAlways, PTL

-----------------------------------------------------------------------------
(* The guesses *)

LEMMA EvaluatedIsFinite ==
  IsFiniteSet(Evaluated) /\ Cardinality(Evaluated) \in Nat /\ Cardinality(Tries) \in Nat
  /\ Cardinality(Evaluated) <= Cardinality(Tries)
BY LoginConstants, FS_Subset, FS_CardinalityType DEF Evaluated

LEMMA GuessStep == LoginTypeOK /\ GuessesBounded /\ [LoginNext]_loginVars => GuessesBounded'
<1> SUFFICES ASSUME LoginTypeOK, GuessesBounded, [LoginNext]_loginVars, ~blind'
             PROVE  fails' + Cardinality(Evaluated') <= LOCKOUT_THRESHOLD - 1 + Cardinality(Tries)
  BY DEF GuessesBounded
<1> DEFINE Bounded(n, S) == n + Cardinality(S) <= LOCKOUT_THRESHOLD - 1 + Cardinality(Tries)
<1>0. /\ LOCKOUT_THRESHOLD \in Nat \ {0} /\ fails \in Nat
      /\ IsFiniteSet(Evaluated) /\ Cardinality(Evaluated) \in Nat /\ Cardinality(Tries) \in Nat
  BY LoginConstants, EvaluatedIsFinite DEF LoginTypeOK
<1>1. ~blind => Bounded(fails, Evaluated)
  BY DEF GuessesBounded
\* Fewer attempts under way, and no more failures.
<1>2. ASSUME NEW n \in Nat, n <= fails, NEW S \in SUBSET Evaluated, ~blind
      PROVE  Bounded(n, S)
  <2>1. Cardinality(S) \in Nat /\ Cardinality(S) <= Cardinality(Evaluated)
    BY <1>0, FS_Subset, FS_CardinalityType
  <2>2. QED
    BY <1>0, <1>1, <1>2, <2>1
\* A failure is counted and its attempt is over.
<1>3. ASSUME NEW a \in Evaluated, ~blind PROVE Bounded(fails + 1, Evaluated \ {a})
  <2>1. Cardinality(Evaluated \ {a}) = Cardinality(Evaluated) - 1
    BY <1>0, FS_RemoveElement
  <2>2. QED
    BY <1>0, <1>1, <1>3, <2>1
\* No failure was counted yet, or not enough.
<1>4. ASSUME NEW n \in Nat, n < LOCKOUT_THRESHOLD, NEW S \in SUBSET Tries
      PROVE  Bounded(n, S)
  <2>1. Cardinality(S) \in Nat /\ Cardinality(S) <= Cardinality(Tries)
    BY LoginConstants, FS_Subset, FS_CardinalityType
  <2>2. QED
    BY <1>0, <1>4, <2>1
<1>5. blind => blind'
  BY DEF LoginNext, AttemptStep, Try, CheckLock, Verdict, Add, IncrementFails, Notify, ClearFailures,
    Killed, LockoutEnds, CacheFails, CacheReturns, loginVars
<1>6. ~blind /\ Evaluated' \subseteq Tries
  BY <1>5 DEF Evaluated
<1> HIDE DEF Bounded
<1>7. ASSUME NEW a \in Tries, Try(a)
      PROVE  Bounded(fails', Evaluated')
  <2>1. fails' = fails /\ Evaluated' \subseteq Evaluated
    BY <1>7 DEF Try, Move, Evaluated, LoginTypeOK
  <2>2. QED
    BY <1>0, <1>2, <1>6, <2>1
<1>8. ASSUME NEW a \in Tries, CheckLock(a) PROVE Bounded(fails', Evaluated')
  <2>1. fails' = fails /\ cacheAnswers
    BY <1>8 DEF CheckLock
  <2>2. CASE IsLocked
    <3>1. Evaluated' \subseteq Evaluated
      BY <1>8, <2>2 DEF CheckLock, Answer, Move, Evaluated, LoginTypeOK
    <3>2. QED
      BY <1>0, <1>2, <1>6, <2>1, <3>1
  <2>3. CASE ~IsLocked
    BY <1>0, <1>4, <1>6, <2>1, <2>3 DEF IsLocked
  <2>4. QED
    BY <2>2, <2>3
<1>9. ASSUME NEW a \in Tries, Verdict(a) PROVE Bounded(fails', Evaluated')
  <2>1. fails' = fails /\ Evaluated' \subseteq Evaluated
    BY <1>9 DEF Verdict, Move, Answer, Evaluated, LoginTypeOK
  <2>2. QED
    BY <1>0, <1>2, <1>6, <2>1
<1>10. ASSUME NEW a \in Tries, Add(a) \/ IncrementFails(a) PROVE Bounded(fails', Evaluated')
  <2>1. a \in Evaluated
    BY <1>10 DEF Add, IncrementFails, Evaluated
  <2>2. CASE fails' = fails
    <3>1. Evaluated' \subseteq Evaluated
      BY <1>10, <2>1 DEF Add, IncrementFails, Counted, Move, Answer, Evaluated, LoginTypeOK
    <3>2. QED
      BY <1>0, <1>2, <1>6, <2>2, <3>1
  <2>3. CASE fails' # fails
    <3>1. fails' = fails + 1 /\ (Answer(a) \/ Move(a, "notify"))
      BY <1>0, <1>10, <2>3 DEF Add, IncrementFails, Counted
    <3>2. Evaluated' = Evaluated \ {a}
      BY <3>1 DEF Move, Answer, Evaluated, LoginTypeOK
    <3>3. QED
      BY <1>3, <1>6, <2>1, <3>1, <3>2
  <2>4. QED
    BY <2>2, <2>3
<1>11. ASSUME NEW a \in Tries, Notify(a) \/ ClearFailures(a) \/ Killed(a)
       PROVE  Bounded(fails', Evaluated')
  <2>1. Evaluated' \subseteq Evaluated
    BY <1>11 DEF Notify, ClearFailures, Killed, Answer, Move, Evaluated, LoginTypeOK
  <2>2. fails' \in Nat /\ fails' <= fails
    BY <1>0, <1>11 DEF Notify, ClearFailures, Killed, Gone
  <2>3. QED
    BY <1>2, <1>6, <2>1, <2>2
<1>12. ASSUME LockoutEnds PROVE Bounded(fails', Evaluated')
  <2>1. fails' = 0
    BY <1>12 DEF LockoutEnds, Gone
  <2>2. 0 \in Nat /\ 0 < LOCKOUT_THRESHOLD
    BY <1>0
  <2>3. Bounded(0, Evaluated')
    BY <1>4, <1>6, <2>2
  <2>4. QED
    BY <2>1, <2>3
<1>13. ASSUME UNCHANGED <<fails, step>> PROVE Bounded(fails', Evaluated')
  <2>1. fails' = fails /\ Evaluated' = Evaluated
    BY <1>13 DEF Evaluated
  <2>2. QED
    BY <1>0, <1>1, <1>6, <2>1 DEF Bounded
<1>14. ASSUME CacheFails \/ CacheReturns \/ UNCHANGED loginVars PROVE Bounded(fails', Evaluated')
  <2>1. UNCHANGED <<fails, step>>
    BY <1>14 DEF CacheFails, CacheReturns, loginVars
  <2>2. QED
    BY <1>13, <2>1
<1>15. Bounded(fails', Evaluated')
  <2>1. ASSUME NEW a \in Tries, AttemptStep(a) PROVE Bounded(fails', Evaluated')
    BY <1>8, <1>9, <1>10, <1>11, <2>1 DEF AttemptStep
  <2>2. ASSUME NEW a \in Tries, Killed(a) PROVE Bounded(fails', Evaluated')
    BY <1>11, <2>2
  <2>3. ASSUME NEW a \in Tries, Try(a) PROVE Bounded(fails', Evaluated')
    BY <1>7, <2>3
  <2>4. QED
    BY <1>12, <1>14, <2>1, <2>2, <2>3 DEF LoginNext
<1>16. QED
  BY <1>15 DEF Bounded

\* As long as no attempt was let through without the cache, the attempts whose
\* credentials are evaluated while a lockout key lives are bounded by the threshold
\* and by how many are made at once.
THEOREM GuessesAlwaysBounded == LoginSpec => []GuessesBounded
<1>1. LoginInit => GuessesBounded
  <2> SUFFICES ASSUME LoginInit PROVE GuessesBounded
    OBVIOUS
  <2>1. fails = 0
    BY DEF LoginInit
  <2>2. QED
    BY <2>1, EvaluatedIsFinite, LoginConstants DEF GuessesBounded
<1>2. QED
  BY <1>1, GuessStep, LoginTypeCorrect, PTL DEF LoginSpec

(***************************************************************************)
(* Registration                                                            *)
(***************************************************************************)

LEMMA RegistrationTypeInit == RegistrationInit => RegistrationTypeOK
BY RegistrationConstants DEF RegistrationInit, RegistrationTypeOK, Blank

LEMMA RegistrationTypeStep ==
  RegistrationTypeOK /\ [RegistrationNext]_registrationVars => RegistrationTypeOK'
<1> SUFFICES ASSUME RegistrationTypeOK, [RegistrationNext]_registrationVars
             PROVE  RegistrationTypeOK'
  OBVIOUS
<1> USE RegistrationConstants DEF RegistrationTypeOK, Blank, Tab, Kinds, Turn, CloseTab
<1>1. ASSUME NEW t \in Tabs, Insert(t) PROVE RegistrationTypeOK'
  BY <1>1 DEF Insert
<1>2. ASSUME NEW t \in Tabs, FindProfile(t) PROVE RegistrationTypeOK'
  BY <1>2 DEF FindProfile
<1>3. ASSUME NEW t \in Tabs, MakeProfile(t) PROVE RegistrationTypeOK'
  BY <1>3 DEF MakeProfile
<1>4. ASSUME NEW t \in Tabs, ShowProfile(t) PROVE RegistrationTypeOK'
  BY <1>4 DEF ShowProfile
<1>5. ASSUME NEW t \in Tabs, SendMail(t) PROVE RegistrationTypeOK'
  BY <1>5 DEF SendMail, Queue
<1>6. ASSUME NEW t \in Tabs, Verify(t) PROVE RegistrationTypeOK'
  BY <1>6 DEF Verify
<1>7. ASSUME NEW t \in Tabs, Kill(t) PROVE RegistrationTypeOK'
  BY <1>7 DEF Kill
<1>8. ASSUME NEW t \in Tabs, NEW n \in Names, Submit(t, n) PROVE RegistrationTypeOK'
  BY <1>8 DEF Submit
<1>9. ASSUME NEW t \in Tabs, NEW n \in Names, NEW kind \in Kinds, OpenTab(t, kind, n)
      PROVE  RegistrationTypeOK'
  BY <1>9 DEF OpenTab
<1>10. ASSUME NEW n \in Names, Resend(n) PROVE RegistrationTypeOK'
  BY <1>10 DEF Resend, Queue
<1>11. ASSUME NEW n \in Names, Mail(n) \/ MailFails(n) PROVE RegistrationTypeOK'
  BY <1>11 DEF Mail, MailFails
<1>12. ASSUME NEW n \in Names, LinkExpires(n) PROVE RegistrationTypeOK'
  BY <1>12 DEF LinkExpires
<1>13. CASE UNCHANGED registrationVars
  BY <1>13 DEF registrationVars
<1>14. QED
  BY <1>1, <1>2, <1>3, <1>4, <1>5, <1>6, <1>7, <1>8, <1>9, <1>10, <1>11, <1>12, <1>13
  DEF RegistrationNext, TabStep

\* The variables keep their types: no profile, task or link without its user.
THEOREM RegistrationTypeCorrect == RegistrationSpec => []RegistrationTypeOK
BY RegistrationTypeInit, RegistrationTypeStep, PTL DEF RegistrationSpec

-----------------------------------------------------------------------------
(* One account *)

\* What makes OneAccountPerAddress inductive without counting.
OneName == \A m, n \in registered : m = n

LEMMA OneNameStep ==
  RegistrationTypeOK /\ OneName /\ [RegistrationNext]_registrationVars => OneName'
<1> SUFFICES ASSUME RegistrationTypeOK, OneName, [RegistrationNext]_registrationVars
             PROVE  OneName'
  OBVIOUS
<1>1. ASSUME NEW t \in Tabs, Insert(t) PROVE OneName'
  BY <1>1 DEF Insert, Taken, OneName
<1>2. CASE UNCHANGED registered
  BY <1>2 DEF OneName
<1>3. QED
  BY <1>1, <1>2
  DEF RegistrationNext, TabStep, FindProfile, MakeProfile, ShowProfile, SendMail, Verify,
      Kill, Submit, OpenTab, Resend, Mail, MailFails, LinkExpires, registrationVars

\* However many forms were valid at once, one account is made of one address.
THEOREM AlwaysOneAccount == RegistrationSpec => []OneAccountPerAddress
<1>1. RegistrationInit => OneName
  BY DEF RegistrationInit, OneName
<1>2. ASSUME OneName PROVE OneAccountPerAddress
  <2>1. CASE registered = {}
    BY <2>1, FS_EmptySet DEF OneAccountPerAddress
  <2>2. CASE registered # {}
    <3>1. PICK n : registered = {n}
      BY <1>2, <2>2 DEF OneName
    <3>2. QED
      <4>1. Cardinality({n}) = 1
        BY FS_Singleton
      <4>2. QED
        BY <3>1, <4>1 DEF OneAccountPerAddress
  <2>3. QED
    BY <2>1, <2>2
<1>3. QED
  BY <1>1, <1>2, OneNameStep, RegistrationTypeCorrect, PTL DEF RegistrationSpec

-----------------------------------------------------------------------------
(* Verified addresses *)

\* No request puts an unverified profile back in the place of a verified one.
THEOREM VerifiedAlwaysStays == RegistrationSpec => VerifiedStays
<1> DEFINE Stays == \A n \in Names : profiles[n] = "verified" => profiles'[n] = "verified"
<1>1. ASSUME RegistrationTypeOK, [RegistrationNext]_registrationVars PROVE Stays
  <2>1. ASSUME NEW t \in Tabs, MakeProfile(t) PROVE Stays
    BY <1>1, <2>1 DEF MakeProfile, RegistrationTypeOK
  <2>2. ASSUME NEW t \in Tabs, Verify(t) PROVE Stays
    BY <1>1, <2>2 DEF Verify, RegistrationTypeOK
  <2>3. ASSUME NEW n \in Names, Resend(n) PROVE Stays
    BY <1>1, <2>3 DEF Resend, RegistrationTypeOK
  <2>4. CASE UNCHANGED profiles
    BY <2>4
  <2>5. QED
    BY <1>1, <2>1, <2>2, <2>3, <2>4
    DEF RegistrationNext, TabStep, Insert, FindProfile, ShowProfile, SendMail,
        Kill, Submit, OpenTab, Mail, MailFails, LinkExpires, registrationVars
<1>2. QED
  BY <1>1, RegistrationTypeCorrect, PTL DEF RegistrationSpec, VerifiedStays

\* Whatever requests, mails and visits interleave: one account for the address,
\* and verified for good once it is verified.
THEOREM AccountsAlwaysStand == RegistrationSpec => AccountsStand
BY AlwaysOneAccount, VerifiedAlwaysStays, PTL DEF AccountsStand

(***************************************************************************)
(* Erasure                                                                 *)
(***************************************************************************)

\* After a purge that ended well, and beside which no request ran, there is no
\* cart and nobody left who could make one.
QuietInv ==
  /\ person = "erased" => records = {}
  /\ purge = "done" /\ ~beside => cart = "none" /\ \A v \in Visits : visit[v] = "idle"

\* What the export has still to read when it comes to each of its queries; the
\* attempts it does not read at all.
Ahead ==
  [idle |-> {}, profile |-> {"profile", "cart", "order", "contact", "attempt"},
   cart |-> {"cart", "order", "contact", "attempt"}, orders |-> {"order", "contact", "attempt"},
   contact |-> {"contact", "attempt"}, log |-> {"attempt"}, done |-> {}]

ExportInv == owed \subseteq Ahead[export]

ErasureInv == ErasureTypeOK /\ ErasureIsLogged /\ QuietInv /\ ExportInv

-----------------------------------------------------------------------------

LEMMA ErasureInvInit == ErasureInit => ErasureInv
<1> SUFFICES ASSUME ErasureInit PROVE ErasureInv
  OBVIOUS
<1>1. ErasureTypeOK
  <2>1. visit \in [Visits -> {"idle", "in", "create", "upsert", "with"}] /\ losses \in 0 .. MaxLosses
    BY ErasureConstants DEF ErasureInit
  <2>2. records \subseteq Rows /\ beside \in BOOLEAN
    BY DEF ErasureInit, Rows
  <2>3. QED
    BY <2>1, <2>2 DEF ErasureInit, ErasureTypeOK, Ages
<1>2. ErasureIsLogged /\ QuietInv /\ ExportInv
  BY DEF ErasureInit, ErasureIsLogged, QuietInv, ExportInv
<1>3. QED
  BY <1>1, <1>2 DEF ErasureInv

\* The steps of the user, by what they leave alone and what they may do.
LEMMA RequestStep ==
  ASSUME ErasureInv, NEW v \in Visits, Request(v)
  PROVE  /\ UNCHANGED <<person, contact, auditLog, purging, export, pass, losses>>
         /\ visit' \in [Visits -> {"idle", "in", "create", "upsert", "with"}]
         /\ records' = records \/ (person = "member" /\ records' \subseteq Rows)
         /\ cart' \in Ages
         /\ visit[v] = "idle" => person = "member" /\ cart' = cart
<1> USE DEF ErasureInv, ErasureTypeOK, OnlyVisit, GoOn, InsertRow, Served, Rows, Ages, Lose, purging
<1>1. CASE Arrive(v)
  BY <1>1 DEF Arrive
<1>2. CASE Depart(v)
  BY <1>2 DEF Depart
<1>3. CASE MissProfile(v)
  BY <1>3 DEF MissProfile
<1>4. CASE CreateProfile(v)
  BY <1>4 DEF CreateProfile
<1>5. CASE AddRow(v)
  BY <1>5 DEF AddRow
<1>6. CASE FindCart(v)
  BY <1>6 DEF FindCart
<1>7. CASE UpsertCart(v)
  BY <1>7 DEF UpsertCart
<1>8. CASE TouchCart(v)
  BY <1>8 DEF TouchCart
<1>9. QED
  BY <1>1, <1>2, <1>3, <1>4, <1>5, <1>6, <1>7, <1>8 DEF Request, VisitStep

\* The steps of purge_user.
LEMMA PurgeStep ==
  ASSUME ErasureInv, Purge
  PROVE  /\ UNCHANGED <<contact, visit, export, pass>>
         /\ person' \in {"member", "erased"} /\ records' \subseteq Rows /\ cart' \in Ages
         /\ auditLog' \subseteq {"export", "delete"}
         /\ purge' \in {"idle", "gather", "commit", "carts", "done", "failed"}
         /\ purge' \in {"carts", "done", "failed"} <=> person' = "erased"
         /\ gathered' \subseteq Rows /\ beside' \in BOOLEAN /\ losses' \in 0 .. MaxLosses
         /\ person' = "erased" => "delete" \in auditLog'
         /\ person' = "erased" => records' = {}
         /\ purge' = "done" /\ ~beside' => cart' = "none" /\ \A v \in Visits : visit[v] = "idle"
<1> USE DEF ErasureInv, ErasureIsLogged, QuietInv, ErasureTypeOK, OnlyPurge, Purging, Rows, Ages, kept
<1>1. CASE StartPurge
  BY <1>1 DEF StartPurge
<1>2. CASE Gather
  BY <1>2 DEF Gather
<1>3. CASE CommitPurge
  <2>1. auditLog \cup {"delete"} \subseteq {"export", "delete"}
    OBVIOUS
  <2>2. QED
    BY <1>3, <2>1 DEF CommitPurge
<1>4. CASE DropCarts
  BY <1>4 DEF DropCarts
<1>5. CASE PurgeDies
  <2>1. losses' \in 0 .. MaxLosses
    BY <1>5, ErasureConstants DEF PurgeDies, Lose
  <2>2. QED
    BY <1>5, <2>1 DEF PurgeDies
<1>6. QED
  BY <1>1, <1>2, <1>3, <1>4, <1>5 DEF Purge

\* The steps of export_user: each query reads what the next one need not.
LEMMA ExportStep ==
  ASSUME ErasureInv, Export
  PROVE  /\ UNCHANGED <<person, records, cart, contact, visit, purging, pass>>
         /\ auditLog \subseteq auditLog' /\ auditLog' \subseteq {"export", "delete"}
         /\ export' \in {"idle", "profile", "cart", "orders", "contact", "log", "done"}
         /\ export' # export /\ owed' \subseteq Ahead[export']
         /\ losses' \in 0 .. MaxLosses
<1> USE DEF ErasureInv, ErasureTypeOK, ExportInv, Ahead, OnlyExport, Take
<1>1. CASE StartExport
  BY <1>1 DEF StartExport, Held, Rows
<1>2. CASE \/ Take("profile", {"profile"}, "cart") \/ Take("cart", {"cart"}, "orders")
           \/ Take("orders", {"order"}, "contact") \/ Take("contact", {"contact"}, "log")
  <2>0. /\ owed \subseteq Rows \cup {"cart", "contact"}
        /\ UNCHANGED <<person, records, cart, contact, visit, purging, pass, losses, auditLog>>
    BY <1>2
  <2>1. CASE Take("profile", {"profile"}, "cart")
    BY <2>0, <2>1 DEF Rows
  <2>2. CASE Take("cart", {"cart"}, "orders")
    BY <2>0, <2>2
  <2>3. CASE Take("orders", {"order"}, "contact")
    BY <2>0, <2>3
  <2>4. CASE Take("contact", {"contact"}, "log")
    BY <2>0, <2>4
  <2>5. QED
    BY <1>2, <2>1, <2>2, <2>3, <2>4
<1>3. CASE LogExport
  BY <1>3 DEF LogExport
<1>4. CASE ExportDies
  <2>1. losses' \in 0 .. MaxLosses
    BY <1>4, ErasureConstants DEF ExportDies, Lose
  <2>2. QED
    BY <1>4, <2>1 DEF ExportDies, kept
<1>5. QED
  BY <1>1, <1>2, <1>3, <1>4 DEF Export

\* Retention, time, and messages: the cart may go or age.
LEMMA OtherStep ==
  ASSUME ErasureInv, WriteMessage \/ Retention \/ CartAges \/ MessageAges
  PROVE  /\ UNCHANGED <<person, records, auditLog, visit, purging, export>>
         /\ cart' \in Ages /\ (cart = "none" => cart' = "none") /\ contact' \in Ages
         /\ pass' \in {"messages", "carts"} /\ losses' \in 0 .. MaxLosses
<1> USE DEF ErasureInv, ErasureTypeOK, Ages, OnlyPass
<1>1. CASE WriteMessage
  BY <1>1 DEF WriteMessage
<1>2. CASE PurgeMessages \/ PurgeCarts
  BY <1>2 DEF PurgeMessages, PurgeCarts
<1>3. CASE PassFails
  <2>1. losses' \in 0 .. MaxLosses
    BY <1>3, ErasureConstants DEF PassFails, Lose
  <2>2. QED
    BY <1>3, <2>1 DEF PassFails
<1>4. CASE CartAges \/ MessageAges
  BY <1>4 DEF CartAges, MessageAges
<1>5. QED
  BY <1>1, <1>2, <1>3, <1>4 DEF Retention

LEMMA ErasureInvStep == ErasureInv /\ [ErasureNext]_erasureVars => ErasureInv'
<1> SUFFICES ASSUME ErasureInv, [ErasureNext]_erasureVars PROVE ErasureInv'
  OBVIOUS
<1>1. CASE UNCHANGED erasureVars
  BY <1>1 DEF ErasureInv, ErasureTypeOK, ErasureIsLogged, QuietInv, ExportInv,
     erasureVars, kept, purging, exporting
<1>2. CASE ErasureNext
  <2>0. Observe /\ owed \subseteq Ahead[export] /\ export \in DOMAIN Ahead
    BY <1>2 DEF ErasureNext, ErasureInv, ExportInv, ErasureTypeOK, Ahead
  <2>1. export' = export => owed' \subseteq Ahead[export']
    BY <2>0 DEF Observe
  <2>2. \A e \in DOMAIN Ahead : Ahead[e] \subseteq Rows \cup {"cart", "contact"}
    BY DEF Ahead, Rows
  <2>3. ASSUME NEW v \in Visits, Request(v)
        PROVE  ErasureInv'
    <3>1. ErasureTypeOK'
      BY <2>0, <2>1, <2>2, <2>3, RequestStep DEF ErasureInv, ErasureTypeOK, purging
    <3>2. ErasureIsLogged' /\ ExportInv'
      BY <2>1, <2>3, RequestStep DEF ErasureInv, ErasureIsLogged, ExportInv
    <3>3. QuietInv'
      BY <2>3, RequestStep DEF ErasureInv, QuietInv, ErasureTypeOK, purging
    <3>4. QED
      BY <3>1, <3>2, <3>3 DEF ErasureInv
  <2>4. CASE Purge
    <3>1. owed' \subseteq Rows \cup {"cart", "contact"}
      BY <2>0, <2>1, <2>2, <2>4, PurgeStep
    <3>2. ErasureTypeOK'
      BY <2>4, <3>1, PurgeStep DEF ErasureInv, ErasureTypeOK
    <3>3. ErasureIsLogged' /\ ExportInv' /\ QuietInv'
      BY <2>1, <2>4, PurgeStep DEF ErasureIsLogged, ExportInv, QuietInv
    <3>4. QED
      BY <3>2, <3>3 DEF ErasureInv
  <2>5. CASE Export
    <3>1. owed' \subseteq Rows \cup {"cart", "contact"}
      BY <2>2, <2>5, ExportStep DEF Ahead
    <3>2. ErasureTypeOK'
      BY <2>5, <3>1, ExportStep DEF ErasureInv, ErasureTypeOK, purging
    <3>3. ErasureIsLogged' /\ ExportInv' /\ QuietInv'
      BY <2>5, ExportStep DEF ErasureInv, ErasureIsLogged, ExportInv, QuietInv, purging
    <3>4. QED
      BY <3>2, <3>3 DEF ErasureInv
  <2>6. CASE WriteMessage \/ Retention \/ CartAges \/ MessageAges
    <3>1. owed' \subseteq Rows \cup {"cart", "contact"}
      BY <2>0, <2>1, <2>2, <2>6, OtherStep
    <3>2. ErasureTypeOK'
      BY <2>6, <3>1, OtherStep DEF ErasureInv, ErasureTypeOK, purging
    <3>3. ErasureIsLogged' /\ ExportInv' /\ QuietInv'
      BY <2>1, <2>6, OtherStep DEF ErasureInv, ErasureIsLogged, ExportInv, QuietInv, purging
    <3>4. QED
      BY <3>2, <3>3 DEF ErasureInv
  <2>7. QED
    BY <1>2, <2>3, <2>4, <2>5, <2>6 DEF ErasureNext
<1>3. QED
  BY <1>1, <1>2

LEMMA ErasureInvAlways == ErasureSpec => []ErasureInv
BY ErasureInvInit, ErasureInvStep, PTL DEF ErasureSpec

-----------------------------------------------------------------------------

\* The variables of erasure, export and retention keep their types.
THEOREM ErasureTypeCorrect == ErasureSpec => []ErasureTypeOK
<1>1. ErasureInv => ErasureTypeOK
  BY DEF ErasureInv
<1>2. QED
  BY <1>1, ErasureInvAlways, PTL

\* A purge that ends well leaves nothing, however many requests came before it,
\* no user is gone without the entry in the log, and what is there all the while,
\* attempts and tokens aside, is in the export, whatever dies between two of their
\* steps.
THEOREM CommandsAlwaysKeepTheirWord == ErasureSpec => []CommandsKeepTheirWord
<1>1. ErasureInv => PurgeLeavesNothing
  BY DEF ErasureInv, QuietInv, PurgeLeavesNothing
<1>2. ErasureInv => ExportIsComplete
  BY DEF ErasureInv, ExportInv, Ahead, ExportIsComplete
<1>3. ErasureInv => CommandsKeepTheirWord
  BY <1>1, <1>2 DEF CommandsKeepTheirWord
<1>4. QED
  BY <1>3, ErasureInvAlways, PTL

=============================================================================
