------------------------------- MODULE Keyring -------------------------------
(***************************************************************************)
(* payments/services/saleor_webhooks.py: verify_saleor_signature, which    *)
(* checks an event against Saleor's published keys.  The key document is   *)
(* cached in Redis; a document that does not verify the event is refreshed *)
(* once, by one worker at a time (core/cache_lock.py).                     *)
(*                                                                         *)
(* Documents are numbered as Saleor publishes them.  Document n holds the  *)
(* keys n - 1 and n, so a rotation drops one key and adds another.  An     *)
(* event is the key that signed it: its header is well formed, and a       *)
(* signature verifies just when its key is in the document.                *)
(***************************************************************************)
EXTENDS Naturals

CONSTANTS
  Workers,
  MaxDocument,     \* bound: the last document
  MaxMishaps,      \* bound: outages, crashes, lost leases, expiries, load tests
  Nobody, Dead     \* who holds the lease: nobody, or a worker that died

Documents == 1 .. MaxDocument
LoadTest == MaxDocument + 1      \* the document that loadtest_seed installs
NoDocument == 0

ASSUME KeyringConstants ==
  /\ MaxDocument \in Nat \ {0} /\ MaxMishaps \in Nat
  /\ Nobody # Dead /\ {Nobody, Dead} \cap Workers = {}

KeysOf(n) == IF n \in Documents THEN {n - 1, n} ELSE {}

VARIABLES
  published,   \* Saleor's current document
  reachable,   \* the services within reach
  cached,      \* saleor:jwks:<url>
  holder,      \* saleor:jwks:<url>:refresh, the lease of the refresh
  outlived,    \* history: the refreshes that go on without their lease, and
               \*   those that were begun beside one
  stage,       \* where each worker is in verify_saleor_signature
  key,         \* the key of its event
  forced,      \* force_refresh
  before,      \* what it found in the cache when this round began
  document,    \* what _load_jwks gave it
  verdict,     \* how the request ended: status 202, 401 or 500
  excused,     \* history: did something happen that excuses a refusal?
  mishaps

saleor == <<published, reachable, mishaps>>
keyCache == <<cached, holder, outlived>>
work == <<stage, key, forced, before, document, verdict>>
keyringVars == <<saleor, keyCache, work, excused>>

Services == {"saleor", "redis"}
Stages == {"idle", "look", "lease", "fetch", "store", "wait", "release", "delete", "check"}

KeyringTypeOK ==
  /\ published \in Documents /\ reachable \subseteq Services /\ mishaps \in 0 .. MaxMishaps
  /\ cached \in 0 .. LoadTest /\ holder \in Workers \cup {Nobody, Dead}
  /\ outlived \subseteq Workers
  /\ stage \in [Workers -> Stages] /\ key \in [Workers -> 0 .. MaxDocument]
  /\ forced \in [Workers -> BOOLEAN]
  /\ before \in [Workers -> 0 .. LoadTest] /\ document \in [Workers -> 0 .. LoadTest]
  /\ verdict \in [Workers -> {"none", "accepted", "unauthorized", "error"}]
  /\ excused \in [Workers -> BOOLEAN]
  /\ \A w \in Workers : stage[w] = "store" => document[w] \in Documents

KeyringInit ==
  /\ published = 1 /\ reachable = Services /\ mishaps = 0
  /\ cached = NoDocument /\ holder = Nobody /\ outlived = {}
  /\ stage = [w \in Workers |-> "idle"] /\ key = [w \in Workers |-> 0]
  /\ forced = [w \in Workers |-> FALSE]
  /\ before = [w \in Workers |-> NoDocument] /\ document = [w \in Workers |-> NoDocument]
  /\ verdict = [w \in Workers |-> "none"] /\ excused = [w \in Workers |-> FALSE]

-----------------------------------------------------------------------------
(* verify_saleor_signature *)

Redis == "redis" \in reachable

\* Saleor delivers an event, or delivers it again.
Deliver(w) ==
  /\ stage[w] = "idle"
  /\ key' = [key EXCEPT ![w] = published]
  /\ verdict' = [verdict EXCEPT ![w] = "none"]
  /\ excused' = [excused EXCEPT ![w] = reachable # Services]
  /\ stage' = [stage EXCEPT ![w] = "look"]
  /\ UNCHANGED <<saleor, keyCache, forced, before, document>>

Proceed(w, next) ==
  /\ stage' = [stage EXCEPT ![w] = next]
  /\ UNCHANGED <<key, forced, before, document, verdict>>

\* The round ends with the document d.
Loaded(w, d, next) ==
  /\ document' = [document EXCEPT ![w] = d]
  /\ stage' = [stage EXCEPT ![w] = next]
  /\ UNCHANGED <<key, forced, before, verdict>>

End(w, how) ==
  /\ verdict' = [verdict EXCEPT ![w] = how]
  /\ stage' = [stage EXCEPT ![w] = "idle"] /\ key' = [key EXCEPT ![w] = 0]
  /\ forced' = [forced EXCEPT ![w] = FALSE]
  /\ before' = [before EXCEPT ![w] = NoDocument]
  /\ document' = [document EXCEPT ![w] = NoDocument]

\* The cached document will do unless the refresh is forced.
Look(w) ==
  /\ stage[w] = "look"
  /\ before' = [before EXCEPT ![w] = IF Redis THEN cached ELSE NoDocument]
  /\ LET use == Redis /\ cached # NoDocument /\ ~forced[w] IN
       /\ document' = [document EXCEPT ![w] = IF use THEN cached ELSE NoDocument]
       /\ stage' = [stage EXCEPT ![w] = IF use \/ ~Redis THEN "check" ELSE "lease"]
  /\ UNCHANGED <<saleor, keyCache, key, forced, verdict, excused>>

\* The lease is this worker's from here, though another may still be at work.
Acquired(w) ==
  /\ holder' = w
  /\ outlived' = IF outlived = {} THEN {} ELSE outlived \cup {w}
  /\ Proceed(w, "fetch")

\* Mutant of Lease: cache.set in place of cache.add.
LeaseAnyway(w) ==
  /\ stage[w] = "lease"
  /\ IF Redis THEN Acquired(w)
              ELSE UNCHANGED <<holder, outlived>> /\ Loaded(w, NoDocument, "check")
  /\ UNCHANGED <<saleor, cached, excused>>

Lease(w) ==
  /\ stage[w] = "lease"
  /\ \/ Redis /\ holder = Nobody /\ Acquired(w)
     \/ Redis /\ holder # Nobody /\ UNCHANGED <<holder, outlived>> /\ Proceed(w, "wait")
     \/ ~Redis /\ UNCHANGED <<holder, outlived>> /\ Loaded(w, NoDocument, "check")
  /\ UNCHANGED <<saleor, cached, excused>>

\* The worker ends with the lease in Redis, if it is still its own.
LeftBehind(w) == IF holder = w THEN Dead ELSE holder

Fetch(w) ==
  /\ stage[w] = "fetch"
  /\ IF "saleor" \in reachable
       THEN Loaded(w, published, "store") /\ UNCHANGED outlived
       ELSE Loaded(w, NoDocument, "release") /\ outlived' = outlived \ {w}
  /\ UNCHANGED <<saleor, cached, holder, excused>>

\* Nobody asks here whose the lease is by now.  A cache.set that fails is not a
\* WebhookSignatureError: the view answers 500.
Store(w) ==
  /\ stage[w] = "store"
  /\ IF Redis THEN cached' = document[w] /\ Proceed(w, "release") /\ UNCHANGED holder
              ELSE End(w, "error") /\ holder' = LeftBehind(w) /\ UNCHANGED cached
  /\ outlived' = outlived \ {w}
  /\ UNCHANGED <<saleor, excused>>

\* cache_lease gives back what is its own: a get ...
Release(w) ==
  /\ stage[w] = "release"
  /\ IF Redis THEN UNCHANGED holder /\ Proceed(w, IF holder = w THEN "delete" ELSE "check")
              ELSE holder' = LeftBehind(w) /\ Proceed(w, "check")
  /\ UNCHANGED <<saleor, cached, outlived, excused>>

\* Whoever works on without the lease that was just taken from it.
Without(h) == IF h \in Workers /\ stage[h] \in {"fetch", "store"} THEN outlived \cup {h} ELSE outlived

\* ... and a delete, of whatever is there by then.
Delete(w) ==
  /\ stage[w] = "delete"
  /\ IF Redis THEN holder' = Nobody /\ outlived' = Without(holder)
              ELSE holder' = LeftBehind(w) /\ UNCHANGED outlived
  /\ Proceed(w, "check")
  /\ UNCHANGED <<saleor, cached, excused>>

\* What a worker without the lease waits for: "do not accept the old document
\* while a different process is rotating it".
Fits(w, d) == d # NoDocument /\ (forced[w] => d # before[w])

\* It waits two seconds.  An unreachable Redis is an error here as well.
Await(w) ==
  /\ stage[w] = "wait"
  /\ \/ Redis /\ Fits(w, cached) /\ Loaded(w, cached, "check")
     \/ Redis /\ Loaded(w, NoDocument, "check")
     \/ ~Redis /\ End(w, "error")
  /\ excused' = [excused EXCEPT ![w] = @ \/ forced[w]]
  /\ UNCHANGED <<saleor, keyCache>>

\* Mutant of Check: there is no second round.
CheckOnce(w) ==
  /\ stage[w] = "check"
  /\ IF key[w] \in KeysOf(document[w]) THEN End(w, "accepted") ELSE End(w, "unauthorized")
  /\ UNCHANGED <<saleor, keyCache, excused>>

\* An event that does not verify gets a second round with a forced refresh.
Check(w) ==
  /\ stage[w] = "check"
  /\ \/ key[w] \in KeysOf(document[w]) /\ End(w, "accepted")
     \/ key[w] \notin KeysOf(document[w]) /\ forced[w] /\ End(w, "unauthorized")
     \/ /\ key[w] \notin KeysOf(document[w]) /\ ~forced[w]
        /\ forced' = [forced EXCEPT ![w] = TRUE]
        /\ stage' = [stage EXCEPT ![w] = "look"]
        /\ UNCHANGED <<key, before, document, verdict>>
  /\ UNCHANGED <<saleor, keyCache, excused>>

-----------------------------------------------------------------------------
(* Saleor, Redis and the load test *)

Excuse == excused' = [w \in Workers |-> stage[w] # "idle" \/ excused[w]]

Mishap == mishaps < MaxMishaps /\ mishaps' = mishaps + 1

\* Saleor publishes its next document.
Rotate ==
  /\ published < MaxDocument /\ published' = published + 1
  /\ Excuse
  /\ UNCHANGED <<reachable, mishaps, keyCache, work>>

Outage(s) ==
  /\ s \in reachable /\ Mishap
  /\ reachable' = reachable \ {s}
  /\ Excuse
  /\ UNCHANGED <<published, keyCache, work>>

OutageEnds(s) ==
  /\ s \notin reachable /\ reachable' = reachable \cup {s}
  /\ UNCHANGED <<published, mishaps, keyCache, work, excused>>

\* The lease of a worker that cannot give it back runs out after ten seconds.
LeaseLapses ==
  /\ holder = Dead /\ holder' = Nobody
  /\ UNCHANGED <<saleor, cached, outlived, work, excused>>

\* A worker may lose it while it works: (2, 5) bounds the connection and each
\* read, not the request; the worker may be paused; and a Redis that is full
\* evicts keys with a timeout.
LeaseLost ==
  /\ holder \in Workers /\ Mishap
  /\ holder' = Nobody /\ outlived' = Without(holder)
  /\ UNCHANGED <<published, reachable, cached, work, excused>>

\* SALEOR_JWKS_CACHE_SECONDS have passed.
CacheExpires ==
  /\ cached # NoDocument /\ Mishap
  /\ cached' = NoDocument
  /\ UNCHANGED <<published, reachable, holder, outlived, work, excused>>

Die(w) ==
  /\ stage[w] # "idle" /\ Mishap
  /\ End(w, "none")
  /\ holder' = LeftBehind(w) /\ outlived' = outlived \ {w}
  /\ UNCHANGED <<published, reachable, cached, excused>>

\* loadtest_seed --with-webhook-key puts a document of its own into the cache.
InstallLoadTestKey ==
  /\ Redis /\ Mishap
  /\ cached' = LoadTest
  /\ Excuse
  /\ UNCHANGED <<published, reachable, holder, outlived, work>>

\* loadtest_seed --cleanup.
RemoveLoadTestKey ==
  /\ Redis /\ Mishap /\ cached' = NoDocument
  /\ UNCHANGED <<published, reachable, holder, outlived, work, excused>>

-----------------------------------------------------------------------------

WorkerStep(w) ==
  \/ Look(w) \/ Lease(w) \/ Fetch(w) \/ Store(w) \/ Release(w) \/ Delete(w)
  \/ Await(w) \/ Check(w)

KeyringNext ==
  \/ \E w \in Workers : Deliver(w) \/ WorkerStep(w) \/ Die(w)
  \/ \E s \in Services : Outage(s) \/ OutageEnds(s)
  \/ Rotate \/ LeaseLapses \/ LeaseLost \/ CacheExpires
  \/ InstallLoadTestKey \/ RemoveLoadTestKey

KeyringSpec == KeyringInit /\ [][KeyringNext]_keyringVars

\* Workers go on, outages end, leases run out, and Saleor keeps delivering.
KeyringFairSpec ==
  /\ KeyringSpec
  /\ \A w \in Workers : WF_keyringVars(WorkerStep(w)) /\ WF_keyringVars(Deliver(w))
  /\ \A s \in Services : WF_keyringVars(OutageEnds(s))
  /\ WF_keyringVars(LeaseLapses)

-----------------------------------------------------------------------------
(* Properties *)

\* The lease of _load_jwks and what it is worth without a fence: the cached
\* document becomes an older one only by a refresh that went on after its lease
\* was gone, or that was begun while such a one was still at work.
CacheNeverGoesBack ==
  [][cached' # cached /\ {cached, cached'} \subseteq Documents =>
       \/ cached' > cached
       \/ \E w \in outlived : stage[w] = "store" /\ stage'[w] # "store"]_keyringVars

\* An event signed with a key that Saleor still publishes is not refused because
\* the cached document is old, however many workers meet it at once: a refusal
\* means that in its second round the worker had to rely on another one's
\* refresh, or that while the request ran Saleor or Redis was out of reach, keys
\* were rotated or a load test put its own in their place.
RefusedForAReason ==
  \A w \in Workers : verdict[w] = "unauthorized" => excused[w]

\* Whatever outage, crash or load test comes between, the deliveries of events
\* end up being accepted.
EventsGetIn == \A w \in Workers : []<>(verdict[w] = "accepted")

=============================================================================
