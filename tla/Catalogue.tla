------------------------------ MODULE Catalogue ------------------------------
(***************************************************************************)
(* ecommerce/services/catalogue.py: get_product and list_products, which   *)
(* read Saleor's catalogue through a cache in MongoDB, with a single-flight*)
(* lease and a negative cache in Redis.  The scheduled task that is to     *)
(* keep the cache fresh (ecommerce/tasks.py) is not here: it imports names *)
(* from .views that are not there, and every run of it ends with that      *)
(* ImportError before Saleor is asked.                                     *)
(*                                                                         *)
(* A product is its slug; every product of Saleor is valid, so what        *)
(* validation and sanitising drop is left out.  The pages a reader asks for*)
(* are the products and the list of them.                                  *)
(***************************************************************************)
EXTENDS FiniteSets, Naturals

CONSTANTS
  Readers,
  Products,
  Listing,      \* the page of list_products
  Asked,        \* the pages that are asked for
  Changing,     \* the products Saleor may withdraw and list again
  Fragile,      \* the backends that may be out of reach
  MaxFaults,    \* bound: outages, and readers that die on the way
  Nothing, Free, Orphan

\* Saleor counts as reachable when it answers and the circuit is closed.
Backends == {"saleor", "redis", "mongo"}
Pages == Products \cup {Listing}

ASSUME ConstantsTyped ==
  /\ Asked \subseteq Pages /\ Changing \subseteq Products /\ Fragile \subseteq Backends
  /\ MaxFaults \in Nat
  /\ Listing \notin Products /\ Nothing \notin Pages
  /\ {Free, Orphan} \cap Readers = {} /\ Free # Orphan

VARIABLES
  up,        \* the backends within reach
  listed,    \* Saleor's products
  copy,      \* products_cache: "none", or a copy within the TTL or past it
  miss,      \* the slugs in the negative cache
  lease,     \* the refresh lease of each page
  pc,        \* where each reader is
  page,      \* what it asked for
  got,       \* the products it has in hand
  todo,      \* those of them it has still to put into the cache
  answer,    \* how its latest request ended
  trouble,   \* history: the backends that were out of reach during it
  had,       \* history: was there a copy of what it asked for?
  outlived,  \* history: the readers that ask Saleor after their lease has gone
  faults

world == <<up, listed, faults>>
caches == <<copy, miss>>
reader == <<pc, page, got, todo, answer, had>>
leases == <<lease, outlived>>
vars == <<world, caches, leases, reader, trouble>>

Steps == {"idle", "miss", "fresh", "lease", "fetch", "wait", "release", "delete",
          "abort", "abandon", "missing", "store", "stale"}

TypeOK ==
  /\ up \subseteq Backends /\ listed \subseteq Products
  /\ copy \in [Products -> {"none", "fresh", "stale"}] /\ miss \subseteq Products
  /\ lease \in [Pages -> Readers \cup {Free, Orphan}]
  /\ pc \in [Readers -> Steps] /\ page \in [Readers -> Pages \cup {Nothing}]
  /\ got \in [Readers -> SUBSET Products] /\ todo \in [Readers -> SUBSET Products]
  /\ answer \in [Readers -> {"none", "served", "degraded", "notfound", "unavailable"}]
  /\ had \in [Readers -> BOOLEAN]
  /\ trouble \in [Readers -> SUBSET Backends] /\ outlived \subseteq Readers
  /\ faults \in 0 .. MaxFaults

Init ==
  /\ up = Backends /\ listed = Products
  /\ copy = [p \in Products |-> "none"] /\ miss = {}
  /\ lease = [k \in Pages |-> Free]
  /\ pc = [r \in Readers |-> "idle"] /\ page = [r \in Readers |-> Nothing]
  /\ got = [r \in Readers |-> {}] /\ todo = [r \in Readers |-> {}]
  /\ answer = [r \in Readers |-> "none"] /\ had = [r \in Readers |-> FALSE]
  /\ trouble = [r \in Readers |-> {}] /\ outlived = {}
  /\ faults = 0

-----------------------------------------------------------------------------
(* What the functions of mongo_client find; an unreachable MongoDB is an     *)
(* empty one.                                                                *)

Wanted(k) == IF k = Listing THEN Products ELSE {k}

CopiesIn(k, states) ==
  {p \in Wanted(k) : "mongo" \in up /\ copy[p] \in states}

Fresh(k) == CopiesIn(k, {"fresh"})

\* Mutant of Stale: the TTL of the fresh copies holds here too.
StaleFresh(k) == CopiesIn(k, {"fresh"})

\* Stale reads take any copy.
Stale(k) == CopiesIn(k, {"fresh", "stale"})

-----------------------------------------------------------------------------
(* Readers *)

Goto(r, step) ==
  /\ pc' = [pc EXCEPT ![r] = step]
  /\ UNCHANGED <<page, got, todo, answer, had>>

\* The request ends.
Answer(r, what, products) ==
  /\ pc' = [pc EXCEPT ![r] = "idle"]
  /\ got' = [got EXCEPT ![r] = products]
  /\ todo' = [todo EXCEPT ![r] = {}]
  /\ answer' = [answer EXCEPT ![r] = what]
  /\ UNCHANGED <<page, had>>

Serve(r, products) == Answer(r, "served", products)

Ask(r, k) ==
  /\ pc[r] = "idle"
  /\ pc' = [pc EXCEPT ![r] = IF k = Listing THEN "fresh" ELSE "miss"]
  /\ page' = [page EXCEPT ![r] = k]
  /\ got' = [got EXCEPT ![r] = {}] /\ todo' = [todo EXCEPT ![r] = {}]
  /\ answer' = [answer EXCEPT ![r] = "none"]
  /\ had' = [had EXCEPT ![r] = Stale(k) # {}]
  /\ trouble' = [trouble EXCEPT ![r] = Backends \ up]
  /\ UNCHANGED <<world, caches, leases>>

CheckMiss(r) ==
  /\ pc[r] = "miss"
  /\ IF "redis" \in up /\ page[r] \in miss THEN Answer(r, "notfound", {})
                                           ELSE Goto(r, "fresh")
  /\ UNCHANGED <<world, caches, leases, trouble>>

\* For the list any fresh copies will do.
CheckFresh(r) ==
  /\ pc[r] = "fresh"
  /\ IF Fresh(page[r]) # {} THEN Serve(r, Fresh(page[r])) ELSE Goto(r, "lease")
  /\ UNCHANGED <<world, caches, leases, trouble>>

\* Mutant of Acquire: cache.set in place of cache.add.
AcquireAnyway(r) ==
  /\ pc[r] = "lease"
  /\ IF "redis" \in up
       THEN lease' = [lease EXCEPT ![page[r]] = r] /\ Goto(r, "fetch")
       ELSE Goto(r, "stale") /\ UNCHANGED lease
  /\ UNCHANGED <<world, caches, outlived, trouble>>

\* Without Redis there is no lease: CacheLeaseUnavailable.
Acquire(r) ==
  /\ pc[r] = "lease"
  /\ \/ /\ "redis" \notin up
        /\ Goto(r, "stale") /\ UNCHANGED lease
     \/ /\ "redis" \in up /\ lease[page[r]] = Free
        /\ lease' = [lease EXCEPT ![page[r]] = r]
        /\ Goto(r, "fetch")
     \/ /\ "redis" \in up /\ lease[page[r]] # Free
        /\ Goto(r, "wait") /\ UNCHANGED lease
  /\ UNCHANGED <<world, caches, outlived, trouble>>

\* The holder asks Saleor; SaleorAPIError leaves the lease's block.
Fetch(r) ==
  LET found == listed \cap Wanted(page[r]) IN
  /\ pc[r] = "fetch"
  /\ IF "saleor" \in up
       THEN /\ got' = [got EXCEPT ![r] = found]
            /\ todo' = [todo EXCEPT ![r] = found]
            /\ pc' = [pc EXCEPT ![r] =
                        IF page[r] = Listing /\ found # {} THEN "store" ELSE "release"]
            /\ UNCHANGED <<page, answer, had>>
       ELSE Goto(r, "abort")
  /\ outlived' = outlived \ {r}
  /\ UNCHANGED <<world, caches, lease, trouble>>

\* _cache_product_safely, one product after the other: the list's holder does
\* it before it gives the lease back, a product's holder after.
Store(r) ==
  /\ pc[r] = "store"
  /\ \E p \in todo[r] :
       /\ copy' = IF "mongo" \in up THEN [copy EXCEPT ![p] = "fresh"] ELSE copy
       /\ IF page[r] # Listing
            THEN Serve(r, got[r])
            ELSE /\ todo' = [todo EXCEPT ![r] = @ \ {p}]
                 /\ pc' = [pc EXCEPT ![r] = IF todo[r] = {p} THEN "release" ELSE "store"]
                 /\ UNCHANGED <<page, got, answer, had>>
  /\ UNCHANGED <<world, miss, leases, trouble>>

\* What follows the lease's block.
Leave(r) ==
  \/ pc[r] \in {"abort", "abandon"} /\ Goto(r, "stale")
  \/ pc[r] \in {"release", "delete"} /\ page[r] = Listing /\ Serve(r, got[r])
  \/ pc[r] \in {"release", "delete"} /\ page[r] # Listing
       /\ Goto(r, IF got[r] = {} THEN "missing" ELSE "store")

\* A lease its holder cannot give back stays until its timeout.
LeftBehind(r) == [k \in Pages |-> IF lease[k] = r THEN Orphan ELSE lease[k]]

\* Whoever asks Saleor under the lease of a page that goes.
Asking(k) == {r \in Readers : pc[r] = "fetch" /\ lease[k] = r}

\* cache_lease looks whether the lease is still the reader's,
Release(r) ==
  /\ pc[r] \in {"release", "abort"}
  /\ \/ /\ "redis" \in up /\ lease[page[r]] = r
        /\ Goto(r, IF pc[r] = "abort" THEN "abandon" ELSE "delete")
        /\ UNCHANGED lease
     \/ /\ "redis" \in up /\ lease[page[r]] # r
        /\ Leave(r) /\ UNCHANGED lease
     \/ /\ "redis" \notin up
        /\ Leave(r) /\ lease' = LeftBehind(r)
  /\ UNCHANGED <<world, caches, outlived, trouble>>

\* and then deletes the lease that is there, its own or, if that has run out in
\* between, the next reader's.
Delete(r) ==
  /\ pc[r] \in {"delete", "abandon"} /\ Leave(r)
  /\ IF "redis" \in up
       THEN /\ lease' = [lease EXCEPT ![page[r]] = Free]
            /\ outlived' = outlived \cup Asking(page[r])
       ELSE lease' = LeftBehind(r) /\ UNCHANGED outlived
  /\ UNCHANGED <<world, caches, trouble>>

\* Mutant of Follow: a follower that finds nothing reports an outage.
FollowAlarmed(r) ==
  /\ pc[r] = "wait"
  /\ \E found \in {Fresh(page[r]), Stale(page[r])} :
       IF found # {} THEN Serve(r, found) ELSE Answer(r, "unavailable", {})
  /\ UNCHANGED <<world, caches, leases, trouble>>

\* Mutant of Follow: the list is treated as a slug.
FollowAsSlug(r) ==
  /\ pc[r] = "wait"
  /\ IF Stale(page[r]) # {} THEN Serve(r, Stale(page[r])) ELSE Goto(r, "missing")
  /\ UNCHANGED <<world, caches, leases, trouble>>

\* A reader without the lease waits 1.5 seconds for a fresh copy and then takes
\* any.  With no copy it has nothing: for the list an empty one, for a product
\* what an unknown slug gives.
Follow(r) ==
  /\ pc[r] = "wait"
  /\ \/ Fresh(page[r]) # {} /\ Serve(r, Fresh(page[r]))
     \/ /\ page[r] = Listing \/ Stale(page[r]) # {}
        /\ Serve(r, Stale(page[r]))
     \/ page[r] # Listing /\ Stale(page[r]) = {} /\ Goto(r, "missing")
  /\ UNCHANGED <<world, caches, leases, trouble>>

\* Nothing valid in hand: the slug goes into the negative cache.
Missing(r) ==
  /\ pc[r] = "missing"
  /\ miss' = IF "redis" \in up THEN miss \cup {page[r]} ELSE miss
  /\ Answer(r, "notfound", {})
  /\ UNCHANGED <<world, copy, leases, trouble>>

\* Saleor or the lease is out of reach: any copy, and the list says so.
Degrade(r) ==
  LET found == Stale(page[r]) IN
  /\ pc[r] = "stale"
  /\ \/ page[r] = Listing /\ Answer(r, "degraded", found)
     \/ page[r] # Listing /\ found # {} /\ Serve(r, found)
     \/ page[r] # Listing /\ found = {} /\ Answer(r, "unavailable", {})
  /\ UNCHANGED <<world, caches, leases, trouble>>

Crash(r) ==
  /\ pc[r] # "idle" /\ faults < MaxFaults
  /\ faults' = faults + 1
  /\ Answer(r, "none", {})
  /\ lease' = LeftBehind(r) /\ outlived' = outlived \ {r}
  /\ UNCHANGED <<up, listed, caches, trouble>>

-----------------------------------------------------------------------------
(* What a request that has ended tells its client: ProductViewSet of the API *)
(* and the pages of the storefront.                                          *)

\* 503 is catalogue_unavailable, and 0 no answer at all.
Status(r) ==
  IF answer[r] = "none" THEN 0
  ELSE IF answer[r] = "notfound" THEN 404
  ELSE IF answer[r] = "unavailable" \/ (answer[r] = "degraded" /\ got[r] = {}) THEN 503
  ELSE 200

\* The API's list flags the copies it serves in an outage.
Flagged(r) == answer[r] = "degraded" /\ Status(r) = 200

\* A product's page is there or not; an outage that leaves the list empty fills
\* it with FALLBACK_PRODUCTS.
Shown(r) ==
  IF answer[r] = "none" THEN "nothing"
  ELSE IF answer[r] \in {"notfound", "unavailable"} THEN "404"
  ELSE IF answer[r] = "degraded" /\ got[r] = {} THEN "fallback"
  ELSE "products"

-----------------------------------------------------------------------------
(* Time, and the backends *)

\* A lease nobody gives back runs out after its 15 seconds, and so does one whose
\* holder takes longer than that: three attempts at a Saleor that does not answer
\* take some 42 seconds (saleor_client.py:25-28).
Expire(k) ==
  /\ lease[k] # Free
  /\ lease' = [lease EXCEPT ![k] = Free] /\ outlived' = outlived \cup Asking(k)
  /\ UNCHANGED <<world, caches, reader, trouble>>

\* PRODUCT_CACHE_TTL_SECONDS have passed.
Age(p) ==
  /\ copy[p] = "fresh"
  /\ copy' = [copy EXCEPT ![p] = "stale"]
  /\ UNCHANGED <<world, miss, leases, reader, trouble>>

\* Mutant of Forget: the entry is written without a timeout.
ForgetNever(p) == FALSE /\ UNCHANGED vars

\* NEGATIVE_CACHE_SECONDS have passed.
Forget(p) ==
  /\ p \in miss
  /\ miss' = miss \ {p}
  /\ UNCHANGED <<world, copy, leases, reader, trouble>>

Outage(b) ==
  /\ b \in up \cap Fragile /\ faults < MaxFaults
  /\ faults' = faults + 1
  /\ up' = up \ {b}
  /\ trouble' = [r \in Readers |-> IF pc[r] = "idle" THEN trouble[r] ELSE trouble[r] \cup {b}]
  /\ UNCHANGED <<listed, caches, leases, reader>>

Recover(b) ==
  /\ b \notin up
  /\ up' = up \cup {b}
  /\ UNCHANGED <<listed, faults, caches, leases, reader, trouble>>

\* Saleor's staff withdraw a product or list it again.
Change(p) ==
  /\ p \in Changing
  /\ listed' = IF p \in listed THEN listed \ {p} ELSE listed \cup {p}
  /\ UNCHANGED <<up, faults, caches, leases, reader, trouble>>

-----------------------------------------------------------------------------

ReaderStep(r) ==
  \/ CheckMiss(r) \/ CheckFresh(r) \/ Acquire(r) \/ Fetch(r) \/ Store(r)
  \/ Release(r) \/ Delete(r) \/ Follow(r) \/ Missing(r) \/ Degrade(r)

Next ==
  \/ \E r \in Readers : ReaderStep(r) \/ Crash(r) \/ \E k \in Asked : Ask(r, k)
  \/ \E k \in Pages : Expire(k)
  \/ \E p \in Products : Age(p) \/ Forget(p) \/ Change(p)
  \/ \E b \in Backends : Outage(b) \/ Recover(b)

Spec == Init /\ [][Next]_vars

\* A request that runs goes on, timeouts pass and outages end.  Nobody has to ask for anything.
FairSpec ==
  /\ Spec
  /\ \A r \in Readers : WF_vars(ReaderStep(r))
  /\ \A k \in Pages : WF_vars(lease[k] = Orphan /\ Expire(k))
  /\ \A p \in Products : WF_vars(Forget(p))
  /\ \A b \in Backends : WF_vars(Recover(b))

-----------------------------------------------------------------------------
(* Properties *)

Steady == Products \ Changing

\* cache_lease as the catalogue uses it ("one code path for both clients:
\* cache-first with a single-flight refresh lease"): of the readers that ask
\* Saleor for a page one at most has its lease; the others have outlived theirs,
\* which ran out under a slow Saleor or was deleted by an earlier reader whose own
\* had run out between its look and its delete.
SingleFlight ==
  \A k \in Pages :
    Cardinality({r \in Readers : pc[r] = "fetch" /\ page[r] = k /\ r \notin outlived}) <= 1

\* A client that is told of an outage, by a 503 or by the list's "degraded", met
\* one: Saleor or Redis was out of reach while the request ran.
NoFalseAlarm ==
  \A r \in Readers :
    Status(r) = 503 \/ Flagged(r) => trouble[r] \cap {"saleor", "redis"} # {}

\* The "stale-while-error fallback": while MongoDB is there, no request for what
\* it held when the request came ends in a 503 or in the invented products of
\* the storefront, whatever becomes of Saleor and Redis.
KnownIsServed ==
  \A r \in Readers :
    had[r] /\ "mongo" \notin trouble[r] => Status(r) # 503 /\ Shown(r) # "fallback"

\* Whoever keeps asking for a product Saleor has always listed is served it
\* again and again: a wrong "not found", an outage or a dead reader passes.
KeepsServing ==
  \A r \in Readers, p \in Steady :
    []<>(pc[r] = "miss" /\ page[r] = p) =>
      []<>(answer[r] = "served" /\ page[r] = p)

=============================================================================
