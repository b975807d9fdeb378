--------------------------- MODULE CatalogueProofs ---------------------------
(* Proofs about module Catalogue, for any number of readers, products and    *)
(* faults.                                                                   *)
EXTENDS Catalogue, FiniteSetTheorems, TLAPS

\* A request in progress is for a page, has no answer yet, and knows every outage
\* there is; a slug that is given up as missing is not the list.
BusyInv ==
  \A r \in Readers :
    /\ pc[r] # "idle" => page[r] \in Pages /\ answer[r] = "none"
                         /\ Backends \ up \subseteq trouble[r]
    /\ pc[r] = "missing" => page[r] \in Products

\* Whoever gives up on Saleor or tells of an outage met one.
AlarmInv ==
  \A r \in Readers :
    pc[r] \in {"abort", "abandon", "stale"} \/ answer[r] \in {"degraded", "unavailable"}
      => trouble[r] \cap {"saleor", "redis"} # {}

\* What MongoDB held when a request came it still holds, and while MongoDB is
\* there the request finds it.
CopyInv ==
  \A r \in Readers :
    had[r] /\ "mongo" \notin trouble[r] =>
      /\ pc[r] # "idle" => \E p \in Wanted(page[r]) : copy[p] # "none"
      /\ answer[r] # "unavailable"
      /\ answer[r] = "degraded" => got[r] # {}

CatalogueInv == TypeOK /\ BusyInv /\ AlarmInv /\ CopyInv

\* Whoever asks Saleor has the lease or has outlived it.
LeaseHeld ==
  \A r \in Readers : pc[r] = "fetch" /\ r \notin outlived => lease[page[r]] = r

-----------------------------------------------------------------------------

LEMMA WantedAreProducts ==
  ASSUME NEW k \in Pages
  PROVE  Wanted(k) \subseteq Products
BY DEF Pages, Wanted

LEMMA CopiesAreProducts ==
  ASSUME NEW k \in Pages, NEW states
  PROVE  CopiesIn(k, states) \subseteq Products
BY WantedAreProducts DEF CopiesIn

LEMMA CatalogueInvInit == Init => CatalogueInv /\ LeaseHeld
BY ConstantsTyped
DEF Init, CatalogueInv, TypeOK, BusyInv, AlarmInv, CopyInv, LeaseHeld, Backends, Steps, Pages

\* What a reader can be given keeps its variables in their types.
LEMMA AnswersAreTyped ==
  ASSUME TypeOK, NEW r \in Readers,
         NEW what \in {"none", "served", "degraded", "notfound", "unavailable"},
         NEW products \in SUBSET Products, Answer(r, what, products)
  PROVE  /\ pc' \in [Readers -> Steps] /\ page' = page /\ had' = had
         /\ got' \in [Readers -> SUBSET Products] /\ todo' \in [Readers -> SUBSET Products]
         /\ answer' \in [Readers -> {"none", "served", "degraded", "notfound", "unavailable"}]
BY DEF TypeOK, Answer, Steps

LEMMA StepsAreTyped ==
  ASSUME TypeOK, NEW r \in Readers, NEW step \in Steps, Goto(r, step)
  PROVE  /\ pc' \in [Readers -> Steps] /\ page' = page /\ had' = had
         /\ got' = got /\ todo' = todo /\ answer' = answer
BY DEF TypeOK, Goto

LEMMA LeaveIsTyped ==
  ASSUME TypeOK, NEW r \in Readers, Leave(r)
  PROVE  /\ pc' \in [Readers -> Steps] /\ page' = page /\ had' = had
         /\ got' \in [Readers -> SUBSET Products] /\ todo' \in [Readers -> SUBSET Products]
         /\ answer' \in [Readers -> {"none", "served", "degraded", "notfound", "unavailable"}]
<1>1. \/ Goto(r, "stale") \/ Goto(r, "missing") \/ Goto(r, "store")
      \/ Answer(r, "served", got[r])
  BY DEF Leave, Serve
<1>2. got[r] \in SUBSET Products
  BY DEF TypeOK
<1>3. QED
  BY <1>1, <1>2, AnswersAreTyped, StepsAreTyped DEF TypeOK, Steps

LEMMA LeftBehindTyped ==
  ASSUME TypeOK, NEW r \in Readers
  PROVE  LeftBehind(r) \in [Pages -> Readers \cup {Free, Orphan}]
BY DEF TypeOK, LeftBehind

LEMMA TypeStep == CatalogueInv /\ [Next]_vars => TypeOK'
<1> SUFFICES ASSUME CatalogueInv, [Next]_vars PROVE TypeOK'
  OBVIOUS
<1> USE DEF CatalogueInv
<1>0. CASE UNCHANGED vars
  BY <1>0 DEF TypeOK, vars, world, caches, leases, reader
<1>1. ASSUME NEW r \in Readers, ReaderStep(r)
      PROVE  TypeOK'
  <2>0. pc[r] # "idle" => page[r] \in Pages
    BY DEF BusyInv
  <2>1. CASE CheckMiss(r)
    <3>1. TypeOK /\ UNCHANGED <<world, caches, leases, trouble>>
      BY <2>1 DEF CheckMiss
    <3>2. Answer(r, "notfound", {}) \/ Goto(r, "fresh")
      BY <2>1 DEF CheckMiss
    <3>3. QED
      BY <3>1, <3>2, AnswersAreTyped, StepsAreTyped DEF TypeOK, Steps, world, caches, leases
  <2>2. CASE CheckFresh(r)
    <3>1. TypeOK /\ UNCHANGED <<world, caches, leases, trouble>>
      BY <2>2 DEF CheckFresh
    <3>2. Answer(r, "served", Fresh(page[r])) \/ Goto(r, "lease")
      BY <2>2 DEF CheckFresh, Serve
    <3>3. Fresh(page[r]) \subseteq Products
      BY <2>0, <2>2, CopiesAreProducts DEF CheckFresh, Fresh
    <3>4. QED
      BY <3>1, <3>2, <3>3, AnswersAreTyped, StepsAreTyped DEF TypeOK, Steps, world, caches, leases
  <2>3. CASE Acquire(r)
    <3>1. TypeOK /\ UNCHANGED <<world, caches, outlived, trouble>> /\ page[r] \in Pages
      BY <2>0, <2>3 DEF Acquire
    <3>2. /\ Goto(r, "stale") \/ Goto(r, "fetch") \/ Goto(r, "wait")
          /\ lease' = lease \/ lease' = [lease EXCEPT ![page[r]] = r]
      BY <2>3 DEF Acquire
    <3>3. lease' \in [Pages -> Readers \cup {Free, Orphan}]
      BY <3>1, <3>2 DEF TypeOK
    <3>4. QED
      BY <3>1, <3>2, <3>3, StepsAreTyped DEF TypeOK, Steps, world, caches, leases
  <2>4. CASE Fetch(r)
    <3>1. UNCHANGED <<world, caches, lease, trouble, page, answer, had>>
      BY <2>4 DEF Fetch, Goto
    <3>2. pc' \in [Readers -> Steps]
      BY <2>4 DEF Fetch, Goto, TypeOK, Steps
    <3>3. got' \in [Readers -> SUBSET Products] /\ todo' \in [Readers -> SUBSET Products]
      <4>1. listed \cap Wanted(page[r]) \subseteq Products
        BY DEF TypeOK
      <4>2. QED
        BY <2>4, <4>1 DEF Fetch, Goto, TypeOK
    <3>4. outlived' \subseteq Readers
      BY <2>4 DEF Fetch, TypeOK
    <3>5. QED
      BY <3>1, <3>2, <3>3, <3>4 DEF TypeOK, world, caches
  <2>5. CASE Store(r)
    <3>1. UNCHANGED <<world, miss, leases, trouble, page, had>>
      BY <2>5 DEF Store, Serve, Answer
    <3>2. PICK p \in todo[r] :
            /\ copy' = IF "mongo" \in up THEN [copy EXCEPT ![p] = "fresh"] ELSE copy
            /\ IF page[r] # Listing
                 THEN Serve(r, got[r])
                 ELSE /\ todo' = [todo EXCEPT ![r] = @ \ {p}]
                      /\ pc' = [pc EXCEPT ![r] = IF todo[r] = {p} THEN "release" ELSE "store"]
                      /\ UNCHANGED <<page, got, answer, had>>
      BY <2>5 DEF Store
    <3>3. copy' \in [Products -> {"none", "fresh", "stale"}]
      BY <3>2 DEF TypeOK
    <3>4. CASE page[r] # Listing
      <4>1. Answer(r, "served", got[r]) /\ got[r] \in SUBSET Products
        BY <3>2, <3>4 DEF Serve, TypeOK
      <4>2. QED
        BY <3>1, <3>3, <4>1, AnswersAreTyped DEF TypeOK, world, leases
    <3>5. CASE page[r] = Listing
      <4>1. todo' \in [Readers -> SUBSET Products] /\ UNCHANGED <<got, answer>>
        BY <3>2, <3>5 DEF TypeOK
      <4>2. pc' \in [Readers -> Steps]
        BY <3>2, <3>5 DEF TypeOK, Steps
      <4>3. QED
        BY <3>1, <3>3, <4>1, <4>2 DEF TypeOK, world, leases
    <3>6. QED
      BY <3>4, <3>5
  <2>6. CASE Release(r)
    <3>1. UNCHANGED <<world, caches, outlived, trouble>> /\ page[r] \in Pages
      BY <2>0, <2>6 DEF Release
    <3>2. lease' \in [Pages -> Readers \cup {Free, Orphan}]
      BY <2>6, LeftBehindTyped DEF Release, TypeOK
    <3>3. Leave(r) \/ Goto(r, "delete") \/ Goto(r, "abandon")
      BY <2>6 DEF Release
    <3>4. QED
      BY <3>1, <3>2, <3>3, LeaveIsTyped, StepsAreTyped DEF TypeOK, Steps, world, caches
  <2>7. CASE Delete(r)
    <3>1. UNCHANGED <<world, caches, trouble>> /\ Leave(r) /\ page[r] \in Pages
      BY <2>0, <2>7 DEF Delete
    <3>2. lease' \in [Pages -> Readers \cup {Free, Orphan}]
      BY <2>7, <3>1, LeftBehindTyped DEF Delete, TypeOK
    <3>3. outlived' \subseteq Readers
      BY <2>7 DEF Delete, TypeOK, Asking
    <3>4. QED
      BY <3>1, <3>2, <3>3, LeaveIsTyped DEF TypeOK, world, caches
  <2>8. CASE Follow(r)
    <3>1. UNCHANGED <<world, caches, leases, trouble>> /\ page[r] \in Pages
      BY <2>0, <2>8 DEF Follow
    <3>2. \/ Answer(r, "served", Fresh(page[r])) \/ Answer(r, "served", Stale(page[r]))
          \/ Goto(r, "missing")
      BY <2>8 DEF Follow, Serve
    <3>3. Fresh(page[r]) \subseteq Products /\ Stale(page[r]) \subseteq Products
      BY <3>1, CopiesAreProducts DEF Fresh, Stale
    <3>4. QED
      BY <3>1, <3>2, <3>3, AnswersAreTyped, StepsAreTyped DEF TypeOK, Steps, world, caches, leases
  <2>9. CASE Missing(r)
    <3>1. UNCHANGED <<world, copy, leases, trouble>> /\ Answer(r, "notfound", {})
      BY <2>9 DEF Missing
    <3>2. miss' \subseteq Products
      BY <2>9 DEF Missing, TypeOK, BusyInv
    <3>3. QED
      BY <3>1, <3>2, AnswersAreTyped DEF TypeOK, world, leases
  <2>10. CASE Degrade(r)
    <3>1. UNCHANGED <<world, caches, leases, trouble>> /\ page[r] \in Pages
      BY <2>0, <2>10 DEF Degrade
    <3>2. \/ Answer(r, "degraded", Stale(page[r])) \/ Answer(r, "served", Stale(page[r]))
          \/ Answer(r, "unavailable", {})
      BY <2>10 DEF Degrade, Serve
    <3>3. Stale(page[r]) \subseteq Products
      BY <3>1, CopiesAreProducts DEF Stale
    <3>4. QED
      BY <3>1, <3>2, <3>3, AnswersAreTyped DEF TypeOK, world, caches, leases
  <2>11. QED
    BY <1>1, <2>1, <2>2, <2>3, <2>4, <2>5, <2>6, <2>7, <2>8, <2>9, <2>10 DEF ReaderStep
<1>2. ASSUME NEW r \in Readers, Crash(r)
      PROVE  TypeOK'
  <2>1. UNCHANGED <<up, listed, caches, trouble>> /\ Answer(r, "none", {})
    BY <1>2 DEF Crash
  <2>2. lease' \in [Pages -> Readers \cup {Free, Orphan}] /\ outlived' \subseteq Readers
    BY <1>2, LeftBehindTyped DEF Crash, TypeOK
  <2>3. faults' \in 0 .. MaxFaults
    BY <1>2, ConstantsTyped DEF Crash, TypeOK
  <2>4. QED
    BY <2>1, <2>2, <2>3, AnswersAreTyped DEF TypeOK, caches
<1>3. ASSUME NEW r \in Readers, NEW k \in Asked, Ask(r, k)
      PROVE  TypeOK'
  <2>1. k \in Pages
    BY ConstantsTyped
  <2>2. UNCHANGED <<world, caches, leases>>
    BY <1>3 DEF Ask
  <2>3. pc' \in [Readers -> Steps] /\ page' \in [Readers -> Pages \cup {Nothing}]
    BY <1>3, <2>1 DEF Ask, TypeOK, Steps
  <2>4. /\ got' \in [Readers -> SUBSET Products] /\ todo' \in [Readers -> SUBSET Products]
        /\ answer' \in [Readers -> {"none", "served", "degraded", "notfound", "unavailable"}]
        /\ trouble' \in [Readers -> SUBSET Backends]
    BY <1>3 DEF Ask, TypeOK
  <2>5. had' \in [Readers -> BOOLEAN]
    BY <1>3 DEF Ask, TypeOK
  <2>6. QED
    BY <2>2, <2>3, <2>4, <2>5 DEF TypeOK, world, caches, leases
<1>4. ASSUME NEW k \in Pages, Expire(k)
      PROVE  TypeOK'
  BY <1>4 DEF Expire, Asking, TypeOK, world, caches, reader
<1>5. ASSUME NEW p \in Products, Age(p) \/ Forget(p) \/ Change(p)
      PROVE  TypeOK'
  BY <1>5 DEF Age, Forget, Change, TypeOK, world, caches, leases, reader
<1>6. ASSUME NEW b \in Backends, Outage(b)
      PROVE  TypeOK'
  <2>1. UNCHANGED <<listed, caches, leases, reader>> /\ up' \subseteq Backends
    BY <1>6 DEF Outage, TypeOK
  <2>2. faults' \in 0 .. MaxFaults
    BY <1>6, ConstantsTyped DEF Outage, TypeOK
  <2>3. trouble' \in [Readers -> SUBSET Backends]
    BY <1>6 DEF Outage, TypeOK
  <2>4. QED
    BY <2>1, <2>2, <2>3 DEF TypeOK, caches, leases, reader
<1>7. ASSUME NEW b \in Backends, Recover(b)
      PROVE  TypeOK'
  BY <1>7 DEF Recover, TypeOK, caches, leases, reader
<1>8. QED
  BY <1>0, <1>1, <1>2, <1>3, <1>4, <1>5, <1>6, <1>7 DEF Next

-----------------------------------------------------------------------------

\* A step of one reader leaves the others alone.
LEMMA OthersStay ==
  ASSUME TypeOK, NEW r \in Readers, NEW s \in Readers, s # r,
         ReaderStep(r) \/ Crash(r) \/ \E k \in Asked : Ask(r, k)
  PROVE  /\ pc'[s] = pc[s] /\ page'[s] = page[s] /\ got'[s] = got[s]
         /\ answer'[s] = answer[s] /\ had'[s] = had[s] /\ trouble'[s] = trouble[s]
<1> USE DEF TypeOK, Goto, Answer, Serve
<1>1. CASE CheckMiss(r)
  BY <1>1 DEF CheckMiss
<1>2. CASE CheckFresh(r)
  BY <1>2 DEF CheckFresh
<1>3. CASE Acquire(r)
  BY <1>3 DEF Acquire
<1>4. CASE Fetch(r)
  BY <1>4 DEF Fetch
<1>5. CASE Store(r)
  BY <1>5 DEF Store
<1>6. CASE Release(r)
  BY <1>6 DEF Release, Leave
<1>7. CASE Follow(r)
  BY <1>7 DEF Follow
<1>8. CASE Missing(r)
  BY <1>8 DEF Missing
<1>9. CASE Degrade(r)
  BY <1>9 DEF Degrade
<1>10. CASE Crash(r)
  BY <1>10 DEF Crash
<1>11. ASSUME NEW k \in Asked, Ask(r, k)
       PROVE  /\ pc'[s] = pc[s] /\ page'[s] = page[s] /\ got'[s] = got[s]
              /\ answer'[s] = answer[s] /\ had'[s] = had[s] /\ trouble'[s] = trouble[s]
  BY <1>11 DEF Ask
<1>12. CASE Delete(r)
  BY <1>12 DEF Delete, Leave
<1>13. QED
  BY <1>1, <1>2, <1>3, <1>4, <1>5, <1>6, <1>7, <1>8, <1>9, <1>10, <1>11, <1>12 DEF ReaderStep

\* MongoDB forgets no copy, and no reader changes which backends are there.
LEMMA WorldStays ==
  ASSUME TypeOK, NEW r \in Readers, ReaderStep(r) \/ Crash(r) \/ \E k \in Asked : Ask(r, k)
  PROVE  /\ up' = up
         /\ \A p \in Products : copy[p] # "none" => copy'[p] # "none"
<1> USE DEF TypeOK, world, caches, leases
<1>1. CASE Store(r)
  BY <1>1 DEF Store
<1>2. CASE ~Store(r)
  <2>1. up' = up /\ copy' = copy
    BY <1>2 DEF ReaderStep, CheckMiss, CheckFresh, Acquire, Fetch, Release, Delete, Follow, Missing,
       Degrade, Crash, Ask
  <2>2. QED
    BY <2>1
<1>3. QED
  BY <1>1, <1>2

\* What a reader's own step makes of it.
LEMMA OwnStep ==
  ASSUME CatalogueInv, NEW r \in Readers, ReaderStep(r)
  PROVE  /\ pc[r] # "idle" /\ page'[r] = page[r] /\ had'[r] = had[r] /\ trouble'[r] = trouble[r]
         /\ pc'[r] # "idle" => answer'[r] = answer[r]
         /\ pc'[r] = "missing" => page[r] # Listing
         /\ pc'[r] \in {"abort", "abandon", "stale"} =>
              pc[r] \in {"abort", "abandon"} \/ ~({"saleor", "redis"} \subseteq up)
         /\ pc'[r] = "idle" =>
              \/ answer'[r] \in {"served", "notfound"}
              \/ pc[r] = "stale" /\ answer'[r] = "degraded" /\ got'[r] = Stale(page[r])
              \/ pc[r] = "stale" /\ answer'[r] = "unavailable" /\ Stale(page[r]) = {}
<1> USE DEF CatalogueInv, TypeOK, Goto, Answer, Serve
<1>1. CASE CheckMiss(r)
  BY <1>1 DEF CheckMiss
<1>2. CASE CheckFresh(r)
  BY <1>2 DEF CheckFresh
<1>3. CASE Acquire(r)
  BY <1>3 DEF Acquire
<1>4. CASE Fetch(r)
  BY <1>4 DEF Fetch
<1>5. CASE Store(r)
  BY <1>5 DEF Store
<1>6. CASE Release(r)
  BY <1>6 DEF Release, Leave
<1>7. CASE Follow(r)
  BY <1>7 DEF Follow
<1>8. CASE Missing(r)
  BY <1>8 DEF Missing
<1>9. CASE Degrade(r)
  BY <1>9 DEF Degrade
<1>10. CASE Delete(r)
  BY <1>10 DEF Delete, Leave
<1>11. QED
  BY <1>1, <1>2, <1>3, <1>4, <1>5, <1>6, <1>7, <1>8, <1>9, <1>10 DEF ReaderStep

\* Time and the backends are seen by all requests in progress alike.
LEMMA WorldStep ==
  ASSUME CatalogueInv,
         \/ \E k \in Pages : Expire(k)
         \/ \E p \in Products : Age(p) \/ Forget(p) \/ Change(p)
         \/ \E b \in Backends : Outage(b) \/ Recover(b)
  PROVE  /\ UNCHANGED reader
         /\ \A s \in Readers :
              /\ trouble[s] \subseteq trouble'[s] /\ (pc[s] = "idle" => trouble'[s] = trouble[s])
              /\ Backends \ up \subseteq trouble[s] /\ pc[s] # "idle"
                   => Backends \ up' \subseteq trouble'[s]
         /\ \A p \in Products : copy[p] # "none" => copy'[p] # "none"
<1> USE DEF CatalogueInv, TypeOK, caches, world
<1>1. ASSUME NEW k \in Pages, Expire(k)
      PROVE  UNCHANGED <<reader, up, trouble, copy>>
  BY <1>1 DEF Expire
<1>2. ASSUME NEW p \in Products, Forget(p) \/ Change(p)
      PROVE  UNCHANGED <<reader, up, trouble, copy>>
  BY <1>2 DEF Forget, Change
<1>3. ASSUME NEW p \in Products, Age(p)
      PROVE  UNCHANGED <<reader, up, trouble>> /\ copy' = [copy EXCEPT ![p] = "stale"]
  BY <1>3 DEF Age
<1>4. ASSUME NEW b \in Backends, Recover(b)
      PROVE  UNCHANGED <<reader, trouble, copy>> /\ up' = up \cup {b}
  BY <1>4 DEF Recover
<1>5. ASSUME NEW b \in Backends, Outage(b)
      PROVE  /\ UNCHANGED <<reader, copy>> /\ up' = up \ {b}
             /\ trouble' = [s \in Readers |-> IF pc[s] = "idle" THEN trouble[s]
                                              ELSE trouble[s] \cup {b}]
  BY <1>5 DEF Outage
<1>6. QED
  BY <1>1, <1>2, <1>3, <1>4, <1>5

-----------------------------------------------------------------------------

\* The kinds of steps, as the lemmas above describe them.
LEMMA KindsOfSteps ==
  ASSUME [Next]_vars
  PROVE  \/ UNCHANGED vars
         \/ \E r \in Readers : ReaderStep(r) \/ Crash(r) \/ \E k \in Asked : Ask(r, k)
         \/ \E k \in Pages : Expire(k)
         \/ \E p \in Products : Age(p) \/ Forget(p) \/ Change(p)
         \/ \E b \in Backends : Outage(b) \/ Recover(b)
BY DEF Next

\* The three invariants of one reader, after a step of its own.
LEMMA OwnStepKeeps ==
  ASSUME CatalogueInv, NEW r \in Readers,
         ReaderStep(r) \/ Crash(r) \/ \E k \in Asked : Ask(r, k)
  PROVE  /\ pc'[r] # "idle" => page'[r] \in Pages /\ answer'[r] = "none"
                               /\ Backends \ up \subseteq trouble'[r]
         /\ pc'[r] = "missing" => page'[r] \in Products
         /\ pc'[r] \in {"abort", "abandon", "stale"} \/ answer'[r] \in {"degraded", "unavailable"}
              => trouble'[r] \cap {"saleor", "redis"} # {}
         /\ had'[r] /\ "mongo" \notin trouble'[r] =>
              /\ pc'[r] # "idle" => \E p \in Wanted(page'[r]) : copy[p] # "none"
              /\ answer'[r] # "unavailable"
              /\ answer'[r] = "degraded" => got'[r] # {}
<1>1. CASE ReaderStep(r)
  <2>1. /\ page[r] \in Pages /\ answer[r] = "none" /\ Backends \ up \subseteq trouble[r]
        /\ page'[r] = page[r] /\ trouble'[r] = trouble[r] /\ had'[r] = had[r]
    BY <1>1, OwnStep DEF CatalogueInv, BusyInv
  <2>2. pc'[r] # "idle" => answer'[r] = "none"
    BY <1>1, <2>1, OwnStep
  <2>3. pc'[r] = "missing" => page'[r] \in Products
    BY <1>1, <2>1, OwnStep DEF Pages
  <2>4. pc[r] \in {"abort", "abandon", "stale"} => trouble[r] \cap {"saleor", "redis"} # {}
    BY DEF CatalogueInv, AlarmInv
  <2>5. pc'[r] \in {"abort", "abandon", "stale"} => trouble[r] \cap {"saleor", "redis"} # {}
    BY <1>1, <2>1, <2>4, OwnStep DEF Backends
  <2>6. answer'[r] \in {"degraded", "unavailable"} => trouble[r] \cap {"saleor", "redis"} # {}
    BY <1>1, <2>1, <2>2, <2>4, OwnStep
  <2>7. ASSUME had[r], "mongo" \notin trouble[r]
        PROVE  /\ \E p \in Wanted(page[r]) : copy[p] # "none"
               /\ Stale(page[r]) # {}
    <3>1. pc[r] # "idle"
      BY <1>1, OwnStep
    <3>2. PICK p \in Wanted(page[r]) : copy[p] # "none"
      BY <2>7, <3>1 DEF CatalogueInv, CopyInv
    <3>3. copy[p] \in {"fresh", "stale"}
      BY <2>1, <3>2, WantedAreProducts DEF CatalogueInv, TypeOK
    <3>4. "mongo" \in up
      BY <2>1, <2>7 DEF Backends
    <3>5. QED
      BY <3>2, <3>3, <3>4 DEF Stale, CopiesIn
  <2>8. QED
    BY <1>1, <2>1, <2>2, <2>3, <2>5, <2>6, <2>7, OwnStep
<1>2. CASE Crash(r)
  BY <1>2 DEF Crash, Answer, CatalogueInv, TypeOK
<1>3. ASSUME NEW k \in Asked, Ask(r, k)
      PROVE  /\ page'[r] \in Pages /\ answer'[r] = "none" /\ Backends \ up \subseteq trouble'[r]
             /\ pc'[r] \in {"miss", "fresh"}
             /\ had'[r] => \E p \in Wanted(page'[r]) : copy[p] # "none"
  <2>1. k \in Pages /\ page'[r] = k
    BY <1>3, ConstantsTyped DEF Ask, CatalogueInv, TypeOK
  <2>2. answer'[r] = "none" /\ trouble'[r] = Backends \ up /\ pc'[r] \in {"miss", "fresh"}
    BY <1>3 DEF Ask, CatalogueInv, TypeOK
  <2>3. had'[r] => Stale(k) # {}
    BY <1>3 DEF Ask, CatalogueInv, TypeOK
  <2>4. QED
    BY <2>1, <2>2, <2>3 DEF Stale, CopiesIn
<1>4. QED
  BY <1>1, <1>2, <1>3

LEMMA CatalogueInvStep == CatalogueInv /\ [Next]_vars => CatalogueInv'
<1> SUFFICES ASSUME CatalogueInv, [Next]_vars PROVE CatalogueInv'
  OBVIOUS
<1>0. TypeOK'
  BY TypeStep
<1>1. CASE UNCHANGED vars
  BY <1>0, <1>1
  DEF CatalogueInv, BusyInv, AlarmInv, CopyInv, Wanted, vars, world, caches, leases, reader
<1>2. ASSUME NEW r \in Readers, ReaderStep(r) \/ Crash(r) \/ \E k \in Asked : Ask(r, k)
      PROVE  CatalogueInv'
  <2>1. up' = up /\ \A p \in Products : copy[p] # "none" => copy'[p] # "none"
    BY <1>2, WorldStays DEF CatalogueInv
  <2>2. ASSUME NEW s \in Readers, s # r
        PROVE  /\ pc'[s] = pc[s] /\ page'[s] = page[s] /\ got'[s] = got[s]
               /\ answer'[s] = answer[s] /\ had'[s] = had[s] /\ trouble'[s] = trouble[s]
    BY <1>2, <2>2, OthersStay DEF CatalogueInv
  <2>3. BusyInv'
    BY <1>2, <2>1, <2>2, OwnStepKeeps DEF CatalogueInv, BusyInv
  <2>4. AlarmInv'
    BY <1>2, <2>2, OwnStepKeeps DEF CatalogueInv, AlarmInv
  <2>5. CopyInv'
    <3> SUFFICES ASSUME NEW s \in Readers, had'[s], "mongo" \notin trouble'[s]
                 PROVE  /\ pc'[s] # "idle" => \E p \in Wanted(page'[s]) : copy'[p] # "none"
                        /\ answer'[s] # "unavailable"
                        /\ answer'[s] = "degraded" => got'[s] # {}
      BY DEF CopyInv, Wanted
    <3>1. /\ pc'[s] # "idle" => \E p \in Wanted(page'[s]) : copy[p] # "none"
          /\ answer'[s] # "unavailable"
          /\ answer'[s] = "degraded" => got'[s] # {}
      BY <1>2, <2>2, OwnStepKeeps DEF CatalogueInv, CopyInv
    <3>2. pc'[s] # "idle" => Wanted(page'[s]) \subseteq Products
      BY <2>3, WantedAreProducts DEF BusyInv
    <3>3. QED
      BY <2>1, <3>1, <3>2
  <2>6. QED
    BY <1>0, <2>3, <2>4, <2>5 DEF CatalogueInv
<1>3. ASSUME \/ \E k \in Pages : Expire(k)
             \/ \E p \in Products : Age(p) \/ Forget(p) \/ Change(p)
             \/ \E b \in Backends : Outage(b) \/ Recover(b)
      PROVE  CatalogueInv'
  <2>1. UNCHANGED <<pc, page, got, answer, had>>
    BY <1>3, WorldStep DEF reader
  <2>2. \A s \in Readers :
          /\ trouble[s] \subseteq trouble'[s] /\ (pc[s] = "idle" => trouble'[s] = trouble[s])
          /\ Backends \ up \subseteq trouble[s] /\ pc[s] # "idle"
               => Backends \ up' \subseteq trouble'[s]
    BY <1>3, WorldStep
  <2>3. BusyInv'
    BY <2>1, <2>2 DEF CatalogueInv, BusyInv
  <2>4. AlarmInv'
    BY <2>1, <2>2 DEF CatalogueInv, AlarmInv
  <2>5. CopyInv'
    <3> SUFFICES ASSUME NEW s \in Readers, had[s], "mongo" \notin trouble'[s]
                 PROVE  /\ pc[s] # "idle" => \E p \in Wanted(page[s]) : copy'[p] # "none"
                        /\ answer[s] # "unavailable"
                        /\ answer[s] = "degraded" => got[s] # {}
      BY <2>1 DEF CopyInv, Wanted
    <3>1. /\ pc[s] # "idle" => \E p \in Wanted(page[s]) : copy[p] # "none"
          /\ answer[s] # "unavailable"
          /\ answer[s] = "degraded" => got[s] # {}
      BY <2>2 DEF CatalogueInv, CopyInv
    <3>2. pc[s] # "idle" => Wanted(page[s]) \subseteq Products
      BY WantedAreProducts DEF CatalogueInv, BusyInv
    <3>3. \A p \in Products : copy[p] # "none" => copy'[p] # "none"
      BY <1>3, WorldStep
    <3>4. QED
      BY <3>1, <3>2, <3>3
  <2>6. QED
    BY <1>0, <2>3, <2>4, <2>5 DEF CatalogueInv
<1>4. QED
  BY <1>1, <1>2, <1>3, KindsOfSteps

\* The lease of a reader that asks Saleor is taken by nobody: it goes, and the
\* reader has outlived it.
LEMMA LeaseStep ==
  ASSUME CatalogueInv, LeaseHeld, [Next]_vars
  PROVE  LeaseHeld'
<1> USE DEF CatalogueInv
<1>1. CASE UNCHANGED vars
  BY <1>1 DEF LeaseHeld, vars, leases, reader
<1>2. ASSUME NEW r \in Readers, ReaderStep(r) \/ Crash(r) \/ \E k \in Asked : Ask(r, k)
      PROVE  LeaseHeld'
  <2>1. ASSUME NEW s \in Readers, s # r, pc[s] = "fetch", s \notin outlived'
        PROVE  lease'[page[s]] = s
    <3>0. page[s] \in Pages /\ s # Free
      BY <2>1, ConstantsTyped DEF BusyInv
    <3>1. CASE Acquire(r)
      BY <2>1, <3>0, <3>1 DEF Acquire, TypeOK, LeaseHeld
    <3>2. CASE Release(r)
      BY <2>1, <3>0, <3>2 DEF Release, LeftBehind, TypeOK, LeaseHeld
    <3>3. CASE Delete(r)
      BY <2>1, <3>0, <3>3 DEF Delete, LeftBehind, Asking, TypeOK, LeaseHeld
    <3>4. CASE Crash(r)
      BY <2>1, <3>0, <3>4 DEF Crash, LeftBehind, TypeOK, LeaseHeld
    <3>5. CASE Fetch(r)
      BY <2>1, <3>5 DEF Fetch, LeaseHeld
    <3>6. CASE ~(Acquire(r) \/ Release(r) \/ Delete(r) \/ Crash(r) \/ Fetch(r))
      <4>1. UNCHANGED leases
        BY <1>2, <3>6 DEF ReaderStep, CheckMiss, CheckFresh, Store, Follow, Missing, Degrade, Ask
      <4>2. QED
        BY <2>1, <4>1 DEF leases, LeaseHeld
    <3>7. QED
      BY <3>1, <3>2, <3>3, <3>4, <3>5, <3>6
  <2>2. pc'[r] = "fetch" => lease'[page'[r]] = r
    <3> USE DEF TypeOK, Goto, Answer, Serve
    <3>1. CASE Acquire(r)
      BY <3>1 DEF Acquire, BusyInv
    <3>2. CASE Fetch(r)
      BY <3>2 DEF Fetch
    <3>3. CASE Store(r)
      BY <3>3 DEF Store
    <3>4. CASE Release(r) \/ Delete(r)
      BY <3>4 DEF Release, Delete, Leave
    <3>5. CASE CheckMiss(r) \/ CheckFresh(r) \/ Follow(r) \/ Missing(r) \/ Degrade(r)
      BY <3>5 DEF CheckMiss, CheckFresh, Follow, Missing, Degrade
    <3>6. CASE Crash(r)
      BY <3>6 DEF Crash
    <3>7. ASSUME NEW k \in Asked, Ask(r, k)
          PROVE  pc'[r] \in {"miss", "fresh"}
      BY <3>7 DEF Ask
    <3>8. QED
      BY <1>2, <3>1, <3>2, <3>3, <3>4, <3>5, <3>6, <3>7 DEF ReaderStep
  <2>3. \A s \in Readers : s # r => pc'[s] = pc[s] /\ page'[s] = page[s]
    BY <1>2, OthersStay
  <2>4. QED
    BY <2>1, <2>2, <2>3 DEF LeaseHeld
<1>3. ASSUME \/ \E k \in Pages : Expire(k)
             \/ \E p \in Products : Age(p) \/ Forget(p) \/ Change(p)
             \/ \E b \in Backends : Outage(b) \/ Recover(b)
      PROVE  LeaseHeld'
  <2>1. UNCHANGED reader
    BY <1>3, WorldStep
  <2>2. CASE \E k \in Pages : Expire(k)
    BY <2>1, <2>2 DEF Expire, Asking, reader, TypeOK, BusyInv, LeaseHeld
  <2>3. CASE ~\E k \in Pages : Expire(k)
    <3>1. UNCHANGED leases
      BY <1>3, <2>3 DEF Age, Forget, Change, Outage, Recover
    <3>2. QED
      BY <2>1, <3>1 DEF reader, leases, LeaseHeld
  <2>4. QED
    BY <2>2, <2>3
<1>4. QED
  BY <1>1, <1>2, <1>3, KindsOfSteps

-----------------------------------------------------------------------------

LEMMA CatalogueInvAlways == Spec => []CatalogueInv
BY CatalogueInvInit, CatalogueInvStep, PTL DEF Spec

\* The variables of the catalogue keep their types.
THEOREM CatalogueTypeCorrect == Spec => []TypeOK
<1>1. CatalogueInv => TypeOK
  BY DEF CatalogueInv
<1>2. QED
  BY <1>1, CatalogueInvAlways, PTL

\* However many readers come at once, and whichever leases run out or are deleted
\* under readers that still work, at most one of those that ask Saleor for a page
\* has its lease (cache_lease).
THEOREM AlwaysSingleFlight == Spec => []SingleFlight
<1>1. CatalogueInv /\ LeaseHeld => SingleFlight
  <2> SUFFICES ASSUME CatalogueInv, LeaseHeld, NEW k \in Pages
               PROVE  Cardinality({r \in Readers : /\ pc[r] = "fetch" /\ page[r] = k
                                                  /\ r \notin outlived}) <= 1
    BY DEF SingleFlight
  <2> DEFINE fetching == {r \in Readers : pc[r] = "fetch" /\ page[r] = k /\ r \notin outlived}
  <2>1. \A r \in fetching : r = lease[k]
    BY DEF LeaseHeld
  <2>2. fetching = {} \/ fetching = {lease[k]}
    BY <2>1
  <2>3. Cardinality({}) = 0 /\ Cardinality({lease[k]}) = 1
    BY FS_EmptySet, FS_Singleton, Zenon
  <2>4. Cardinality(fetching) = 0 \/ Cardinality(fetching) = 1
    BY <2>2, <2>3, Zenon
  <2>5. Cardinality(fetching) <= 1
    BY <2>4
  <2>6. QED
    BY <2>5
<1>2. Init => LeaseHeld
  BY CatalogueInvInit
<1>3. CatalogueInv /\ LeaseHeld /\ [Next]_vars => LeaseHeld'
  BY LeaseStep
<1>4. QED
  BY <1>1, <1>2, <1>3, CatalogueInvAlways, PTL DEF Spec

\* A 503 and the flag "degraded" are never told without an outage of Saleor or
\* Redis during the request (ProductViewSet over get_product and list_products).
THEOREM NeverAFalseAlarm == Spec => []NoFalseAlarm
<1>1. CatalogueInv => NoFalseAlarm
  BY DEF CatalogueInv, AlarmInv, NoFalseAlarm, Status, Flagged
<1>2. QED
  BY <1>1, CatalogueInvAlways, PTL

\* What MongoDB holds is served through every outage of the others (the stale
\* fallback of get_product and list_products).
THEOREM KnownIsAlwaysServed == Spec => []KnownIsServed
<1>1. CatalogueInv => KnownIsServed
  BY DEF CatalogueInv, CopyInv, KnownIsServed, Status, Shown
<1>2. QED
  BY <1>1, CatalogueInvAlways, PTL

=============================================================================
