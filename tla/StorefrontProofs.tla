--------------------------- MODULE StorefrontProofs ---------------------------
(* Proofs about module Storefront, for any number of requests, keys and units *)
(* and any bounds: its types, that a key buys once, what a cart can be bought  *)
(* twice by, and what can be thrown away unsold.                               *)
EXTENDS Storefront, TLAPS

Attempts == {"none", "failed", "open", "unknown", "completed"}

\* What a key has bought, or has asked for and may still buy.
Wants(k, u) == u \in asked[k] \/ bought[k][u] > 0
Wanted(k) == \E u \in Units : Wants(k, u)

-----------------------------------------------------------------------------
(* Keys *)

Inside(step) == step \in {"place", "create", "wait", "record"}

\* A request that is under way has a key and belongs to its front; inside
\* place_order_once it has the lease.
Working ==
  \A r \in Requests :
    /\ pc[r] # "idle" => key[r] \in Keys
    /\ pc[r] \in {"issued", "save"} => front = "html"
    /\ Inside(pc[r]) => lease = r
    /\ pc[r] = "create" => seen[r] # {}
    /\ pc[r] = "idle" => seen[r] = {}

\* A key asks once, and its attempt tells.
BuysOnce ==
  \A k \in Keys :
    /\ \A u \in Units : bought[k][u] <= 1
    /\ asked[k] # {} => \A u \in Units : bought[k][u] = 0
    /\ Wanted(k) => attempt[k] \notin {"none", "failed"}
    /\ booked[k] => \E u \in Units : bought[k][u] > 0

\* Before it asks, nothing of its key was bought; afterwards, something may be.
AskingAt(step, k) ==
  /\ step = "create" => ~Wanted(k) /\ attempt[k] \notin {"none", "failed"}
  /\ step = "wait" => Wanted(k)
  /\ step = "record" => Wanted(k) /\ asked[k] = {}
  /\ step = "won" => booked[k]

Asking == \A r \in Requests : AskingAt(pc[r], key[r])

KeysInv == TypeOK /\ Working /\ BuysOnce /\ Asking

-----------------------------------------------------------------------------
(* What steps do *)

\* The other requests are where they were.
Apart(r) ==
  \A s \in Requests \ {r} : pc'[s] = pc[s] /\ key'[s] = key[s] /\ seen'[s] = seen[s]

LEMMA GotoDoes ==
  ASSUME TypeOK, NEW r \in Requests, NEW step \in Steps, Goto(r, step)
  PROVE  /\ pc' \in [Requests -> Steps] /\ key' = key /\ seen' = seen
         /\ pc'[r] = step /\ Apart(r)
BY DEF TypeOK, Goto, Apart

LEMMA DoneDoes ==
  ASSUME TypeOK, NEW r \in Requests, Done(r)
  PROVE  /\ pc' \in [Requests -> Steps]
         /\ key' \in [Requests -> Keys \cup {NoKey}]
         /\ seen' \in [Requests -> SUBSET Units]
         /\ pc'[r] = "idle" /\ seen'[r] = {} /\ key'[r] = NoKey /\ Apart(r)
BY DEF TypeOK, Done, Apart, Steps

LEMMA BuysDoes ==
  ASSUME TypeOK, BuysOnce, NEW k \in Keys, SaleorBuys(k)
  PROVE  /\ bought' \in [Keys -> [Units -> Nat]] /\ asked' \in [Keys -> SUBSET Units]
         /\ asked[k] # {} /\ asked'[k] = {}
         /\ \A u \in Units : bought'[k][u] = IF u \in asked[k] THEN 1 ELSE 0
         /\ \A j \in Keys \ {k} : asked'[j] = asked[j] /\ bought'[j] = bought[j]
         /\ \A j \in Keys : \A u \in Units : Wants(j, u)' = Wants(j, u)
<1> DEFINE row == [u \in Units |-> bought[k][u] + (IF u \in asked[k] THEN 1 ELSE 0)]
<1>1. /\ asked[k] # {} /\ asked[k] \subseteq Units /\ bought[k] \in [Units -> Nat]
      /\ bought \in [Keys -> [Units -> Nat]] /\ asked \in [Keys -> SUBSET Units]
      /\ \A u \in Units : bought[k][u] = 0
  BY DEF SaleorBuys, TypeOK, BuysOnce
<1>2. /\ row \in [Units -> Nat]
      /\ \A u \in Units : row[u] = IF u \in asked[k] THEN 1 ELSE 0
  BY <1>1
<1>3. bought' = [bought EXCEPT ![k] = row] /\ asked' = [asked EXCEPT ![k] = {}]
  BY DEF SaleorBuys
<1> HIDE DEF row
<1>4. /\ bought' \in [Keys -> [Units -> Nat]] /\ asked' \in [Keys -> SUBSET Units]
      /\ asked'[k] = {} /\ bought'[k] = row
      /\ \A j \in Keys \ {k} : asked'[j] = asked[j] /\ bought'[j] = bought[j]
  BY <1>1, <1>2, <1>3
<1>5. \A j \in Keys : \A u \in Units : Wants(j, u)' = Wants(j, u)
  BY <1>1, <1>2, <1>4 DEF Wants
<1>6. QED
  BY <1>1, <1>2, <1>4, <1>5

LEMMA KeysInvInit == Init => KeysInv
BY ConstantsTyped DEF Init, KeysInv, TypeOK, Working, Inside, BuysOnce, Asking, AskingAt, Wanted, Wants, Steps, Units

\* A step that leaves the journal and Saleor alone.
LEMMA OrdersKept ==
  ASSUME BuysOnce, UNCHANGED <<journal, saleor>>
  PROVE  BuysOnce'
BY DEF journal, saleor, BuysOnce, Wanted, Wants

\* A step of a request that goes on or ends.
LEMMA RequestMoves ==
  ASSUME KeysInv, NEW r \in Requests, pc[r] # "idle", UNCHANGED front,
         \A k \in Keys : booked[k] => booked'[k],
         UNCHANGED <<attempt, asked, bought>> \/ Inside(pc[r]),
         \A s \in Requests \ {r} : lease = s => lease' = s,
         \/ Done(r)
         \/ \E step \in Steps \ {"idle", "issued"} :
              /\ Goto(r, step) /\ (step = "save" => front = "html")
              /\ Inside(step) => lease' = r
              /\ step = "create" => seen[r] # {}
              /\ AskingAt(step, key[r])'
  PROVE  /\ pc' \in [Requests -> Steps]
         /\ key' \in [Requests -> Keys \cup {NoKey}]
         /\ seen' \in [Requests -> SUBSET Units]
         /\ Working' /\ Asking' /\ Apart(r)
<1>1. /\ pc' \in [Requests -> Steps] /\ Apart(r)
      /\ key' \in [Requests -> Keys \cup {NoKey}] /\ seen' \in [Requests -> SUBSET Units]
      /\ \/ pc'[r] = "idle" /\ seen'[r] = {}
         \/ /\ pc'[r] \notin {"idle", "issued"} /\ (pc'[r] = "save" => front = "html")
            /\ Inside(pc'[r]) => lease' = r
            /\ pc'[r] = "create" => seen'[r] # {}
            /\ AskingAt(pc[r], key[r])'
            /\ key'[r] = key[r]
  <2>1. CASE Done(r)
    BY <2>1, DoneDoes DEF KeysInv
  <2>2. ASSUME NEW step \in Steps \ {"idle", "issued"}, Goto(r, step)
        PROVE  pc' \in [Requests -> Steps] /\ key' = key /\ seen' = seen /\ pc'[r] = step /\ Apart(r)
    BY <2>2, GotoDoes DEF KeysInv
  <2>3. QED
    BY <2>1, <2>2 DEF KeysInv, TypeOK, AskingAt
<1>2. key[r] \in Keys
  BY DEF KeysInv, Working
<1>3. Working'
  BY <1>1, <1>2 DEF KeysInv, Working, Inside, Apart
<1>4. ASSUME NEW s \in Requests PROVE AskingAt(pc[s], key[s])'
  <2>1. CASE s = r
    BY <1>1, <2>1 DEF AskingAt
  <2>2. CASE s # r
    <3>1. pc'[s] = pc[s] /\ key'[s] = key[s]
      BY <1>1, <2>2 DEF Apart
    <3>2. AskingAt(pc[s], key[s])
      BY DEF KeysInv, Asking
    <3>3. pc[s] # "idle" => key[s] \in Keys
      BY DEF KeysInv, Working
    <3>4. CASE UNCHANGED <<attempt, asked, bought>>
      BY <3>1, <3>2, <3>3, <3>4 DEF AskingAt, Wanted, Wants
    <3>5. CASE Inside(pc[r])
      <4>1. pc[s] \notin {"create", "wait", "record"}
        BY <2>2, <3>5 DEF KeysInv, Working, Inside
      <4>2. QED
        BY <3>1, <3>2, <3>3, <4>1 DEF AskingAt
    <3>6. QED
      BY <3>4, <3>5
  <2>3. QED
    BY <2>1, <2>2
<1>5. QED
  BY <1>1, <1>3, <1>4 DEF Asking

LEMMA KeysCartStep ==
  ASSUME KeysInv, FillCart \/ EmptyCart
  PROVE  KeysInv'
<1>1. UNCHANGED <<front, request, lease, journal, saleor, faults, met, unanswered>>
  BY DEF FillCart, EmptyCart
<1>2. BuysOnce'
  BY <1>1, OrdersKept DEF KeysInv
<1>3. Working' /\ Asking'
  BY <1>1 DEF KeysInv, Working, Asking, AskingAt, Wanted, Wants, request, journal, saleor
<1>4. TypeOK'
  <2>1. CASE FillCart
    <3>1. filled + 1 \in Units /\ filled + 1 \in 0 .. MaxUnits /\ filled \in Nat
      BY <2>1, ConstantsTyped DEF FillCart, KeysInv, TypeOK, Units
    <3>2. session' \in Keys \cup {NoKey} /\ fresh' \subseteq Keys
      BY <2>1 DEF FillCart, KeysInv, TypeOK, browser
    <3>3. QED
      BY <1>1, <2>1, <3>1, <3>2 DEF FillCart, KeysInv, TypeOK, request, journal, saleor
  <2>2. CASE EmptyCart
    BY <2>2 DEF EmptyCart, KeysInv, TypeOK, browser, request, journal, saleor
  <2>3. QED
    BY <2>1, <2>2
<1>5. QED
  BY <1>2, <1>3, <1>4 DEF KeysInv

\* A request begins.
LEMMA KeysBeginStep ==
  ASSUME KeysInv, NEW r \in Requests, Get(r) \/ Submit(r)
  PROVE  KeysInv'
<1>1. UNCHANGED <<basket, session, seen, lease, journal, saleor, faults, unanswered>> /\ fresh' \subseteq fresh
  BY DEF Get, Submit, browser
<1>2. PICK k \in Keys, step \in {"issued", "check"} :
        /\ pc' = [pc EXCEPT ![r] = step] /\ key' = [key EXCEPT ![r] = k]
        /\ step = "issued" => front = "html"
  BY DEF Get, Submit, KeysInv, TypeOK
<1>3. met' \subseteq SUBSET Keys
  <2>1. CASE Get(r)
    BY <2>1 DEF Get, KeysInv, TypeOK
  <2>2. CASE Submit(r)
    <3>1. session \in Keys
      BY <2>2 DEF Submit, KeysInv, TypeOK
    <3>2. \A s \in Requests : UnderWay(s) => key[s] \in Keys
      BY DEF KeysInv, Working, UnderWay
    <3>3. {{session, key[s]} : s \in {t \in Requests : UnderWay(t)}} \subseteq SUBSET Keys
      BY <3>1, <3>2
    <3>4. QED
      BY <2>2, <3>3 DEF Submit, KeysInv, TypeOK
  <2>3. QED
    BY <2>1, <2>2
<1>4. BuysOnce'
  BY <1>1, OrdersKept DEF KeysInv
<1>5. /\ pc' \in [Requests -> Steps] /\ key' \in [Requests -> Keys \cup {NoKey}]
      /\ pc'[r] = step /\ key'[r] = k
      /\ \A s \in Requests \ {r} : pc'[s] = pc[s] /\ key'[s] = key[s]
  BY <1>2 DEF KeysInv, TypeOK, Steps
<1>6. TypeOK'
  BY <1>1, <1>3, <1>5 DEF KeysInv, TypeOK, basket, journal, saleor
<1>7. Working'
  BY <1>1, <1>2, <1>5 DEF KeysInv, Working, Inside, basket
<1>8. Asking'
  BY <1>1, <1>5 DEF KeysInv, Asking, AskingAt, Wanted, Wants, journal, saleor
<1>9. QED
  BY <1>4, <1>6, <1>7, <1>8 DEF KeysInv

\* Steps that touch neither the journal nor Saleor.
LEMMA KeysQuietStep ==
  ASSUME KeysInv, NEW r \in Requests,
         SaveIssued(r) \/ Check(r) \/ Enter(r) \/ ClearCart(r) \/ SavePopped(r)
  PROVE  KeysInv'
<1>1. /\ pc[r] # "idle" /\ key[r] \in Keys
      /\ UNCHANGED <<front, filled, meant, late, fresh, journal, saleor, faults, met, unanswered>>
      /\ cart' \in {cart, {}} /\ lease' \in {lease, r} /\ session' \in {session, NoKey, key[r]}
  BY DEF SaveIssued, Check, Enter, ClearCart, SavePopped, KeysInv, Working, basket, browser
<1>2. \A s \in Requests \ {r} : lease = s => lease' = s
  BY ConstantsTyped DEF SaveIssued, Check, Enter, ClearCart, SavePopped
<1>3. \/ Done(r)
      \/ \E step \in Steps \ {"idle", "issued"} :
           /\ Goto(r, step) /\ (step = "save" => front = "html")
           /\ Inside(step) => lease' = r
           /\ step = "create" => seen[r] # {}
           /\ AskingAt(step, key[r])'
  BY DEF SaveIssued, Check, Enter, Refuse, ClearCart, SavePopped, Steps, Inside, AskingAt
<1>4. /\ pc' \in [Requests -> Steps] /\ key' \in [Requests -> Keys \cup {NoKey}]
      /\ seen' \in [Requests -> SUBSET Units] /\ Working' /\ Asking'
  BY <1>1, <1>2, <1>3, RequestMoves DEF journal, saleor
<1>5. BuysOnce'
  BY <1>1, OrdersKept DEF KeysInv
<1>6. TypeOK'
  BY <1>1, <1>4 DEF KeysInv, TypeOK, journal, saleor
<1>7. QED
  BY <1>4, <1>5, <1>6 DEF KeysInv

LEMMA KeysReadStep ==
  ASSUME KeysInv, NEW r \in Requests, ReadCart(r)
  PROVE  KeysInv'
<1>1. /\ UNCHANGED <<basket, browser, key, lease, journal, saleor, faults, met, unanswered>>
      /\ pc[r] = "cart" /\ pc' = [pc EXCEPT ![r] = "enter"] /\ seen' = [seen EXCEPT ![r] = cart]
  BY DEF ReadCart
<1>2. cart \subseteq Units
  BY ConstantsTyped DEF KeysInv, TypeOK, Units
<1>3. /\ pc' \in [Requests -> Steps] /\ seen' \in [Requests -> SUBSET Units]
      /\ pc'[r] = "enter" /\ \A s \in Requests \ {r} : pc'[s] = pc[s]
  BY <1>1, <1>2 DEF KeysInv, TypeOK, Steps
<1>4. BuysOnce'
  BY <1>1, OrdersKept DEF KeysInv
<1>5. TypeOK'
  BY <1>1, <1>3 DEF KeysInv, TypeOK, basket, browser, journal, saleor
<1>6. Working'
  BY <1>1, <1>3 DEF KeysInv, Working, Inside, basket
<1>7. Asking'
  BY <1>1, <1>3 DEF KeysInv, Asking, AskingAt, Wanted, Wants, journal, saleor
<1>8. QED
  BY <1>4, <1>5, <1>6, <1>7 DEF KeysInv

LEMMA KeysPlaceStep ==
  ASSUME KeysInv, NEW r \in Requests, Place(r)
  PROVE  KeysInv'
<1>1. PICK k \in Keys : k = key[r]
  BY DEF Place, KeysInv, Working
<1>2. /\ pc[r] = "place" /\ UNCHANGED <<basket, browser, saleor, faults, met, unanswered, booked>>
      /\ \A s \in Requests \ {r} : lease = s => lease' = s
  BY DEF Place, GiveBack, journal
<1>3. lease' \in {lease, Free}
  BY DEF Place, GiveBack
<1>4. CASE UNCHANGED journal /\ (Done(r) \/ (booked[k] /\ Goto(r, "won")))
  <2>1. \/ Done(r)
        \/ \E step \in Steps \ {"idle", "issued"} :
             /\ Goto(r, step) /\ (step = "save" => front = "html")
             /\ Inside(step) => lease' = r
             /\ step = "create" => seen[r] # {}
             /\ AskingAt(step, key[r])'
    BY <1>1, <1>4 DEF Steps, Inside, AskingAt, Goto, journal
  <2>2. /\ pc' \in [Requests -> Steps] /\ key' \in [Requests -> Keys \cup {NoKey}]
        /\ seen' \in [Requests -> SUBSET Units] /\ Working' /\ Asking'
    BY <1>2, <1>4, <2>1, RequestMoves DEF basket, journal, saleor
  <2>3. BuysOnce'
    BY <1>2, <1>4, OrdersKept DEF KeysInv
  <2>4. TypeOK'
    BY <1>2, <1>3, <1>4, <2>2 DEF KeysInv, TypeOK, basket, browser, journal, saleor
  <2>5. QED
    BY <2>2, <2>3, <2>4 DEF KeysInv
<1>5. CASE /\ MayTry(k) /\ seen[r] # {} /\ attempt' = [attempt EXCEPT ![k] = "open"]
           /\ Goto(r, "create") /\ UNCHANGED <<lease, booked>>
  <2>1. /\ attempt' \in [Keys -> Attempts] /\ attempt'[k] = "open"
        /\ \A j \in Keys \ {k} : attempt'[j] = attempt[j]
    BY <1>5 DEF KeysInv, TypeOK, Attempts
  <2>2. ~Wanted(k) /\ ~Wanted(k)'
    BY <1>2, <1>5 DEF KeysInv, BuysOnce, MayTry, Wanted, Wants, saleor
  <2>3. BuysOnce'
    BY <1>2, <1>5, <2>1, <2>2 DEF KeysInv, BuysOnce, Wanted, Wants, saleor
  <2>4. lease' = r
    BY <1>2, <1>5 DEF KeysInv, Working, Inside
  <2>5. \E step \in Steps \ {"idle", "issued"} :
             /\ Goto(r, step) /\ (step = "save" => front = "html")
             /\ Inside(step) => lease' = r
             /\ step = "create" => seen[r] # {}
             /\ AskingAt(step, key[r])'
    <3>1. key'[r] = k
      BY <1>1, <1>5 DEF Goto
    <3>2. AskingAt("create", key[r])'
      BY <2>1, <2>2, <3>1 DEF AskingAt
    <3>3. QED
      BY <1>5, <2>4, <3>2 DEF Steps
  <2>6. /\ pc' \in [Requests -> Steps] /\ key' \in [Requests -> Keys \cup {NoKey}]
        /\ seen' \in [Requests -> SUBSET Units] /\ Working' /\ Asking'
    BY <1>2, <1>5, <2>5, RequestMoves DEF basket, Inside
  <2>7. TypeOK'
    BY <1>2, <1>5, <2>1, <2>6 DEF KeysInv, TypeOK, Attempts, basket, browser, saleor
  <2>8. QED
    BY <2>3, <2>6, <2>7 DEF KeysInv
<1>6. QED
  BY <1>1, <1>4, <1>5 DEF Place, Refuse

LEMMA KeysCreateStep ==
  ASSUME KeysInv, NEW r \in Requests, Create(r)
  PROVE  KeysInv'
<1>1. PICK k \in Keys : k = key[r]
  BY DEF Create, KeysInv, Working
<1>2. /\ pc[r] = "create" /\ lease = r
      /\ UNCHANGED <<basket, browser, booked, bought, faults, met, unanswered>>
      /\ \A s \in Requests \ {r} : lease = s => lease' = s
      /\ lease' \in {lease, Free}
  BY DEF Create, GiveBack, KeysInv, Working, Inside
<1>3. ~Wanted(k) /\ attempt[k] \notin {"none", "failed"} /\ seen[r] \in SUBSET Units
  BY <1>1, <1>2 DEF KeysInv, Asking, AskingAt, TypeOK
<1>4. asked[k] = {} /\ \A u \in Units : bought[k][u] = 0
  BY <1>1, <1>3 DEF Wanted, Wants, KeysInv, TypeOK
<1>5. /\ BuysOnce' /\ attempt' \in [Keys -> Attempts] /\ asked' \in [Keys -> SUBSET Units]
      /\ Done(r) \/ (Goto(r, "wait") /\ lease' = lease /\ asked'[k] = seen[r])
  <2>1. CASE attempt' = [attempt EXCEPT ![k] = "failed"] /\ Done(r) /\ UNCHANGED asked
    <3>1. /\ attempt' \in [Keys -> Attempts] /\ asked' \in [Keys -> SUBSET Units]
          /\ \A j \in Keys \ {k} : attempt'[j] = attempt[j]
      BY <2>1 DEF KeysInv, TypeOK, Attempts
    <3>2. BuysOnce'
      BY <1>2, <1>4, <2>1, <3>1 DEF KeysInv, BuysOnce, Wanted, Wants
    <3>3. QED
      BY <2>1, <3>1, <3>2
  <2>2. CASE /\ asked' = [asked EXCEPT ![k] = seen[r]]
             /\ Goto(r, "wait") /\ UNCHANGED <<attempt, lease>>
    <3>1. /\ asked' \in [Keys -> SUBSET Units] /\ attempt' \in [Keys -> Attempts]
          /\ \A j \in Keys \ {k} : asked'[j] = asked[j]
      BY <1>3, <2>2 DEF KeysInv, TypeOK, Attempts
    <3>2. BuysOnce'
      BY <1>2, <1>3, <1>4, <2>2, <3>1 DEF KeysInv, BuysOnce, Wanted, Wants
    <3>3. QED
      BY <2>2, <3>1, <3>2
  <2>3. QED
    BY <1>1, <2>1, <2>2 DEF Create, Refuse
<1>6. \/ Done(r)
      \/ \E step \in Steps \ {"idle", "issued"} :
           /\ Goto(r, step) /\ (step = "save" => front = "html")
           /\ Inside(step) => lease' = r
           /\ step = "create" => seen[r] # {}
           /\ AskingAt(step, key[r])'
  <2>1. CASE Goto(r, "wait") /\ lease' = lease /\ asked'[k] = seen[r]
    <3>1. seen[r] # {} /\ key'[r] = k
      BY <1>1, <1>2, <2>1 DEF KeysInv, Working, Goto
    <3>2. AskingAt("wait", key[r])'
      BY <1>3, <2>1, <3>1 DEF AskingAt, Wanted, Wants
    <3>3. QED
      BY <1>2, <2>1, <3>2 DEF Steps
  <2>2. QED
    BY <1>5, <2>1
<1>7. /\ pc' \in [Requests -> Steps] /\ key' \in [Requests -> Keys \cup {NoKey}]
      /\ seen' \in [Requests -> SUBSET Units] /\ Working' /\ Asking'
  BY <1>2, <1>6, RequestMoves DEF basket, Inside
<1>8. TypeOK'
  BY <1>2, <1>5, <1>7 DEF KeysInv, TypeOK, Attempts, basket, browser
<1>9. QED
  BY <1>5, <1>7, <1>8 DEF KeysInv

LEMMA KeysReceiveStep ==
  ASSUME KeysInv, NEW r \in Requests, Receive(r)
  PROVE  KeysInv'
<1>1. PICK k \in Keys : k = key[r]
  BY DEF Receive, KeysInv, Working
<1>2. /\ pc[r] = "wait" /\ lease = r
      /\ UNCHANGED <<basket, browser, booked, bought, met>>
      /\ \A s \in Requests \ {r} : lease = s => lease' = s
      /\ lease' \in {lease, Free}
  BY DEF Receive, GiveBack, KeysInv, Working, Inside
<1>3. /\ attempt' = attempt \/ attempt' = [attempt EXCEPT ![k] = "unknown"]
      /\ asked' = asked \/ (asked[k] # {} /\ asked' = [asked EXCEPT ![k] = {}])
      /\ faults' \in {faults, faults + 1} /\ (faults' = faults \/ faults < MaxFaults)
      /\ unanswered' \in {unanswered, unanswered \cup {k}}
      /\ Done(r) \/ (Goto(r, "record") /\ asked[k] = {} /\ UNCHANGED <<lease, asked>>)
  BY <1>1 DEF Receive, Refuse
<1>4. /\ attempt' \in [Keys -> Attempts] /\ asked' \in [Keys -> SUBSET Units]
      /\ \A j \in Keys : asked'[j] \subseteq asked[j] /\ attempt'[j] \in {attempt[j], "unknown"}
  <2>1. attempt \in [Keys -> Attempts] /\ asked \in [Keys -> SUBSET Units]
    BY DEF KeysInv, TypeOK, Attempts
  <2>2. attempt' \in [Keys -> Attempts] /\ \A j \in Keys : attempt'[j] \in {attempt[j], "unknown"}
    BY <1>3, <2>1 DEF Attempts
  <2>3. asked' \in [Keys -> SUBSET Units] /\ \A j \in Keys : asked'[j] \subseteq asked[j]
    BY <1>3, <2>1
  <2>4. QED
    BY <2>2, <2>3
<1>5. BuysOnce'
  BY <1>2, <1>4 DEF KeysInv, BuysOnce, Wanted, Wants
<1>6. \/ Done(r)
      \/ \E step \in Steps \ {"idle", "issued"} :
           /\ Goto(r, step) /\ (step = "save" => front = "html")
           /\ Inside(step) => lease' = r
           /\ step = "create" => seen[r] # {}
           /\ AskingAt(step, key[r])'
  <2>1. CASE Goto(r, "record") /\ asked[k] = {} /\ UNCHANGED <<lease, asked>>
    <3>1. Wanted(k) /\ key'[r] = k
      BY <1>1, <1>2, <2>1 DEF KeysInv, Asking, AskingAt, Goto
    <3>2. AskingAt("record", key[r])'
      BY <1>2, <2>1, <3>1 DEF AskingAt, Wanted, Wants
    <3>3. QED
      BY <1>2, <2>1, <3>2 DEF Steps
  <2>2. QED
    BY <1>3, <2>1
<1>7. /\ pc' \in [Requests -> Steps] /\ key' \in [Requests -> Keys \cup {NoKey}]
      /\ seen' \in [Requests -> SUBSET Units] /\ Working' /\ Asking'
  BY <1>2, <1>6, RequestMoves DEF basket, Inside
<1>8. faults' \in 0 .. MaxFaults
  BY <1>3, ConstantsTyped DEF KeysInv, TypeOK
<1>9. TypeOK'
  BY <1>2, <1>3, <1>4, <1>7, <1>8 DEF KeysInv, TypeOK, Attempts, basket, browser
<1>10. QED
  BY <1>5, <1>7, <1>9 DEF KeysInv

LEMMA KeysRecordStep ==
  ASSUME KeysInv, NEW r \in Requests, Record(r)
  PROVE  KeysInv'
<1>1. PICK k \in Keys : k = key[r]
  BY DEF Record, KeysInv, Working
<1>2. /\ pc[r] = "record" /\ UNCHANGED <<basket, browser, saleor, faults, met>>
      /\ lease = r /\ lease' \in {lease, Free}
      /\ \A s \in Requests \ {r} : lease = s => lease' = s
  BY DEF Record, GiveBack, KeysInv, Working, Inside
<1>3. asked[k] = {}
  BY <1>1, <1>2 DEF KeysInv, Asking, AskingAt
<1>4. unanswered' \subseteq Keys
  BY <1>1 DEF Record, KeysInv, TypeOK
<1>5. CASE Done(r) /\ UNCHANGED journal
  <2>1. BuysOnce'
    BY <1>2, <1>5, OrdersKept DEF KeysInv
  <2>2. /\ pc' \in [Requests -> Steps] /\ key' \in [Requests -> Keys \cup {NoKey}]
        /\ seen' \in [Requests -> SUBSET Units] /\ Working' /\ Asking'
    BY <1>2, <1>5, RequestMoves DEF basket, journal, saleor
  <2>3. TypeOK'
    BY <1>2, <1>4, <1>5, <2>2 DEF KeysInv, TypeOK, basket, browser, journal, saleor
  <2>4. QED
    BY <2>1, <2>2, <2>3 DEF KeysInv
<1>6. CASE /\ booked' = [booked EXCEPT ![k] = TRUE]
           /\ attempt' = [attempt EXCEPT ![k] = "completed"]
           /\ Goto(r, "won")
  <2>1. \E u \in Units : bought[k][u] > 0
    BY <1>1, <1>2, <1>3 DEF KeysInv, Asking, AskingAt, Wanted, Wants
  <2>2. /\ attempt' \in [Keys -> Attempts] /\ attempt'[k] = "completed"
        /\ booked' \in [Keys -> BOOLEAN] /\ booked'[k]
        /\ \A j \in Keys \ {k} : attempt'[j] = attempt[j] /\ booked'[j] = booked[j]
    BY <1>6 DEF KeysInv, TypeOK, Attempts
  <2>3. BuysOnce'
    BY <1>2, <2>1, <2>2 DEF KeysInv, BuysOnce, Wanted, Wants, saleor
  <2>4. \E step \in Steps \ {"idle", "issued"} :
           /\ Goto(r, step) /\ (step = "save" => front = "html")
           /\ Inside(step) => lease' = r
           /\ step = "create" => seen[r] # {}
           /\ AskingAt(step, key[r])'
    <3>1. key'[r] = k
      BY <1>1, <1>6 DEF Goto
    <3>2. AskingAt("won", key[r])'
      BY <2>2, <3>1 DEF AskingAt
    <3>3. QED
      BY <1>6, <3>2 DEF Steps, Inside
  <2>5. \A j \in Keys : booked[j] => booked'[j]
    BY <2>2
  <2>6. /\ pc' \in [Requests -> Steps] /\ key' \in [Requests -> Keys \cup {NoKey}]
        /\ seen' \in [Requests -> SUBSET Units] /\ Working' /\ Asking'
    BY <1>2, <2>4, <2>5, RequestMoves DEF basket, Inside
  <2>7. TypeOK'
    BY <1>2, <1>4, <2>2, <2>6 DEF KeysInv, TypeOK, Attempts, basket, browser, saleor
  <2>8. QED
    BY <2>3, <2>6, <2>7 DEF KeysInv
<1>7. QED
  BY <1>1, <1>5, <1>6 DEF Record, Refuse

LEMMA KeysCrashStep ==
  ASSUME KeysInv, NEW r \in Requests, Crash(r)
  PROVE  KeysInv'
<1>1. /\ pc[r] # "idle" /\ Done(r) /\ UNCHANGED <<basket, browser, journal, saleor, met>>
      /\ \A s \in Requests \ {r} : lease = s => lease' = s
      /\ lease' \in {lease, Orphan} /\ faults' \in 0 .. MaxFaults
      /\ unanswered' \in {unanswered, unanswered \cup {key[r]}} /\ key[r] \in Keys
  BY ConstantsTyped DEF Crash, KeysInv, TypeOK, Working
<1>2. /\ pc' \in [Requests -> Steps] /\ key' \in [Requests -> Keys \cup {NoKey}]
      /\ seen' \in [Requests -> SUBSET Units] /\ Working' /\ Asking'
  BY <1>1, RequestMoves DEF basket, journal, saleor
<1>3. BuysOnce'
  BY <1>1, OrdersKept DEF KeysInv
<1>4. TypeOK'
  BY <1>1, <1>2 DEF KeysInv, TypeOK, basket, browser, journal, saleor
<1>5. QED
  BY <1>2, <1>3, <1>4 DEF KeysInv

\* Saleor and reconcile_orders, and a lease that lapses after its holder.
LEMMA KeysOthersStep ==
  ASSUME KeysInv, Expire \/ \E k \in Keys : SaleorBuys(k) \/ MarkUnknown(k) \/ Reconcile(k)
  PROVE  KeysInv'
<1>1. UNCHANGED <<basket, browser, request, faults, met, unanswered>>
  BY DEF Expire, SaleorBuys, MarkUnknown, Reconcile
<1>2. CASE Expire
  <2>1. /\ UNCHANGED <<journal, saleor>> /\ lease' = Free /\ \A s \in Requests : lease # s
    BY <1>2, ConstantsTyped DEF Expire
  <2>2. BuysOnce'
    BY <2>1, OrdersKept DEF KeysInv
  <2>3. QED
    BY <1>1, <2>1, <2>2 DEF KeysInv, TypeOK, Working, Asking, AskingAt, Wanted, Wants, basket, browser,
       request, journal, saleor
<1>3. ASSUME NEW k \in Keys, SaleorBuys(k) PROVE KeysInv'
  <2>1. UNCHANGED <<lease, journal>>
    BY <1>3 DEF SaleorBuys
  <2>2. /\ bought' \in [Keys -> [Units -> Nat]] /\ asked' \in [Keys -> SUBSET Units]
        /\ asked[k] # {} /\ asked'[k] = {}
        /\ \A u \in Units : bought'[k][u] = IF u \in asked[k] THEN 1 ELSE 0
        /\ \A j \in Keys \ {k} : asked'[j] = asked[j] /\ bought'[j] = bought[j]
        /\ \A j \in Keys : \A u \in Units : Wants(j, u)' = Wants(j, u)
    BY <1>3, BuysDoes DEF KeysInv
  <2>3. \A j \in Keys : Wanted(j)' = Wanted(j)
    BY <2>2 DEF Wanted
  <2>4. ~booked[k] /\ \A u \in Units : bought[k][u] = 0
    BY <2>2 DEF KeysInv, BuysOnce
  <2>5. BuysOnce'
    <3> SUFFICES ASSUME NEW j \in Keys
                 PROVE  /\ \A u \in Units : bought'[j][u] <= 1
                        /\ asked'[j] # {} => \A u \in Units : bought'[j][u] = 0
                        /\ Wanted(j)' => attempt'[j] \notin {"none", "failed"}
                        /\ booked'[j] => \E u \in Units : bought'[j][u] > 0
      BY DEF BuysOnce
    <3>1. CASE j = k
      BY <2>1, <2>2, <2>3, <2>4, <3>1 DEF KeysInv, BuysOnce, journal
    <3>2. CASE j # k
      BY <2>1, <2>2, <2>3, <3>2 DEF KeysInv, BuysOnce, journal
    <3>3. QED
      BY <3>1, <3>2
  <2>6. TypeOK'
    BY <1>1, <2>1, <2>2 DEF KeysInv, TypeOK, basket, browser, request, journal
  <2>7. Working'
    BY <1>1, <2>1 DEF KeysInv, Working, Inside, basket, request
  <2>8. Asking'
    <3> SUFFICES ASSUME NEW s \in Requests PROVE AskingAt(pc[s], key[s])'
      BY DEF Asking
    <3>1. pc'[s] = pc[s] /\ key'[s] = key[s] /\ AskingAt(pc[s], key[s]) /\ (pc[s] # "idle" => key[s] \in Keys)
      BY <1>1 DEF KeysInv, Asking, Working, request
    <3>2. QED
      BY <2>1, <2>2, <2>3, <3>1 DEF AskingAt, journal
  <2>9. QED
    BY <2>5, <2>6, <2>7, <2>8 DEF KeysInv
<1>4. ASSUME NEW k \in Keys, MarkUnknown(k) \/ Reconcile(k) PROVE KeysInv'
  <2>1. UNCHANGED <<lease, saleor>>
    BY <1>4 DEF MarkUnknown, Reconcile
  <2>2. /\ attempt' \in [Keys -> Attempts] /\ booked' \in [Keys -> BOOLEAN]
        /\ attempt'[k] \notin {"none", "failed"}
        /\ \A j \in Keys \ {k} : attempt'[j] = attempt[j] /\ booked'[j] = booked[j]
        /\ booked[k] => booked'[k]
        /\ booked'[k] /\ ~booked[k] => \E u \in Units : bought[k][u] > 0
    BY <1>4 DEF MarkUnknown, Reconcile, KeysInv, TypeOK, Attempts
  <2>3. BuysOnce'
    BY <2>1, <2>2 DEF KeysInv, BuysOnce, Wanted, Wants, saleor
  <2>4. TypeOK'
    BY <1>1, <2>1, <2>2 DEF KeysInv, TypeOK, Attempts, basket, browser, request, saleor
  <2>5. Working'
    BY <1>1, <2>1 DEF KeysInv, Working, Inside, basket, request
  <2>6. Asking'
    <3> SUFFICES ASSUME NEW s \in Requests PROVE AskingAt(pc[s], key[s])'
      BY DEF Asking
    <3>1. pc'[s] = pc[s] /\ key'[s] = key[s] /\ AskingAt(pc[s], key[s]) /\ (pc[s] # "idle" => key[s] \in Keys)
      BY <1>1 DEF KeysInv, Asking, Working, request
    <3>2. QED
      BY <2>1, <2>2, <3>1 DEF AskingAt, Wanted, Wants, saleor
  <2>7. QED
    BY <2>3, <2>4, <2>5, <2>6 DEF KeysInv
<1>5. QED
  BY <1>2, <1>3, <1>4

LEMMA KeysInvStep == KeysInv /\ [Next]_vars => KeysInv'
<1> SUFFICES ASSUME KeysInv, [Next]_vars PROVE KeysInv'
  OBVIOUS
<1>1. CASE UNCHANGED vars
  BY <1>1 DEF vars, KeysInv, TypeOK, Working, Inside, BuysOnce, Asking, AskingAt, Wanted, Wants, basket,
     browser, request, journal, saleor
<1>2. ASSUME NEW r \in Requests, Get(r) \/ Post(r) \/ ApiPost(r) PROVE KeysInv'
  BY <1>2, KeysBeginStep DEF Post, ApiPost
<1>3. ASSUME NEW r \in Requests, RequestStep(r) PROVE KeysInv'
  BY <1>3, KeysQuietStep, KeysReadStep, KeysPlaceStep, KeysCreateStep, KeysReceiveStep, KeysRecordStep
     DEF RequestStep
<1>4. QED
  BY <1>1, <1>2, <1>3, KeysCartStep, KeysCrashStep, KeysOthersStep DEF Next

LEMMA KeysInvAlways == Spec => []KeysInv
BY KeysInvInit, KeysInvStep, PTL DEF Spec

\* The types of the two fronts of checkout.
THEOREM StorefrontTypeCorrect == Spec => []TypeOK
<1>1. KeysInv => TypeOK
  BY DEF KeysInv
<1>2. QED
  BY <1>1, KeysInvAlways, PTL

\* Whatever tabs, clients, lost answers, dead workers and reconciliations there
\* are, a key buys nothing twice.
KeyBuysOnce == \A k \in Keys : \A u \in Units : bought[k][u] <= 1

THEOREM KeyAlwaysBuysOnce == Spec => []KeyBuysOnce
<1>1. KeysInv => KeyBuysOnce
  BY DEF KeysInv, BuysOnce, KeyBuysOnce
<1>2. QED
  BY <1>1, KeysInvAlways, PTL

-----------------------------------------------------------------------------
(* Steps that put nothing in, begin no POST, read no cart and ask for nothing *)

Before(step) == step \in {"enter", "place", "create"}
Asked(step) == step \in {"wait", "record"}
Looking(step) == step \in {"check", "cart"}
Settled(step) == step \in {"cart", "enter", "place", "won"}

\* What a request may come to in such a step.
Calm(s) ==
  /\ UnderWay(s)' => UnderWay(s) /\ key'[s] = key[s]
  /\ seen'[s] \subseteq seen[s] /\ (seen'[s] # {} => key'[s] = key[s])
  /\ Before(pc'[s]) => Before(pc[s]) /\ seen'[s] = seen[s]
  /\ Looking(pc'[s]) => Looking(pc[s])
  /\ Asked(pc'[s]) => Asked(pc[s])
  /\ Settled(pc'[s]) /\ booked'[key[s]] =>
       /\ Settled(pc[s]) \/ Asked(pc[s])
       /\ booked[key[s]] \/ \E u \in Units : bought[key[s]][u] > 0
  /\ Asked(pc[s]) \/ pc[s] = "won" =>
       \/ Asked(pc'[s]) \/ pc'[s] = "won" \/ key[s] \in unanswered' \/ cart' = {}
       \/ \A k \in Keys : k = key[s] => ~Wanted(k)'
  /\ Asked(pc[s]) =>
       \/ Asked(pc'[s]) \/ key[s] \in unanswered'
       \/ \A k \in Keys : k = key[s] => booked'[k] \/ ~Wanted(k)'

\* What the orders may come to.
CalmOrders ==
  /\ \A k \in Keys : \A u \in Units :
       /\ Wants(k, u)' => Wants(k, u)
       /\ bought[k][u] > 0 => bought'[k][u] > 0
  /\ \A k \in Keys : booked[k] => booked'[k]
  /\ \A k \in Keys : (\E s \in Requests : key[s] = k /\ Asked(pc'[s])) =>
       \A u \in Units : Wants(k, u) => Wants(k, u)'

CalmStep ==
  /\ UNCHANGED <<front, filled, meant, late, met>>
  /\ cart' \subseteq cart /\ unanswered \subseteq unanswered'
  /\ front = "api" => session' = session
  /\ CalmOrders
  /\ \A s \in Requests : Calm(s)

LEMMA CalmOrdersKept ==
  ASSUME KeysInv, UNCHANGED saleor, \A k \in Keys : booked[k] => booked'[k]
  PROVE  CalmOrders
BY DEF CalmOrders, saleor, Wants

\* A request that stays where it is.
LEMMA CalmHere ==
  ASSUME KeysInv, NEW s \in Requests, pc'[s] = pc[s], key'[s] = key[s], seen'[s] = seen[s],
         \A k \in Keys : k = key[s] /\ booked'[k] => booked[k] \/ \E u \in Units : bought[k][u] > 0
  PROVE  Calm(s)
BY DEF Calm, UnderWay, KeysInv, Working, Settled

\* A request that ends before it has asked for anything.
LEMMA CalmEnd ==
  ASSUME KeysInv, NEW s \in Requests, Done(s),
         \/ ~Asked(pc[s]) /\ pc[s] # "won"
         \/ key[s] \in unanswered'
  PROVE  Calm(s)
BY DoneDoes DEF Calm, UnderWay, Before, Asked, Looking, Settled, KeysInv

LEMMA CalmCart == ASSUME KeysInv, EmptyCart PROVE CalmStep
BY CalmOrdersKept, CalmHere DEF EmptyCart, CalmStep, browser, request, journal

LEMMA CalmGet == ASSUME KeysInv, NEW r \in Requests, Get(r) PROVE CalmStep
<1>1. /\ UNCHANGED <<basket, session, seen, lease, journal, saleor, met, unanswered>>
      /\ pc[r] = "idle" /\ pc'[r] = "issued" /\ seen[r] = {}
      /\ \A s \in Requests \ {r} : pc'[s] = pc[s] /\ key'[s] = key[s] /\ seen'[s] = seen[s]
  BY DEF Get, KeysInv, TypeOK, Working
<1>2. Calm(r)
  BY <1>1 DEF Calm, UnderWay, Before, Asked, Looking, Settled
<1>3. \A s \in Requests : Calm(s)
  BY <1>1, <1>2, CalmHere DEF journal
<1>4. QED
  BY <1>1, <1>3, CalmOrdersKept DEF CalmStep, basket, journal

LEMMA CalmQuiet ==
  ASSUME KeysInv, NEW r \in Requests,
         SaveIssued(r) \/ Check(r) \/ Enter(r) \/ ClearCart(r) \/ SavePopped(r) \/ Crash(r)
  PROVE  CalmStep
<1>1. /\ UNCHANGED <<front, filled, meant, late, journal, saleor, met>>
      /\ cart' \subseteq cart /\ unanswered \subseteq unanswered'
      /\ front = "api" => session' = session
  BY DEF SaveIssued, Check, Enter, ClearCart, SavePopped, Crash, KeysInv, Working, basket, browser
<1>2. Apart(r)
  BY DoneDoes, GotoDoes DEF SaveIssued, Check, Enter, Refuse, ClearCart, SavePopped, Crash, KeysInv, Steps
<1>3. Calm(r)
  <2>1. CASE Crash(r) \/ SaveIssued(r) \/ SavePopped(r)
    BY <2>1, CalmEnd DEF SaveIssued, SavePopped, Crash, Asked
  <2>2. CASE Check(r)
    <3>1. CASE Done(r)
      BY <2>2, <3>1, CalmEnd DEF Check, Asked
    <3>2. CASE Goto(r, "cart") /\ ~booked[key[r]]
      BY <1>1, <2>2, <3>2, GotoDoes DEF Check, Calm, UnderWay, Before, Asked, Looking, Settled, Steps, KeysInv, journal
    <3>3. QED
      BY <2>2, <3>1, <3>2 DEF Check
  <2>3. CASE Enter(r)
    <3>1. CASE Done(r)
      BY <2>3, <3>1, CalmEnd DEF Enter, Asked
    <3>2. CASE Goto(r, "place")
      BY <1>1, <2>3, <3>2, GotoDoes DEF Enter, Calm, UnderWay, Before, Asked, Looking, Settled, Steps, KeysInv, journal
    <3>3. QED
      BY <2>3, <3>1, <3>2 DEF Enter, Refuse
  <2>4. CASE ClearCart(r)
    <3>1. pc[r] = "won" /\ cart' = {} /\ (Done(r) \/ Goto(r, "save"))
      BY <2>4 DEF ClearCart
    <3>2. \/ pc'[r] = "idle" /\ seen'[r] = {}
          \/ pc'[r] = "save" /\ seen'[r] = seen[r] /\ key'[r] = key[r]
      BY <3>1, DoneDoes, GotoDoes DEF KeysInv, Steps
    <3>3. QED
      BY <3>1, <3>2 DEF Calm, UnderWay, Before, Asked, Looking, Settled
  <2>5. QED
    BY <2>1, <2>2, <2>3, <2>4
<1>4. \A s \in Requests : Calm(s)
  BY <1>1, <1>2, <1>3, CalmHere DEF Apart, journal
<1>5. QED
  BY <1>1, <1>4, CalmOrdersKept DEF CalmStep, journal

LEMMA CalmPlace == ASSUME KeysInv, NEW r \in Requests, Place(r) PROVE CalmStep
<1>1. /\ pc[r] = "place" /\ UNCHANGED <<basket, browser, saleor, met, unanswered, booked>>
      /\ Done(r) \/ (booked[key[r]] /\ Goto(r, "won")) \/ Goto(r, "create")
  BY DEF Place, Refuse, journal
<1>2. Apart(r)
  BY <1>1, DoneDoes, GotoDoes DEF KeysInv, Steps
<1>3. Calm(r)
  <2>1. CASE Done(r)
    BY <1>1, <2>1, CalmEnd DEF Asked
  <2>2. CASE (booked[key[r]] /\ Goto(r, "won")) \/ Goto(r, "create")
    <3>1. /\ pc'[r] \in {"won", "create"} /\ key'[r] = key[r] /\ seen'[r] = seen[r]
          /\ pc'[r] = "won" => booked[key[r]]
      BY <2>2, GotoDoes DEF KeysInv, Steps
    <3>2. QED
      BY <1>1, <3>1 DEF Calm, UnderWay, Before, Asked, Looking, Settled
  <2>3. QED
    BY <1>1, <2>1, <2>2
<1>4. \A s \in Requests : Calm(s)
  BY <1>1, <1>2, <1>3, CalmHere DEF Apart
<1>5. QED
  BY <1>1, <1>4, CalmOrdersKept DEF CalmStep, basket, browser

LEMMA CalmReceive == ASSUME KeysInv, NEW r \in Requests, Receive(r) PROVE CalmStep
<1>1. PICK k \in Keys : k = key[r]
  BY DEF Receive, KeysInv, Working
<1>2. /\ pc[r] = "wait" /\ UNCHANGED <<basket, browser, booked, bought, met>>
      /\ unanswered' \in {unanswered, unanswered \cup {k}}
      /\ \/ Goto(r, "record") /\ UNCHANGED asked
         \/ Done(r) /\ asked[k] # {} /\ asked' = [asked EXCEPT ![k] = {}]
         \/ Done(r) /\ k \in unanswered' /\ UNCHANGED asked
  BY <1>1 DEF Receive, Refuse
<1>3. Apart(r)
  BY <1>2, DoneDoes, GotoDoes DEF KeysInv, Steps
<1>4. \A s \in Requests \ {r} : ~Asked(pc[s])
  BY <1>2 DEF KeysInv, Working, Inside, Asked
<1>5. /\ asked' \in [Keys -> SUBSET Units]
      /\ \A j \in Keys : asked'[j] \subseteq asked[j]
      /\ \A j \in Keys \ {k} : asked'[j] = asked[j]
      /\ asked'[k] = asked[k] \/ (Done(r) /\ ~Wanted(k)')
  <2>1. asked \in [Keys -> SUBSET Units] /\ bought \in [Keys -> [Units -> Nat]]
    BY DEF KeysInv, TypeOK
  <2>2. /\ asked' \in [Keys -> SUBSET Units]
        /\ \A j \in Keys : asked'[j] \subseteq asked[j]
        /\ \A j \in Keys \ {k} : asked'[j] = asked[j]
        /\ asked'[k] = asked[k] \/ (Done(r) /\ asked[k] # {} /\ asked'[k] = {})
    BY <1>2, <2>1
  <2>3. asked[k] # {} => \A u \in Units : bought'[k][u] = 0
    BY <1>2 DEF KeysInv, BuysOnce
  <2>4. QED
    BY <2>2, <2>3 DEF Wanted, Wants
<1>6. /\ Calm(r) /\ pc'[r] \in {"idle", "record"} /\ (Done(r) => pc'[r] = "idle")
  <2>1. CASE Goto(r, "record")
    <3>1. pc'[r] = "record" /\ key'[r] = key[r] /\ seen'[r] = seen[r]
      BY <2>1, GotoDoes DEF KeysInv, Steps
    <3>2. ~Done(r)
      BY <3>1, DoneDoes DEF KeysInv
    <3>3. QED
      BY <1>2, <3>1, <3>2 DEF Calm, UnderWay, Before, Asked, Looking, Settled
  <2>2. CASE Done(r) /\ (k \in unanswered' \/ ~Wanted(k)')
    <3>1. pc'[r] = "idle" /\ seen'[r] = {}
      BY <2>2, DoneDoes DEF KeysInv
    <3>2. QED
      BY <1>1, <1>2, <2>2, <3>1 DEF Calm, UnderWay, Before, Asked, Looking, Settled
  <2>3. QED
    BY <1>2, <1>5, <2>1, <2>2 DEF KeysInv, TypeOK, BuysOnce, Wanted, Wants
<1>7. \A s \in Requests : Calm(s)
  BY <1>2, <1>3, <1>6, CalmHere DEF Apart
<1>8. CalmOrders
  BY <1>1, <1>2, <1>3, <1>4, <1>5, <1>6 DEF CalmOrders, Wants, Apart, Asked
<1>9. QED
  BY <1>2, <1>7, <1>8 DEF CalmStep, basket, browser

LEMMA CalmRecord == ASSUME KeysInv, NEW r \in Requests, Record(r) PROVE CalmStep
<1>1. PICK k \in Keys : k = key[r]
  BY DEF Record, KeysInv, Working
<1>2. /\ pc[r] = "record" /\ UNCHANGED <<basket, browser, saleor, met>>
      /\ unanswered \subseteq unanswered'
      /\ \/ Done(r) /\ k \in unanswered' /\ UNCHANGED booked
         \/ Goto(r, "won") /\ booked' = [booked EXCEPT ![k] = TRUE]
  BY <1>1 DEF Record, Refuse, journal
<1>3. Apart(r)
  BY <1>2, DoneDoes, GotoDoes DEF KeysInv, Steps
<1>4. \E u \in Units : bought[k][u] > 0
  BY <1>1, <1>2 DEF KeysInv, Asking, AskingAt, Wanted, Wants
<1>5. booked' \in [Keys -> BOOLEAN] /\ \A j \in Keys : (booked[j] => booked'[j]) /\ (j # k => booked'[j] = booked[j])
  BY <1>2 DEF KeysInv, TypeOK
<1>6. Calm(r)
  <2>1. CASE Done(r) /\ k \in unanswered'
    BY <1>1, <2>1, CalmEnd
  <2>2. CASE Goto(r, "won") /\ booked' = [booked EXCEPT ![k] = TRUE]
    <3>1. pc'[r] = "won" /\ key'[r] = k /\ seen'[r] = seen[r] /\ booked'[k]
      BY <1>1, <2>2, GotoDoes DEF KeysInv, TypeOK, Steps
    <3>2. QED
      BY <1>1, <1>2, <1>4, <3>1 DEF Calm, UnderWay, Before, Asked, Looking, Settled
  <2>3. QED
    BY <1>2, <2>1, <2>2
<1>7. \A s \in Requests : Calm(s)
  BY <1>3, <1>4, <1>5, <1>6, CalmHere DEF Apart
<1>8. QED
  BY <1>2, <1>5, <1>7, CalmOrdersKept DEF CalmStep, basket, browser

LEMMA CalmOthers ==
  ASSUME KeysInv, Expire \/ \E k \in Keys : SaleorBuys(k) \/ MarkUnknown(k) \/ Reconcile(k)
  PROVE  CalmStep
<1>1. UNCHANGED <<basket, browser, request, met, unanswered>>
  BY DEF Expire, SaleorBuys, MarkUnknown, Reconcile
<1>2. CalmOrders /\ \A k \in Keys : booked'[k] => booked[k] \/ \E u \in Units : bought[k][u] > 0
  <2>1. CASE Expire \/ \E k \in Keys : MarkUnknown(k)
    BY <2>1, CalmOrdersKept DEF Expire, MarkUnknown, journal
  <2>2. ASSUME NEW k \in Keys, Reconcile(k) PROVE CalmOrders /\ \A j \in Keys : booked'[j] => booked[j] \/ \E u \in Units : bought[j][u] > 0
    BY <2>2, CalmOrdersKept DEF Reconcile, KeysInv, TypeOK
  <2>3. ASSUME NEW k \in Keys, SaleorBuys(k) PROVE CalmOrders /\ booked' = booked
    <3>1. /\ asked[k] # {} /\ \A j \in Keys : \A u \in Units : Wants(j, u)' = Wants(j, u)
          /\ \A j \in Keys \ {k} : bought'[j] = bought[j]
      BY <2>3, BuysDoes DEF KeysInv
    <3>2. \A u \in Units : bought[k][u] = 0
      BY <3>1 DEF KeysInv, BuysOnce
    <3>3. \A j \in Keys : \A u \in Units : bought[j][u] > 0 => bought'[j][u] > 0
      BY <3>1, <3>2
    <3>4. booked' = booked
      BY <2>3 DEF SaleorBuys, journal
    <3>5. QED
      BY <3>1, <3>3, <3>4 DEF CalmOrders
  <2>4. QED
    BY <2>1, <2>2, <2>3
<1>3. \A s \in Requests : Calm(s)
  BY <1>1, <1>2, CalmHere DEF request
<1>4. QED
  BY <1>1, <1>2, <1>3 DEF CalmStep, basket, browser

-----------------------------------------------------------------------------
(* Why a unit is bought twice *)

\* Units are read and bought that were put in, and two POSTs that are under way
\* have met.
Met ==
  /\ \A k \in Keys : \A u \in Units : Wants(k, u) => u <= filled
  /\ \A r \in Requests : \A u \in seen[r] : u <= filled
  /\ \A r, s \in Requests :
       UnderWay(r) /\ UnderWay(s) /\ key[r] # key[s] => {key[r], key[s]} \in met

\* Of what one key has bought or asked for, the cart holds something only while its
\* POST is at it; and what another POST has read, it read in its time.
Excused(k, j) == {k, j} \cap unanswered # {} \/ {k, j} \in met

Reasons ==
  /\ \A k \in Keys : \A u \in cart :
       Wants(k, u) =>
         \/ k \in unanswered
         \/ \E r \in Requests : key[r] = k /\ (Asked(pc[r]) \/ pc[r] = "won")
  /\ \A r \in Requests : \A k \in Keys : \A u \in seen[r] :
       Before(pc[r]) /\ Wants(k, u) /\ k # key[r] => Excused(k, key[r])
  /\ \A j, k \in Keys : \A u \in Units :
       Wants(j, u) /\ Wants(k, u) /\ j # k => Excused(j, k)

ReasonsInv == KeysInv /\ Met /\ Reasons

LEMMA ReasonsInvInit == Init => Met /\ Reasons
BY ConstantsTyped DEF Init, Met, Reasons, Wants, UnderWay, Before, Asked, Units

LEMMA ReasonsCalmStep ==
  ASSUME ReasonsInv, CalmStep
  PROVE  Met' /\ Reasons'
<1>1. /\ UNCHANGED <<filled, met>> /\ cart' \subseteq cart /\ unanswered \subseteq unanswered'
      /\ \A k \in Keys : \A u \in Units : Wants(k, u)' => Wants(k, u)
      /\ cart \subseteq Units
  BY ConstantsTyped DEF CalmStep, CalmOrders, ReasonsInv, KeysInv, TypeOK, Units
<1>2. \A r \in Requests : pc[r] # "idle" => key[r] \in Keys
  BY DEF ReasonsInv, KeysInv, Working
<1>3. Met'
  <2>1. ASSUME NEW r \in Requests, NEW s \in Requests, UnderWay(r)', UnderWay(s)', key'[r] # key'[s]
        PROVE  {key'[r], key'[s]} \in met'
    BY <1>1, <2>1 DEF CalmStep, Calm, ReasonsInv, Met
  <2>2. \A r \in Requests : seen'[r] \subseteq seen[r]
    BY DEF CalmStep, Calm
  <2>3. QED
    BY <1>1, <2>1, <2>2 DEF ReasonsInv, Met
<1>4. ASSUME NEW k \in Keys, NEW u \in cart', Wants(k, u)'
      PROVE  \/ k \in unanswered'
             \/ \E r \in Requests : key'[r] = k /\ (Asked(pc'[r]) \/ pc'[r] = "won")
  <2>1. u \in cart /\ u \in Units /\ Wants(k, u)
    BY <1>1, <1>4
  <2>2. CASE k \in unanswered
    BY <1>1, <2>2
  <2>3. ASSUME NEW r \in Requests, key[r] = k, Asked(pc[r]) \/ pc[r] = "won"
        PROVE  k \in unanswered' \/ (key'[r] = k /\ (Asked(pc'[r]) \/ pc'[r] = "won"))
    <3>1. Wanted(k)' /\ cart' # {}
      BY <1>4, <2>1 DEF Wanted
    <3>2. Asked(pc'[r]) \/ pc'[r] = "won" \/ k \in unanswered'
      BY <2>3, <3>1 DEF CalmStep, Calm
    <3>3. Asked(pc'[r]) \/ pc'[r] = "won" => key'[r] = key[r]
      BY DEF CalmStep, Calm, UnderWay, Asked
    <3>4. QED
      BY <2>3, <3>2, <3>3
  <2>4. QED
    BY <2>1, <2>2, <2>3 DEF ReasonsInv, Reasons
<1>5. ASSUME NEW r \in Requests, NEW k \in Keys, NEW u \in seen'[r],
             Before(pc'[r]), Wants(k, u)', k # key'[r]
      PROVE  Excused(k, key[r])' /\ key'[r] = key[r]
  <2>1. Before(pc[r]) /\ seen'[r] = seen[r] /\ key'[r] = key[r]
    BY <1>5 DEF CalmStep, Calm, UnderWay, Before
  <2>2. u \in Units
    BY <2>1 DEF ReasonsInv, KeysInv, TypeOK
  <2>3. Excused(k, key[r])
    BY <1>1, <1>5, <2>1, <2>2 DEF ReasonsInv, Reasons
  <2>4. QED
    BY <1>1, <2>1, <2>3 DEF Excused
<1>6. \A j, k \in Keys : \A u \in Units : Wants(j, u)' /\ Wants(k, u)' /\ j # k => Excused(j, k)'
  BY <1>1 DEF ReasonsInv, Reasons, Excused
<1>7. QED
  BY <1>3, <1>4, <1>5, <1>6 DEF Reasons, Excused

LEMMA ReasonsFillStep ==
  ASSUME ReasonsInv, FillCart
  PROVE  Met' /\ Reasons'
<1>1. /\ UNCHANGED <<request, saleor, met, unanswered>> /\ cart' = cart \cup {filled + 1}
      /\ filled' = filled + 1 /\ filled \in Nat
  BY DEF FillCart, ReasonsInv, KeysInv, TypeOK
<1>2. Units \subseteq Nat /\ \A k \in Keys : \A u \in Units : Wants(k, u) => u <= filled
  BY DEF ReasonsInv, Met, Units
<1>3. \A r \in Requests : seen[r] \subseteq Units
  BY DEF ReasonsInv, KeysInv, TypeOK
<1>4. Met'
  <2>1. \A u \in Units : u <= filled => u <= filled'
    BY <1>1, <1>2
  <2>2. \A k \in Keys : \A u \in Units : Wants(k, u)' => u <= filled'
    BY <1>1, <1>2, <2>1 DEF Wants, saleor
  <2>3. \A r \in Requests : \A u \in seen'[r] : u <= filled'
    BY <1>1, <1>3, <2>1 DEF ReasonsInv, Met, request
  <2>4. QED
    BY <1>1, <2>2, <2>3 DEF ReasonsInv, Met, UnderWay, request
<1>5. \A k \in Keys : filled + 1 \in Units => ~Wants(k, filled + 1)
  BY <1>1, <1>2
<1>6. filled + 1 \in Units
  BY <1>1, ConstantsTyped DEF FillCart, ReasonsInv, KeysInv, TypeOK, Units
<1>7. Reasons'
  BY <1>1, <1>5, <1>6 DEF ReasonsInv, Reasons, Excused, Before, Asked, Wants, request, saleor
<1>8. QED
  BY <1>4, <1>7

LEMMA ReasonsSubmitStep ==
  ASSUME ReasonsInv, NEW r \in Requests, Submit(r)
  PROVE  Met' /\ Reasons'
<1>1. /\ UNCHANGED <<basket, seen, saleor, unanswered>> /\ met \subseteq met'
      /\ pc[r] = "idle" /\ pc'[r] = "check" /\ key'[r] = session /\ session \in Keys
      /\ \A s \in Requests \ {r} : pc'[s] = pc[s] /\ key'[s] = key[s]
      /\ \A s \in Requests : UnderWay(s) => {session, key[s]} \in met'
  BY DEF Submit, ReasonsInv, KeysInv, TypeOK
<1>2. Met'
  <2>1. \A s, t \in Requests \ {r} :
          UnderWay(s)' /\ UnderWay(t)' /\ key'[s] # key'[t] => {key'[s], key'[t]} \in met'
    BY <1>1 DEF ReasonsInv, Met, UnderWay
  <2>2. \A s \in Requests \ {r} : UnderWay(s)' => {key'[r], key'[s]} \in met'
    BY <1>1 DEF UnderWay
  <2>3. \A s \in Requests \ {r} : {key'[r], key'[s]} = {key'[s], key'[r]}
    OBVIOUS
  <2>4. \A s, t \in Requests :
          UnderWay(s)' /\ UnderWay(t)' /\ key'[s] # key'[t] => {key'[s], key'[t]} \in met'
    BY <2>1, <2>2, <2>3
  <2>5. QED
    BY <1>1, <2>4 DEF ReasonsInv, Met, Wants, basket, saleor
<1>3. Reasons'
  BY <1>1 DEF ReasonsInv, Reasons, Excused, Before, Asked, Wants, basket, saleor
<1>4. QED
  BY <1>2, <1>3

LEMMA ReasonsReadStep ==
  ASSUME ReasonsInv, NEW r \in Requests, ReadCart(r)
  PROVE  Met' /\ Reasons'
<1>1. /\ UNCHANGED <<basket, key, saleor, met, unanswered>>
      /\ pc[r] = "cart" /\ pc'[r] = "enter" /\ seen'[r] = cart /\ key[r] \in Keys
      /\ \A s \in Requests \ {r} : pc'[s] = pc[s] /\ seen'[s] = seen[s]
  BY DEF ReadCart, ReasonsInv, KeysInv, TypeOK, Working
<1>2. cart \subseteq Units /\ \A u \in cart : u <= filled
  BY ConstantsTyped DEF ReasonsInv, KeysInv, TypeOK, Units
<1>3. Met'
  BY <1>1, <1>2 DEF ReasonsInv, Met, UnderWay, Wants, basket, saleor
<1>4. ASSUME NEW k \in Keys, NEW u \in cart, Wants(k, u), k # key[r]
      PROVE  Excused(k, key[r])
  <2>1. CASE k \in unanswered
    BY <2>1 DEF Excused
  <2>2. ASSUME NEW s \in Requests, key[s] = k, Asked(pc[s]) \/ pc[s] = "won"
        PROVE  Excused(k, key[r])
    <3>1. UnderWay(s) /\ UnderWay(r)
      BY <1>1, <2>2 DEF UnderWay, Asked
    <3>2. {key[s], key[r]} \in met
      BY <1>4, <2>2, <3>1 DEF ReasonsInv, Met
    <3>3. QED
      BY <2>2, <3>2 DEF Excused
  <2>3. QED
    BY <1>4, <2>1, <2>2 DEF ReasonsInv, Reasons
<1>5. Reasons'
  <2>1. \A k \in Keys : \A u \in Units : Wants(k, u)' = Wants(k, u)
    BY <1>1 DEF Wants, saleor
  <2>2. \A j, k \in Keys : Excused(j, k)' = Excused(j, k)
    BY <1>1 DEF Excused
  <2>3. \A s \in Requests : Before(pc[s]) => key[s] \in Keys
    BY DEF Before, ReasonsInv, KeysInv, Working
  <2>4. \A s \in Requests : \A k \in Keys : \A u \in seen'[s] :
          Before(pc'[s]) /\ Wants(k, u)' /\ k # key'[s] => Excused(k, key[s])'
    <3> SUFFICES ASSUME NEW s \in Requests, NEW k \in Keys, NEW u \in seen'[s],
                        Before(pc'[s]), Wants(k, u)', k # key'[s]
                 PROVE  Excused(k, key[s])'
      OBVIOUS
    <3>1. CASE s = r
      BY <1>1, <1>2, <1>4, <2>1, <2>2, <3>1
    <3>2. CASE s # r
      <4>1. pc'[s] = pc[s] /\ seen'[s] = seen[s] /\ key'[s] = key[s] /\ u \in Units
        BY <1>1, <3>2 DEF ReasonsInv, KeysInv, TypeOK
      <4>2. QED
        BY <2>1, <2>2, <2>3, <4>1 DEF ReasonsInv, Reasons
    <3>3. QED
      BY <3>1, <3>2
  <2>5. \A j, k \in Keys : \A u \in Units : Wants(j, u)' /\ Wants(k, u)' /\ j # k => Excused(j, k)'
    BY <2>1, <2>2 DEF ReasonsInv, Reasons
  <2>6. \A k \in Keys : \A u \in cart' : Wants(k, u)' =>
          \/ k \in unanswered'
          \/ \E s \in Requests : key'[s] = k /\ (Asked(pc'[s]) \/ pc'[s] = "won")
    BY <1>1, <1>2, <2>1 DEF ReasonsInv, Reasons, Asked, basket
  <2>7. QED
    BY <2>4, <2>5, <2>6 DEF Reasons
<1>6. QED
  BY <1>3, <1>5

\* What making a checkout comes to.
LEMMA CreateDoes ==
  ASSUME KeysInv, NEW r \in Requests, Create(r)
  PROVE  \/ CalmStep
         \/ /\ UNCHANGED <<basket, browser, booked, bought, met, unanswered>>
            /\ pc[r] = "create" /\ pc'[r] = "wait" /\ key' = key /\ seen' = seen /\ key[r] \in Keys
            /\ seen[r] \subseteq Units /\ ~Wanted(key[r])
            /\ \A s \in Requests \ {r} : pc'[s] = pc[s] /\ ~Inside(pc[s])
            /\ asked'[key[r]] = seen[r] /\ \A j \in Keys \ {key[r]} : asked'[j] = asked[j]
<1>1. /\ pc[r] = "create" /\ key[r] \in Keys /\ seen[r] \subseteq Units
      /\ UNCHANGED <<basket, browser, booked, bought, met, unanswered>>
      /\ ~Wanted(key[r])
  BY DEF Create, KeysInv, TypeOK, Working, Asking, AskingAt
<1>2. CASE Done(r) /\ UNCHANGED asked
  <2>1. Calm(r)
    BY <1>1, <1>2, CalmEnd DEF Asked
  <2>2. \A s \in Requests : Calm(s)
    BY <1>1, <1>2, <2>1, CalmHere, DoneDoes DEF Apart, KeysInv
  <2>3. QED
    BY <1>1, <1>2, <2>2, CalmOrdersKept DEF CalmStep, basket, browser, saleor
<1>3. CASE Goto(r, "wait") /\ asked' = [asked EXCEPT ![key[r]] = seen[r]]
  BY <1>1, <1>3, GotoDoes DEF KeysInv, TypeOK, Working, Inside, Apart, Steps
<1>4. QED
  BY <1>2, <1>3 DEF Create, Refuse

LEMMA ReasonsCreateStep ==
  ASSUME ReasonsInv, NEW r \in Requests, Create(r)
  PROVE  Met' /\ Reasons'
<1>1. CASE CalmStep
  BY <1>1, ReasonsCalmStep
<1>2. CASE /\ UNCHANGED <<basket, browser, booked, bought, met, unanswered>>
           /\ pc[r] = "create" /\ pc'[r] = "wait" /\ key' = key /\ seen' = seen /\ key[r] \in Keys
           /\ seen[r] \subseteq Units /\ ~Wanted(key[r])
           /\ \A s \in Requests \ {r} : pc'[s] = pc[s] /\ ~Inside(pc[s])
           /\ asked'[key[r]] = seen[r] /\ \A j \in Keys \ {key[r]} : asked'[j] = asked[j]
  <2>1. \A j \in Keys : \A u \in Units :
          Wants(j, u)' <=> Wants(j, u) \/ (j = key[r] /\ u \in seen[r])
    BY <1>2 DEF Wants, Wanted
  <2>2. Met'
    <3>1. \A k \in Keys : \A u \in Units : Wants(k, u)' => u <= filled'
      BY <1>2, <2>1 DEF ReasonsInv, Met, basket
    <3>2. \A s, t \in Requests : UnderWay(s)' /\ UnderWay(t)' => UnderWay(s) /\ UnderWay(t)
      BY <1>2 DEF UnderWay
    <3>3. QED
      BY <1>2, <3>1, <3>2 DEF ReasonsInv, Met, basket
  <2>3. \A j, k \in Keys : Excused(j, k)' = Excused(j, k) /\ Excused(j, k) = Excused(k, j)
    <3>1. \A j, k \in Keys : {j, k} = {k, j}
      OBVIOUS
    <3>2. QED
      BY <1>2, <3>1 DEF Excused
  \* Another that read one of these units met this one.
  <2>4. ASSUME NEW s \in Requests \ {r}, NEW k \in Keys, NEW u \in seen'[s], Before(pc'[s]),
               Wants(k, u)', k # key'[s]
        PROVE  Excused(k, key[s])'
    <3>1. /\ pc'[s] = pc[s] /\ seen'[s] = seen[s] /\ key'[s] = key[s] /\ key[s] \in Keys /\ u \in Units
      BY <1>2, <2>4 DEF ReasonsInv, KeysInv, TypeOK, Working, Before
    <3>2. CASE Wants(k, u)
      BY <2>3, <2>4, <3>1, <3>2 DEF ReasonsInv, Reasons
    <3>3. CASE k = key[r]
      <4>1. UnderWay(r) /\ UnderWay(s)
        BY <1>2, <2>4, <3>1 DEF UnderWay, Before
      <4>2. {key[r], key[s]} \in met
        BY <2>4, <3>1, <3>3, <4>1 DEF ReasonsInv, Met
      <4>3. QED
        BY <2>3, <3>1, <3>3, <4>2 DEF Excused
    <3>4. QED
      BY <2>1, <2>4, <3>1, <3>2, <3>3
  <2>5. ASSUME NEW j \in Keys, NEW k \in Keys, NEW u \in Units, Wants(j, u)', Wants(k, u)', j # k
        PROVE  Excused(j, k)'
    <3>1. CASE Wants(j, u) /\ Wants(k, u)
      BY <2>3, <2>5, <3>1 DEF ReasonsInv, Reasons
    <3>2. CASE j = key[r] /\ u \in seen[r] /\ Wants(k, u)
      BY <1>2, <2>3, <2>5, <3>2 DEF ReasonsInv, Reasons, Before
    <3>3. CASE k = key[r] /\ u \in seen[r] /\ Wants(j, u)
      BY <1>2, <2>3, <2>5, <3>3 DEF ReasonsInv, Reasons, Before
    <3>4. QED
      BY <2>1, <2>5, <3>1, <3>2, <3>3
  <2>6. ASSUME NEW k \in Keys, NEW u \in cart', Wants(k, u)'
        PROVE  \/ k \in unanswered'
               \/ \E s \in Requests : key'[s] = k /\ (Asked(pc'[s]) \/ pc'[s] = "won")
    <3>1. u \in cart /\ u \in Units
      BY <1>2, ConstantsTyped DEF basket, ReasonsInv, KeysInv, TypeOK, Units
    <3>2. CASE k = key[r]
      BY <1>2, <3>2 DEF Asked
    <3>3. CASE k # key[r]
      <4>1. Wants(k, u)
        BY <2>1, <2>6, <3>1, <3>3
      <4>2. QED
        BY <1>2, <3>1, <4>1 DEF ReasonsInv, Reasons, Asked
    <3>4. QED
      BY <3>2, <3>3
  <2>7. Reasons'
    <3>1. ~Before(pc'[r])
      BY <1>2 DEF Before
    <3>2. QED
      BY <2>4, <2>5, <2>6, <3>1 DEF Reasons
  <2>8. QED
    BY <2>2, <2>7
<1>3. QED
  BY <1>1, <1>2, CreateDoes DEF ReasonsInv

\* Every step is calm, or one of four that are not.
LEMMA StepsAre ==
  ASSUME KeysInv, [Next]_vars
  PROVE  \/ CalmStep \/ FillCart
         \/ \E r \in Requests : Submit(r) /\ (front = "api" => cart # {})
         \/ \E r \in Requests : ReadCart(r) \/ Create(r)
<1>1. CASE UNCHANGED vars
  <2>1. UNCHANGED <<basket, browser, request, booked, saleor, met, unanswered>>
    BY <1>1 DEF vars, journal
  <2>2. CalmOrders /\ \A s \in Requests : Calm(s)
    BY <2>1, CalmOrdersKept, CalmHere DEF request
  <2>3. QED
    BY <2>1, <2>2 DEF CalmStep, basket, browser
<1>2. ASSUME NEW r \in Requests, Get(r) \/ Post(r) \/ ApiPost(r)
      PROVE  CalmStep \/ (Submit(r) /\ (front = "api" => cart # {}))
  BY <1>2, CalmGet DEF Post, ApiPost
<1>3. ASSUME NEW r \in Requests, RequestStep(r) \/ Crash(r)
      PROVE  CalmStep \/ ReadCart(r) \/ Create(r)
  BY <1>3, CalmQuiet, CalmPlace, CalmReceive, CalmRecord DEF RequestStep
<1>4. QED
  BY <1>1, <1>2, <1>3, CalmCart, CalmOthers DEF Next

LEMMA ReasonsInvStep == ReasonsInv /\ [Next]_vars => ReasonsInv'
<1> SUFFICES ASSUME ReasonsInv, [Next]_vars PROVE Met' /\ Reasons'
  BY KeysInvStep DEF ReasonsInv
<1>1. QED
  BY StepsAre, ReasonsCalmStep, ReasonsFillStep, ReasonsSubmitStep, ReasonsReadStep, ReasonsCreateStep
     DEF ReasonsInv

-----------------------------------------------------------------------------
(* Which key a client buys with *)

\* An API client has one key for what is in its cart; what its POSTs read and buy
\* was meant for their key, or put in while one of them was under way.
Client ==
  /\ \A u \in cart : session \in Keys /\ meant[u] = session
  /\ \A r \in Requests : Looking(pc[r]) =>
       \A u \in cart : u \in late \/ meant[u] = key[r]
  /\ \A r \in Requests : \A u \in seen[r] : u \in late \/ meant[u] = key[r]
  /\ \A k \in Keys : \A u \in Units : Wants(k, u) => u \in late \/ meant[u] = k

LEMMA ClientStep ==
  ASSUME ReasonsInv, front = "api", Client, [Next]_vars
  PROVE  Client'
<1> USE DEF ReasonsInv
<1>1. CASE CalmStep
  <2>1. /\ UNCHANGED <<meant, late, session>> /\ cart' \subseteq cart
        /\ \A k \in Keys : \A u \in Units : Wants(k, u)' => Wants(k, u)
    BY <1>1 DEF CalmStep, CalmOrders
  <2>2. \A s \in Requests :
          /\ seen'[s] \subseteq seen[s] /\ (seen'[s] # {} => key'[s] = key[s])
          /\ Looking(pc'[s]) => Looking(pc[s]) /\ key'[s] = key[s]
    BY <1>1 DEF CalmStep, Calm, Looking, UnderWay
  <2>3. QED
    BY <2>1, <2>2 DEF Client
<1>2. CASE FillCart
  <2>1. /\ UNCHANGED <<front, request, saleor>> /\ cart' = cart \cup {filled + 1}
        /\ filled \in Nat /\ filled + 1 \in Units
        /\ IF cart = {} THEN \E k \in fresh : session' = k ELSE session' = session
        /\ late \subseteq late'
        /\ meant' = [meant EXCEPT ![filled + 1] = session']
        /\ (\E r \in Requests : UnderWay(r)) => late' = late \cup {filled + 1}
    BY <1>2, ConstantsTyped DEF FillCart, KeysInv, TypeOK, browser, Units
  <2>2. /\ meant'[filled + 1] = session'
        /\ \A u \in Units : u <= filled => meant'[u] = meant[u]
    BY <2>1 DEF KeysInv, TypeOK, Units
  <2>3. \A u \in cart : u \in Units /\ u <= filled
    BY ConstantsTyped DEF KeysInv, TypeOK, Units
  <2>4. session' \in Keys /\ (cart # {} => session' = session)
    BY <2>1 DEF Client, KeysInv, TypeOK
  <2>5. \A u \in cart' : session' \in Keys /\ meant'[u] = session'
    BY <2>1, <2>2, <2>3, <2>4 DEF Client
  <2>6. \A r \in Requests : Looking(pc'[r]) => \A u \in cart' : u \in late' \/ meant'[u] = key'[r]
    <3> SUFFICES ASSUME NEW r \in Requests, Looking(pc[r]), NEW u \in cart'
                 PROVE  u \in late' \/ meant'[u] = key[r]
      BY <2>1 DEF request
    <3>1. UnderWay(r)
      BY DEF UnderWay, Looking
    <3>2. QED
      BY <2>1, <2>2, <2>3, <3>1 DEF Client
  <2>7. \A r \in Requests : \A u \in seen'[r] : u \in late' \/ meant'[u] = key'[r]
    BY <2>1, <2>2 DEF Client, Met, KeysInv, TypeOK, request
  <2>8. \A k \in Keys : \A u \in Units : Wants(k, u)' => u \in late' \/ meant'[u] = k
    BY <2>1, <2>2 DEF Client, Met, Wants, saleor
  <2>9. QED
    BY <2>5, <2>6, <2>7, <2>8 DEF Client
<1>3. ASSUME NEW r \in Requests, Submit(r) PROVE Client'
  <2>1. /\ UNCHANGED <<basket, browser, seen, saleor>> /\ pc'[r] = "check" /\ key'[r] = session
        /\ seen[r] = {}
        /\ \A s \in Requests \ {r} : pc'[s] = pc[s] /\ key'[s] = key[s]
    BY <1>3 DEF Submit, KeysInv, TypeOK, Working
  <2>2. \A s \in Requests : Looking(pc'[s]) => \A u \in cart' : u \in late' \/ meant'[u] = key'[s]
    BY <2>1 DEF Client, basket, browser
  <2>3. \A s \in Requests : \A u \in seen'[s] : u \in late' \/ meant'[u] = key'[s]
    BY <2>1 DEF Client, basket
  <2>4. QED
    BY <2>1, <2>2, <2>3 DEF Client, Wants, basket, browser, saleor
<1>4. ASSUME NEW r \in Requests, ReadCart(r) PROVE Client'
  <2>1. /\ UNCHANGED <<basket, browser, key, saleor>> /\ pc[r] = "cart" /\ pc'[r] = "enter"
        /\ seen'[r] = cart
        /\ \A s \in Requests \ {r} : pc'[s] = pc[s] /\ seen'[s] = seen[s]
    BY <1>4 DEF ReadCart, KeysInv, TypeOK
  <2>2. \A s \in Requests : \A u \in seen'[s] : u \in late' \/ meant'[u] = key'[s]
    BY <2>1 DEF Client, Looking, basket
  <2>3. \A s \in Requests : Looking(pc'[s]) => \A u \in cart' : u \in late' \/ meant'[u] = key'[s]
    BY <2>1 DEF Client, Looking, basket
  <2>4. QED
    BY <2>1, <2>2, <2>3 DEF Client, Wants, basket, browser, saleor
<1>5. ASSUME NEW r \in Requests, Create(r) PROVE Client'
  <2>1. CASE /\ UNCHANGED <<basket, browser, booked, bought, met, unanswered>>
             /\ pc[r] = "create" /\ pc'[r] = "wait" /\ key' = key /\ seen' = seen /\ key[r] \in Keys
             /\ seen[r] \subseteq Units /\ ~Wanted(key[r])
             /\ \A s \in Requests \ {r} : pc'[s] = pc[s] /\ ~Inside(pc[s])
             /\ asked'[key[r]] = seen[r] /\ \A j \in Keys \ {key[r]} : asked'[j] = asked[j]
    <3>1. \A k \in Keys : \A u \in Units : Wants(k, u)' => Wants(k, u) \/ (k = key[r] /\ u \in seen[r])
      BY <2>1 DEF Wants
    <3>2. \A k \in Keys : \A u \in Units : Wants(k, u)' => u \in late' \/ meant'[u] = k
      BY <2>1, <3>1 DEF Client, basket
    <3>3. \A s \in Requests : Looking(pc'[s]) => Looking(pc[s])
      BY <2>1 DEF Looking
    <3>4. QED
      BY <2>1, <3>2, <3>3 DEF Client, basket, browser
  <2>2. QED
    BY <1>1, <1>5, <2>1, CreateDoes
<1>6. QED
  BY <1>1, <1>2, <1>3, <1>4, <1>5, StepsAre

BuyersInv == ReasonsInv /\ (front = "api" => Client)

LEMMA BuyersInvAlways == Spec => []BuyersInv
<1>1. Init => BuyersInv
  BY KeysInvInit, ReasonsInvInit DEF Init, BuyersInv, ReasonsInv, Client, Wants, Looking
<1>2. BuyersInv /\ [Next]_vars => BuyersInv'
  <2> SUFFICES ASSUME BuyersInv, [Next]_vars PROVE BuyersInv'
    OBVIOUS
  <2>1. ReasonsInv' /\ (front = "api" => Client')
    BY ReasonsInvStep, ClientStep DEF BuyersInv
  <2>2. front' = front
    BY StepsAre, CreateDoes DEF BuyersInv, ReasonsInv, CalmStep, FillCart, Submit, ReadCart, basket
  <2>3. QED
    BY <2>1, <2>2 DEF BuyersInv
<1>3. QED
  BY <1>1, <1>2, PTL DEF Spec

\* Whatever tabs and clients there are and whatever goes wrong, a unit is bought
\* twice only for a reason: its POSTs overlapped, or one of them left a purchase
\* without an answer; and a client's, only if it was put in during a POST.
THEOREM SoldAgainOnlyForAReason == Spec => []SoldAgainForAReason
<1>1. BuyersInv => SoldAgainForAReason
  <2> SUFFICES ASSUME BuyersInv, NEW u \in Units, NEW j \in Keys, NEW k \in Keys
               PROVE  /\ bought[k][u] <= 1
                      /\ bought[j][u] > 0 /\ bought[k][u] > 0 /\ j # k =>
                           /\ {j, k} \cap unanswered # {} \/ {j, k} \in met
                           /\ front = "api" => u \in late
    BY DEF SoldAgainForAReason
  <2>1. bought[k][u] <= 1
    BY DEF BuyersInv, ReasonsInv, KeysInv, BuysOnce
  <2>2. bought[j][u] > 0 /\ bought[k][u] > 0 /\ j # k => Excused(j, k)
    BY DEF BuyersInv, ReasonsInv, Reasons, Wants
  <2>3. bought[j][u] > 0 /\ bought[k][u] > 0 /\ j # k /\ front = "api" => u \in late
    BY DEF BuyersInv, Client, Wants
  <2>4. QED
    BY <2>1, <2>2, <2>3 DEF Excused
<1>2. QED
  BY <1>1, BuyersInvAlways, PTL

-----------------------------------------------------------------------------
(* What is thrown away *)

\* All of it was sold, or put in while a POST was under way.
Safe == \A u \in cart : Sold(u) \/ u \in late

\* What a POST has read is the cart, but for what was put in or taken out since; and
\* a purchase without a row belongs to a POST that is at it, or has no answer.
Thrown ==
  /\ \A r \in Requests :
       /\ Before(pc[r]) => \A u \in cart : u \in seen[r] \/ u \in late
       /\ Asked(pc[r]) => \A u \in cart : Wants(key[r], u) \/ u \in late
       /\ Settled(pc[r]) /\ booked[key[r]] => key[r] \in unanswered \/ Safe
  /\ \A k \in Keys :
       Wanted(k) /\ ~booked[k] =>
         k \in unanswered \/ \E r \in Requests : key[r] = k /\ Asked(pc[r])

ThrownInv == KeysInv /\ Thrown

\* The cart of a POST whose purchase is made is safe.
LEMMA SafeOnceBought ==
  ASSUME ThrownInv, NEW k \in Keys, NEW r \in Requests, key[r] = k, Asked(pc[r]),
         \E u \in Units : bought[k][u] > 0
  PROVE  Safe
<1>1. asked[k] = {}
  BY DEF ThrownInv, KeysInv, BuysOnce
<1>2. cart \subseteq Units
  BY ConstantsTyped DEF ThrownInv, KeysInv, TypeOK, Units
<1>3. QED
  BY <1>1, <1>2 DEF ThrownInv, Thrown, Wants, Safe, Sold

LEMMA ThrownCalmStep == ASSUME ThrownInv, CalmStep PROVE Thrown'
<1>1. /\ UNCHANGED late /\ cart' \subseteq cart /\ unanswered \subseteq unanswered'
      /\ cart \subseteq Units
      /\ \A k \in Keys : \A u \in Units : bought[k][u] > 0 => bought'[k][u] > 0
      /\ \A k \in Keys : Wanted(k)' => Wanted(k)
      /\ \A k \in Keys : booked[k] => booked'[k]
  BY ConstantsTyped DEF CalmStep, CalmOrders, ThrownInv, KeysInv, TypeOK, Units, Wanted
<1>2. Safe => Safe'
  BY <1>1 DEF Safe, Sold
<1>3. \A r \in Requests : pc[r] # "idle" => key[r] \in Keys
  BY DEF ThrownInv, KeysInv, Working
<1>4. ASSUME NEW r \in Requests, Before(pc'[r]), NEW u \in cart'
      PROVE  u \in seen'[r] \/ u \in late'
  BY <1>1, <1>4 DEF CalmStep, Calm, ThrownInv, Thrown
<1>5. ASSUME NEW r \in Requests, Asked(pc'[r]), NEW u \in cart'
      PROVE  Wants(key[r], u)' \/ u \in late'
  <2>1. Asked(pc[r]) /\ key'[r] = key[r] /\ key[r] \in Keys /\ u \in cart /\ u \in Units
    BY <1>1, <1>3, <1>5 DEF CalmStep, Calm, UnderWay, Asked
  <2>2. Wants(key[r], u) \/ u \in late
    BY <2>1 DEF ThrownInv, Thrown
  <2>3. PICK k \in Keys : k = key[r]
    BY <2>1
  <2>4. Wants(k, u) => Wants(k, u)'
    BY <1>5, <2>1, <2>3 DEF CalmStep, CalmOrders
  <2>5. QED
    BY <1>1, <2>1, <2>2, <2>3, <2>4 DEF Wants
<1>6. ASSUME NEW r \in Requests, Settled(pc'[r]), booked'[key'[r]]
      PROVE  key'[r] \in unanswered' \/ Safe'
  <2>1. key'[r] = key[r] /\ UnderWay(r)
    BY <1>6 DEF CalmStep, Calm, UnderWay, Settled
  <2>2. PICK k \in Keys : k = key[r]
    BY <1>3, <2>1 DEF UnderWay
  <2>3. /\ Settled(pc[r]) \/ Asked(pc[r])
        /\ booked[k] \/ \E u \in Units : bought[k][u] > 0
    BY <1>6, <2>1, <2>2 DEF CalmStep, Calm
  <2>4. CASE Settled(pc[r]) /\ booked[k]
    BY <1>1, <1>2, <2>1, <2>2, <2>4 DEF ThrownInv, Thrown
  <2>5. CASE ~booked[k] /\ \E u \in Units : bought[k][u] > 0
    <3>1. Wanted(k)
      BY <2>5 DEF Wanted, Wants
    <3>2. k \in unanswered \/ \E s \in Requests : key[s] = k /\ Asked(pc[s])
      BY <2>5, <3>1 DEF ThrownInv, Thrown
    <3>3. QED
      BY <1>1, <1>2, <2>1, <2>2, <2>5, <3>2, SafeOnceBought
  <2>6. CASE Asked(pc[r]) /\ booked[k]
    <3>1. \E u \in Units : bought[k][u] > 0
      BY <2>6 DEF ThrownInv, KeysInv, BuysOnce
    <3>2. QED
      BY <1>2, <2>2, <2>6, <3>1, SafeOnceBought
  <2>7. QED
    BY <2>3, <2>4, <2>5, <2>6
<1>7. ASSUME NEW k \in Keys, Wanted(k)', ~booked'[k]
      PROVE  k \in unanswered' \/ \E r \in Requests : key'[r] = k /\ Asked(pc'[r])
  <2>1. k \in unanswered \/ \E r \in Requests : key[r] = k /\ Asked(pc[r])
    BY <1>1, <1>7 DEF ThrownInv, Thrown
  <2>2. ASSUME NEW r \in Requests, key[r] = k, Asked(pc[r])
        PROVE  k \in unanswered' \/ (key'[r] = k /\ Asked(pc'[r]))
    BY <1>7, <2>2 DEF CalmStep, Calm, UnderWay, Asked
  <2>3. QED
    BY <1>1, <2>1, <2>2
<1>8. QED
  BY <1>4, <1>5, <1>6, <1>7 DEF Thrown, Wants

LEMMA ThrownFillStep == ASSUME ThrownInv, FillCart PROVE Thrown'
<1>1. /\ UNCHANGED <<request, journal, saleor, unanswered>> /\ cart' = cart \cup {filled + 1}
      /\ late \subseteq late'
      /\ (\E r \in Requests : UnderWay(r)) => filled + 1 \in late'
  BY DEF FillCart
<1>2. \A r \in Requests : Before(pc[r]) \/ Asked(pc[r]) \/ Settled(pc[r]) => filled + 1 \in late'
  BY <1>1 DEF UnderWay, Before, Asked, Settled
<1>3. \A r \in Requests : Settled(pc[r]) /\ Safe => Safe'
  BY <1>1, <1>2 DEF Safe, Sold, saleor
<1>4. QED
  BY <1>1, <1>2, <1>3 DEF ThrownInv, Thrown, Wants, Wanted, request, journal, saleor

LEMMA ThrownSubmitStep == ASSUME ThrownInv, NEW r \in Requests, Submit(r) PROVE Thrown'
<1>1. /\ UNCHANGED <<basket, seen, journal, saleor, unanswered>>
      /\ pc[r] = "idle" /\ pc'[r] = "check"
      /\ \A s \in Requests \ {r} : pc'[s] = pc[s] /\ key'[s] = key[s]
  BY DEF Submit, ThrownInv, KeysInv, TypeOK
<1>2. Safe' = Safe /\ \A k \in Keys : Wanted(k)' = Wanted(k)
  BY <1>1 DEF Safe, Sold, Wanted, Wants, basket, saleor
<1>3. \A s \in Requests : Before(pc'[s]) \/ Asked(pc'[s]) \/ Settled(pc'[s]) => s # r
  BY <1>1 DEF Before, Asked, Settled
<1>4. \A s \in Requests : Asked(pc[s]) => s # r
  BY <1>1 DEF Asked
<1>5. QED
  BY <1>1, <1>2, <1>3, <1>4 DEF ThrownInv, Thrown, Wants, basket, journal, saleor

LEMMA ThrownReadStep == ASSUME ThrownInv, NEW r \in Requests, ReadCart(r) PROVE Thrown'
<1>1. /\ UNCHANGED <<basket, key, journal, saleor, unanswered>>
      /\ pc[r] = "cart" /\ pc'[r] = "enter" /\ seen'[r] = cart
      /\ \A s \in Requests \ {r} : pc'[s] = pc[s] /\ seen'[s] = seen[s]
  BY DEF ReadCart, ThrownInv, KeysInv, TypeOK
<1>2. Safe' = Safe /\ \A k \in Keys : Wanted(k)' = Wanted(k)
  BY <1>1 DEF Safe, Sold, Wanted, Wants, basket, saleor
<1>3. \A s \in Requests : (Settled(pc'[s]) => Settled(pc[s])) /\ Asked(pc'[s]) = Asked(pc[s])
  BY <1>1 DEF Asked, Settled
<1>4. \A s \in Requests : Before(pc'[s]) => \A u \in cart' : u \in seen'[s] \/ u \in late'
  BY <1>1 DEF ThrownInv, Thrown, basket
<1>5. QED
  BY <1>1, <1>2, <1>3, <1>4 DEF ThrownInv, Thrown, Wants, basket, journal, saleor

LEMMA ThrownCreateStep == ASSUME ThrownInv, NEW r \in Requests, Create(r) PROVE Thrown'
<1>1. CASE CalmStep
  BY <1>1, ThrownCalmStep
<1>2. CASE /\ UNCHANGED <<basket, browser, booked, bought, met, unanswered>>
           /\ pc[r] = "create" /\ pc'[r] = "wait" /\ key' = key /\ seen' = seen /\ key[r] \in Keys
           /\ seen[r] \subseteq Units /\ ~Wanted(key[r])
           /\ \A s \in Requests \ {r} : pc'[s] = pc[s] /\ ~Inside(pc[s])
           /\ asked'[key[r]] = seen[r] /\ \A j \in Keys \ {key[r]} : asked'[j] = asked[j]
  <2>1. Safe' = Safe
    BY <1>2 DEF Safe, Sold, basket
  <2>2. \A s \in Requests :
          /\ Before(pc'[s]) => Before(pc[s])
          /\ Asked(pc'[s]) => s = r
          /\ Settled(pc'[s]) => Settled(pc[s])
          /\ ~Asked(pc[s])
    BY <1>2 DEF Before, Asked, Settled, Inside
  <2>3. \A u \in cart : u \in seen[r] \/ u \in late
    BY <1>2 DEF ThrownInv, Thrown, Before
  <2>4. \A u \in cart' : Wants(key[r], u)' \/ u \in late'
    BY <1>2, <2>3 DEF Wants, basket
  <2>5. \A k \in Keys \ {key[r]} : Wanted(k)' = Wanted(k)
    BY <1>2 DEF Wanted, Wants
  <2>6. ASSUME NEW k \in Keys, Wanted(k)', ~booked'[k]
        PROVE  k \in unanswered' \/ \E s \in Requests : key'[s] = k /\ Asked(pc'[s])
    <3>1. CASE k = key[r]
      BY <1>2, <3>1 DEF Asked
    <3>2. CASE k # key[r]
      BY <1>2, <2>2, <2>5, <2>6, <3>2 DEF ThrownInv, Thrown
    <3>3. QED
      BY <3>1, <3>2
  <2>7. \A s \in Requests : Before(pc'[s]) => \A u \in cart' : u \in seen'[s] \/ u \in late'
    BY <1>2, <2>2 DEF ThrownInv, Thrown, basket
  <2>8. \A s \in Requests : Settled(pc'[s]) /\ booked'[key'[s]] => key'[s] \in unanswered' \/ Safe'
    BY <1>2, <2>1, <2>2 DEF ThrownInv, Thrown
  <2>9. \A s \in Requests : Asked(pc'[s]) => \A u \in cart' : Wants(key[s], u)' \/ u \in late'
    BY <2>2, <2>4
  <2>10. QED
    BY <2>6, <2>7, <2>8, <2>9 DEF Thrown, Wants
<1>3. QED
  BY <1>1, <1>2, CreateDoes DEF ThrownInv

\* However often the cart is changed during a checkout and whoever books the
\* order, what is thrown away unsold was put in while a POST was under way, or
\* belongs to a retry of a purchase that got no answer.
THEOREM OnlyLateIsThrownAway == Spec => []ClearedIsBought
<1>1. Init => ThrownInv
  BY KeysInvInit DEF Init, ThrownInv, Thrown, Before, Asked, Settled, Wanted, Wants
<1>2. ThrownInv /\ [Next]_vars => ThrownInv'
  <2> SUFFICES ASSUME ThrownInv, [Next]_vars PROVE Thrown'
    BY KeysInvStep DEF ThrownInv
  <2>1. QED
    BY StepsAre, ThrownCalmStep, ThrownFillStep, ThrownSubmitStep, ThrownReadStep, ThrownCreateStep
       DEF ThrownInv
<1>3. ThrownInv => ClearedIsBought
  BY DEF ThrownInv, KeysInv, Asking, AskingAt, Thrown, Settled, Safe, ClearedIsBought
<1>4. QED
  BY <1>1, <1>2, <1>3, PTL DEF Spec

=============================================================================
