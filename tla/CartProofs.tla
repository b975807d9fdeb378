------------------------------ MODULE CartProofs ------------------------------
(* Proofs about module Cart, for any number of requests and products and any *)
(* limits: its types, its safety invariants, and that it implements          *)
(* AtomicCart, update by update.                                             *)
EXTENDS Cart, FiniteSetTheorems, SequenceTheorems, TLAPS

\* A request that is under way adds a product; a line counts at least one.
CallsAdd ==
  /\ \A r \in Requests : pc[r] # "idle" => product[r] \in Products
  /\ \A i \in 1 .. Len(items) : items[i].quantity > 0

\* What makes OneLinePerProduct inductive without counting.
OneLine == \A p \in Products : \A i, j \in Lines(p) : i = j

CartInv == TypeOK /\ CallsAdd /\ OneLine /\ OverTheCeilingIsTransient

-----------------------------------------------------------------------------
(* The document *)

\* A line of the document.
LEMMA ALine ==
  ASSUME TypeOK, NEW i \in 1 .. Len(items)
  PROVE  /\ items[i] \in Line /\ items[i].product_id \in Products /\ items[i].quantity \in Nat
         /\ Len(items) \in Nat
<1>1. items[i] \in Line /\ Len(items) \in Nat
  BY DEF TypeOK
<1>2. QED
  BY <1>1 DEF Line

\* A function on 1 .. n is a sequence of that length.
LEMMA AsSequence ==
  ASSUME NEW n \in Nat, NEW T, NEW f \in [1 .. n -> T]
  PROVE  f \in Seq(T) /\ Len(f) = n /\ DOMAIN f = 1 .. n
BY SeqDef, LenProperties

LEMMA AtMostBounds ==
  ASSUME NEW n \in Nat
  PROVE  /\ AtMost(n) \in 0 .. MAX_ITEM_QUANTITY /\ AtMost(n) <= n
         /\ n > 0 => AtMost(n) > 0
         /\ n <= MAX_ITEM_QUANTITY => AtMost(n) = n
         /\ AtMost(AtMost(n)) = AtMost(n)
         /\ \A q \in Nat : AtMost(AtMost(n) + q) = AtMost(n + q)
BY ConstantsTyped DEF AtMost

\* What an update of the lines in place does: their number and products stay.
LEMMA InPlace ==
  ASSUME TypeOK, items' \in [1 .. Len(items) -> Line],
         \A i \in 1 .. Len(items) : items'[i].product_id = items[i].product_id
  PROVE  /\ items' \in Seq(Line) /\ Len(items') = Len(items)
         /\ \A p \in Products : Lines(p)' = Lines(p)
<1>1. Len(items) \in Nat
  BY DEF TypeOK
<1>2. items' \in Seq(Line) /\ Len(items') = Len(items)
  BY <1>1, AsSequence
<1>3. QED
  BY <1>2 DEF Lines

\* A push adds a line at the end, of a product that has none.
LEMMA PushRows ==
  ASSUME CartInv, NEW r \in Requests, pc[r] # "idle", PushItem(r), CanPush(product[r]),
         NEW p \in Products, p = product[r], NEW n \in Nat, n = Len(items) + 1
  PROVE  /\ items' \in Seq(Line) /\ Len(items') = n
         /\ \A i \in 1 .. Len(items) : items'[i] = items[i]
         /\ items'[n] = [product_id |-> p, quantity |-> amount[r]]
         /\ Lines(p)' = {n}
         /\ \A q \in Products \ {p} : Lines(q)' = Lines(q)
<1>1. items \in Seq(Line) /\ Len(items) \in Nat /\ amount[r] \in Nat
  BY ConstantsTyped DEF CartInv, TypeOK, Quantities
<1>2. PICK line : line = [product_id |-> p, quantity |-> amount[r]]
  OBVIOUS
<1>3. line \in Line /\ line.product_id = p
  BY <1>1, <1>2 DEF Line
<1>4. items' = Append(items, line)
  BY <1>2 DEF PushItem
<1>5. /\ items' \in Seq(Line) /\ Len(items') = n /\ items'[n] = line
      /\ \A i \in 1 .. Len(items) : items'[i] = items[i]
  BY <1>1, <1>3, <1>4
<1>6. \A i \in 1 .. Len(items) : items[i].product_id # p
  BY DEF CanPush, Has, Lines
<1>7. 1 .. n = (1 .. Len(items)) \cup {n} /\ n \notin 1 .. Len(items)
  BY <1>1
<1>8. Lines(p)' = {n}
  <2>1. \A i \in 1 .. n : items'[i].product_id = p <=> i = n
    BY <1>3, <1>5, <1>6, <1>7
  <2>2. QED
    BY <1>5, <1>7, <2>1 DEF Lines
<1>9. ASSUME NEW q \in Products \ {p} PROVE Lines(q)' = Lines(q)
  <2>1. \A i \in 1 .. n : items'[i].product_id = q <=> i \in 1 .. Len(items) /\ items[i].product_id = q
    BY <1>3, <1>5, <1>7
  <2>2. QED
    BY <1>5, <1>7, <2>1 DEF Lines
<1>10. QED
  BY <1>2, <1>5, <1>8, <1>9

\* $pull leaves the lines of the other products, each once.
LEMMA PullRows ==
  ASSUME CartInv, NEW p \in Products, NEW n \in 0 .. Len(items),
         NEW from \in [1 .. n -> 1 .. Len(items)],
         \A i, j \in 1 .. n : i < j => from[i] < from[j],
         {from[i] : i \in 1 .. n} = (1 .. Len(items)) \ Lines(p),
         items' = [i \in 1 .. n |-> items[from[i]]]
  PROVE  /\ items' \in Seq(Line) /\ Len(items') = n
         /\ \A i \in 1 .. n : items'[i] = items[from[i]]
         /\ Lines(p)' = {}
         /\ \A q \in Products \ {p} :
              /\ \A i \in Lines(q)' : from[i] \in Lines(q)
              /\ \A j \in Lines(q) : \E i \in Lines(q)' : from[i] = j
         /\ \A i, j \in 1 .. n : from[i] = from[j] => i = j
<1>1. Len(items) \in Nat /\ n \in Nat
  BY DEF CartInv, TypeOK
<1>2. \A i \in 1 .. n : items[from[i]] \in Line
  BY ALine DEF CartInv
<1>3. /\ items' \in Seq(Line) /\ Len(items') = n
      /\ \A i \in 1 .. n : items'[i] = items[from[i]]
  BY <1>1, <1>2, AsSequence
<1>4. Lines(p)' = {}
  BY <1>3 DEF Lines
<1>5. ASSUME NEW q \in Products \ {p}
      PROVE  /\ \A i \in Lines(q)' : from[i] \in Lines(q)
             /\ \A j \in Lines(q) : \E i \in Lines(q)' : from[i] = j
  <2>1. \A i \in Lines(q)' : from[i] \in Lines(q)
    BY <1>3 DEF Lines
  <2>2. ASSUME NEW j \in Lines(q) PROVE \E i \in Lines(q)' : from[i] = j
    <3>1. j \in (1 .. Len(items)) \ Lines(p) /\ items[j].product_id = q
      BY DEF Lines
    <3>2. PICK i \in 1 .. n : from[i] = j
      BY <3>1
    <3>3. QED
      BY <1>3, <3>1, <3>2 DEF Lines
  <2>3. QED
    BY <2>1, <2>2
<1>6. ASSUME NEW i \in 1 .. n, NEW j \in 1 .. n, from[i] = from[j] PROVE i = j
  <2>1. i \in Nat /\ j \in Nat /\ from[i] \in Nat /\ from[j] \in Nat
    BY <1>1
  <2>2. ~(i < j) /\ ~(j < i)
    BY <2>1, <1>6
  <2>3. QED
    BY <2>1, <2>2
<1>7. QED
  BY <1>3, <1>4, <1>5, <1>6

\* The line of a product, if there is one, is the one that is updated.
LEMMA TheLine ==
  CartInv => \A p \in Products : \A i \in Lines(p) :
    First(p) = i /\ Has(p) /\ i \in 1 .. Len(items) /\ items[i].product_id = p
<1> SUFFICES ASSUME CartInv, NEW p \in Products, NEW i \in Lines(p)
             PROVE  First(p) = i /\ Has(p) /\ i \in 1 .. Len(items) /\ items[i].product_id = p
  OBVIOUS
<1>1. i \in 1 .. Len(items) /\ items[i].product_id = p /\ Has(p)
  BY DEF Lines, Has
<1>2. i \in Nat /\ \A j \in Lines(p) : j = i
  BY <1>1 DEF CartInv, TypeOK, OneLine
<1>3. First(p) \in Lines(p)
  <2>1. \E k \in Lines(p) : \A j \in Lines(p) : k <= j
    BY <1>2
  <2>2. QED
    BY <2>1 DEF First
<1>4. QED
  BY <1>1, <1>2, <1>3

-----------------------------------------------------------------------------
(* The invariant, action by action *)

\* What the invariant says of the document and what it says of the requests.
DocumentOK ==
  /\ items \in Seq(Line)
  /\ \A i \in 1 .. Len(items) : items[i].quantity > 0
  /\ OneLine

RequestsOK ==
  /\ exists \in BOOLEAN /\ faults \in Nat
  /\ pc \in [Requests -> {"idle", "bump", "push", "probe", "create", "again", "clamp"}]
  /\ product \in [Requests -> Products \cup {NoProduct}]
  /\ amount \in [Requests -> Quantities]
  /\ due \in [Products -> 0 .. MAX_ITEM_QUANTITY]
  /\ \A r \in Requests : pc[r] # "idle" => product[r] \in Products

LEMMA CartInvParts == CartInv <=> DocumentOK /\ RequestsOK /\ OverTheCeilingIsTransient
BY DEF CartInv, TypeOK, CallsAdd, DocumentOK, RequestsOK

\* Only a request that is about to clamp can be in the way of a line.
Covered(p) == faults > 0 \/ \E r \in Requests : pc[r] = "clamp" /\ product[r] = p

\* The steps that leave the document alone and let no clamp go.
LEMMA SameDocument ==
  ASSUME CartInv, UNCHANGED items, RequestsOK',
         \A p \in Products : Covered(p) => Covered(p)'
  PROVE  CartInv'
<1>1. DocumentOK'
  BY CartInvParts DEF DocumentOK, OneLine, Lines
<1>2. OverTheCeilingIsTransient'
  BY ALine DEF CartInv, OverTheCeilingIsTransient, Covered
<1>3. QED
  BY <1>1, <1>2, CartInvParts, PTL

\* What the requests are after a step of one of them.
LEMMA MovedOn ==
  ASSUME CartInv, NEW r \in Requests, pc[r] # "idle",
         NEW step \in {"idle", "push", "probe", "create", "again", "clamp"}, Goto(r, step),
         exists' \in BOOLEAN, faults' \in Nat, faults' >= faults,
         due' \in [Products -> 0 .. MAX_ITEM_QUANTITY]
  PROVE  /\ RequestsOK'
         /\ pc'[r] = step /\ product' = product /\ amount' = amount
         /\ product[r] \in Products /\ amount[r] \in Quantities
         /\ \A p \in Products : pc[r] # "clamp" \/ p # product[r] =>
              (Covered(p) => Covered(p)')
<1>1. RequestsOK'
  BY DEF CartInv, TypeOK, CallsAdd, RequestsOK, Goto
<1>2. pc'[r] = step /\ \A s \in Requests \ {r} : pc'[s] = pc[s]
  BY DEF CartInv, TypeOK, Goto
<1>3. product' = product /\ amount' = amount
  BY DEF Goto
<1>4. product[r] \in Products /\ amount[r] \in Quantities
  BY DEF CartInv, TypeOK, CallsAdd
<1>5. ASSUME NEW p \in Products, pc[r] # "clamp" \/ p # product[r], Covered(p) PROVE Covered(p)'
  <2>1. CASE faults > 0
    BY <2>1 DEF Covered, CartInv, TypeOK
  <2>2. CASE \E s \in Requests : pc[s] = "clamp" /\ product[s] = p
    <3>1. PICK s \in Requests : pc[s] = "clamp" /\ product[s] = p
      BY <2>2
    <3>2. s # r
      BY <1>5, <3>1
    <3>3. QED
      BY <1>2, <1>3, <3>1, <3>2 DEF Covered
  <2>3. QED
    BY <1>5, <2>1, <2>2 DEF Covered
<1>6. QED
  BY <1>1, <1>2, <1>3, <1>4, <1>5

LEMMA DueOK ==
  ASSUME CartInv, NEW r \in Requests, pc[r] # "idle",
         UNCHANGED due \/ due' = [due EXCEPT ![product[r]] = AtMost(@ + amount[r])]
  PROVE  due' \in [Products -> 0 .. MAX_ITEM_QUANTITY]
<1>1. /\ due \in [Products -> 0 .. MAX_ITEM_QUANTITY] /\ product[r] \in Products
      /\ amount[r] \in Nat /\ MAX_ITEM_QUANTITY \in Nat
  BY ConstantsTyped DEF CartInv, TypeOK, CallsAdd, Quantities
<1>2. AtMost(due[product[r]] + amount[r]) \in 0 .. MAX_ITEM_QUANTITY
  <2>1. due[product[r]] + amount[r] \in Nat
    BY <1>1
  <2>2. QED
    BY <2>1, AtMostBounds
<1>3. QED
  BY <1>1, <1>2

LEMMA CartInvInit == Init => CartInv
<1> SUFFICES ASSUME Init PROVE CartInv
  OBVIOUS
<1>1. items = <<>> /\ Len(items) = 0
  BY DEF Init
<1>2. TypeOK
  <2>1. items \in Seq(Line)
    BY <1>1
  <2>2. 1 \in Quantities /\ 0 \in 0 .. MAX_ITEM_QUANTITY
    BY ConstantsTyped DEF Quantities
  <2>3. QED
    BY <2>1, <2>2 DEF Init, TypeOK
<1>3. \A p \in Products : Lines(p) = {}
  BY <1>1 DEF Lines
<1>4. CallsAdd
  BY <1>1 DEF Init, CallsAdd
<1>5. OneLine
  BY <1>3 DEF OneLine
<1>6. OverTheCeilingIsTransient
  BY <1>1 DEF OverTheCeilingIsTransient
<1>7. QED
  BY <1>2, <1>4, <1>5, <1>6 DEF CartInv

\* Empty again.
LEMMA NoLines ==
  ASSUME RequestsOK', items' = <<>>
  PROVE  CartInv'
<1>1. items' \in Seq(Line) /\ Len(items') = 0
  OBVIOUS
<1>2. \A p \in Products : Lines(p)' = {}
  BY <1>1 DEF Lines
<1>3. DocumentOK' /\ OverTheCeilingIsTransient'
  BY <1>1, <1>2 DEF DocumentOK, OneLine, OverTheCeilingIsTransient
<1>4. QED
  BY <1>3, CartInvParts, PTL

LEMMA CallStep ==
  ASSUME CartInv, NEW r \in Requests, NEW p \in Products, NEW q \in Quantities, Call(r, p, q)
  PROVE  CartInv'
<1>1. /\ pc' = [pc EXCEPT ![r] = "bump"] /\ product' = [product EXCEPT ![r] = p]
      /\ amount' = [amount EXCEPT ![r] = q] /\ pc[r] = "idle"
      /\ UNCHANGED <<exists, items, due, faults>>
  BY DEF Call, document
<1>2. RequestsOK'
  BY <1>1 DEF CartInv, TypeOK, CallsAdd, RequestsOK
<1>3. ASSUME NEW x \in Products, Covered(x) PROVE Covered(x)'
  <2>1. CASE faults > 0
    BY <1>1, <2>1 DEF Covered
  <2>2. CASE \E s \in Requests : pc[s] = "clamp" /\ product[s] = x
    <3>1. PICK s \in Requests : pc[s] = "clamp" /\ product[s] = x
      BY <2>2
    <3>2. pc'[s] = "clamp" /\ product'[s] = x
      BY <1>1, <3>1 DEF CartInv, TypeOK
    <3>3. QED
      BY <3>2 DEF Covered
  <2>3. QED
    BY <1>3, <2>1, <2>2 DEF Covered
<1>4. QED
  BY <1>1, <1>2, <1>3, SameDocument

\* The steps of add_to_cart that touch no line.
LEMMA ProbeCreateStep ==
  ASSUME CartInv, NEW r \in Requests, Probe(r) \/ Create(r)
  PROVE  CartInv'
<1>1. /\ pc[r] \in {"probe", "create"} /\ UNCHANGED <<items, faults>>
      /\ exists' \in BOOLEAN
      /\ UNCHANGED due \/ due' = [due EXCEPT ![product[r]] = AtMost(@ + amount[r])]
      /\ \E step \in {"idle", "create", "again"} : Goto(r, step)
  BY DEF Probe, Create, Return, document, CartInv, TypeOK
<1>2. PICK step \in {"idle", "create", "again"} : Goto(r, step)
  BY <1>1
<1>3. due' \in [Products -> 0 .. MAX_ITEM_QUANTITY]
  BY <1>1, DueOK
<1>4. /\ RequestsOK'
      /\ \A p \in Products : pc[r] # "clamp" \/ p # product[r] => (Covered(p) => Covered(p)')
  BY <1>1, <1>2, <1>3, MovedOn DEF CartInv, TypeOK
<1>5. QED
  BY <1>1, <1>4, SameDocument

\* The quantity of one line is set.
LEMMA Touched ==
  ASSUME CartInv, NEW i \in 1 .. Len(items), NEW q \in Nat \ {0},
         items' = [items EXCEPT ![i].quantity = q]
  PROVE  /\ DocumentOK'
         /\ items' \in Seq(Line) /\ Len(items') = Len(items)
         /\ \A p \in Products : Lines(p)' = Lines(p)
         /\ \A j \in 1 .. Len(items) : items'[j].product_id = items[j].product_id
         /\ items'[i].quantity = q
         /\ \A j \in 1 .. Len(items) \ {i} : items'[j] = items[j]
<1>1. Len(items) \in Nat /\ items \in [1 .. Len(items) -> Line]
  BY DEF CartInv, TypeOK
<1>2. items' = [items EXCEPT ![i] = [items[i] EXCEPT !.quantity = q]]
  OBVIOUS
<1>3. PICK line : line = [items[i] EXCEPT !.quantity = q]
  OBVIOUS
<1>4. line \in Line /\ line.quantity = q /\ line.product_id = items[i].product_id
  BY <1>1, <1>3 DEF Line
<1>5. items' = [items EXCEPT ![i] = line]
  BY <1>2, <1>3
<1>6. /\ items' \in [1 .. Len(items) -> Line] /\ items'[i] = line
      /\ \A j \in 1 .. Len(items) \ {i} : items'[j] = items[j]
  BY <1>1, <1>4, <1>5
<1>7. \A j \in 1 .. Len(items) : items'[j].product_id = items[j].product_id
  BY <1>4, <1>6
<1>8. /\ items' \in Seq(Line) /\ Len(items') = Len(items)
      /\ \A p \in Products : Lines(p)' = Lines(p)
  BY <1>6, <1>7, InPlace DEF CartInv
<1>9. DocumentOK'
  <2>1. \A j \in 1 .. Len(items) : items'[j].quantity > 0
    BY <1>4, <1>6 DEF CartInv, CallsAdd
  <2>2. OneLine'
    BY <1>8 DEF CartInv, OneLine
  <2>3. QED
    BY <1>8, <2>1, <2>2 DEF DocumentOK
<1>10. QED
  BY <1>4, <1>6, <1>7, <1>8, <1>9

\* The line an increment finds.
LEMMA BumpRows ==
  ASSUME CartInv, NEW r \in Requests, Bump(r), Has(product[r]),
         NEW p \in Products, p = product[r]
  PROVE  \E i \in Lines(p) : \E q \in Nat \ {0} :
           /\ i \in 1 .. Len(items) /\ q = items[i].quantity + amount[r]
           /\ items' = [items EXCEPT ![i].quantity = q]
<1>1. PICK i \in Lines(p) : TRUE
  BY DEF Has
<1>2. First(p) = i /\ i \in 1 .. Len(items)
  BY <1>1, TheLine
<1>3. items' = [items EXCEPT ![i].quantity = items[i].quantity + amount[r]]
  BY <1>2 DEF Bump
<1>4. amount[r] \in Nat \ {0} /\ items[i].quantity \in Nat
  BY <1>2, ALine, ConstantsTyped DEF CartInv, TypeOK, Quantities
<1>5. PICK q : q = items[i].quantity + amount[r]
  OBVIOUS
<1>6. q \in Nat \ {0}
  BY <1>4, <1>5
<1>7. QED
  BY <1>2, <1>3, <1>5, <1>6

LEMMA BumpStep ==
  ASSUME CartInv, NEW r \in Requests, Bump(r)
  PROVE  CartInv'
<1>1. PICK p : p = product[r]
  OBVIOUS
<1>2. pc[r] = "bump" /\ p \in Products /\ UNCHANGED <<exists, due, faults>>
  BY <1>1 DEF Bump, CartInv, CallsAdd
<1>3. exists \in BOOLEAN /\ faults \in Nat /\ due \in [Products -> 0 .. MAX_ITEM_QUANTITY]
  BY DEF CartInv, TypeOK
<1>4. CASE Has(p)
  <2>1. Goto(r, "clamp")
    BY <1>1, <1>4 DEF Bump
  <2>2. /\ RequestsOK' /\ pc'[r] = "clamp" /\ product' = product
        /\ \A x \in Products : Covered(x) => Covered(x)'
    BY <1>2, <1>3, <2>1, MovedOn
  <2>3. PICK i \in Lines(p) : \E q \in Nat \ {0} :
          i \in 1 .. Len(items) /\ items' = [items EXCEPT ![i].quantity = q]
    BY <1>1, <1>2, <1>4, BumpRows
  <2>4. PICK q \in Nat \ {0} :
          i \in 1 .. Len(items) /\ items' = [items EXCEPT ![i].quantity = q]
    BY <2>3
  <2>5. /\ DocumentOK' /\ Len(items') = Len(items)
        /\ \A j \in 1 .. Len(items) : items'[j].product_id = items[j].product_id
        /\ \A j \in 1 .. Len(items) \ {i} : items'[j] = items[j]
    BY <2>4, Touched
  <2>6. ASSUME NEW j \in 1 .. Len(items), items'[j].quantity > MAX_ITEM_QUANTITY
        PROVE  faults' > 0 \/ \E s \in Requests : pc'[s] = "clamp" /\ product'[s] = items'[j].product_id
    <3>1. CASE j = i
      <4>1. items'[j].product_id = p
        BY <2>3, <2>5, <3>1, TheLine, <1>2
      <4>2. QED
        BY <1>1, <2>2, <4>1
    <3>2. CASE j # i
      <4>1. items'[j] = items[j] /\ items[j].product_id \in Products
        BY <2>5, <3>2, ALine DEF CartInv
      <4>2. Covered(items[j].product_id)
        BY <2>6, <4>1 DEF CartInv, OverTheCeilingIsTransient, Covered
      <4>3. PICK x \in Products : x = items[j].product_id
        BY <4>1
      <4>4. Covered(x)'
        BY <2>2, <4>2, <4>3 DEF Covered
      <4>5. QED
        BY <4>1, <4>3, <4>4 DEF Covered
    <3>3. QED
      BY <3>1, <3>2
  <2>7. OverTheCeilingIsTransient'
    BY <2>5, <2>6 DEF OverTheCeilingIsTransient
  <2>8. QED
    BY <2>2, <2>5, <2>7, CartInvParts, PTL
<1>5. CASE ~Has(p)
  <2>1. Goto(r, "push") /\ UNCHANGED items
    BY <1>1, <1>5 DEF Bump
  <2>2. RequestsOK' /\ \A x \in Products : Covered(x) => Covered(x)'
    BY <1>2, <1>3, <2>1, MovedOn
  <2>3. QED
    BY <2>1, <2>2, SameDocument
<1>6. QED
  BY <1>4, <1>5

\* A line over the ceiling that stays as it is stays covered.
LEMMA StillCovered ==
  ASSUME CartInv, NEW j \in 1 .. Len(items), items[j].quantity > MAX_ITEM_QUANTITY,
         NEW x \in Products, x = items[j].product_id, Covered(x) => Covered(x)'
  PROVE  faults' > 0 \/ \E s \in Requests : pc'[s] = "clamp" /\ product'[s] = x
<1>1. Covered(x)
  BY DEF CartInv, OverTheCeilingIsTransient, Covered
<1>2. QED
  BY <1>1 DEF Covered

\* The two pushes, whether they find room or not.
LEMMA PushedStep ==
  ASSUME CartInv, NEW r \in Requests, pc[r] \in {"push", "again"}, PushItem(r),
         NEW step \in {"idle", "probe"}, Goto(r, step), UNCHANGED <<exists, faults>>,
         UNCHANGED due \/ due' = [due EXCEPT ![product[r]] = AtMost(@ + amount[r])]
  PROVE  CartInv'
<1>1. due' \in [Products -> 0 .. MAX_ITEM_QUANTITY] /\ exists \in BOOLEAN /\ faults \in Nat
  BY DueOK DEF CartInv, TypeOK
<1>2. RequestsOK' /\ \A x \in Products : Covered(x) => Covered(x)'
  BY <1>1, MovedOn
<1>3. CASE ~CanPush(product[r])
  BY <1>2, <1>3, SameDocument DEF PushItem
<1>4. CASE CanPush(product[r])
  <2>1. PICK p \in Products : p = product[r]
    BY DEF CartInv, CallsAdd
  <2>2. PICK n \in Nat : n = Len(items) + 1
    BY DEF CartInv, TypeOK
  <2>3. /\ items' \in Seq(Line) /\ Len(items') = n
        /\ \A i \in 1 .. Len(items) : items'[i] = items[i]
        /\ items'[n] = [product_id |-> p, quantity |-> amount[r]]
        /\ Lines(p)' = {n}
        /\ \A q \in Products \ {p} : Lines(q)' = Lines(q)
    BY <1>4, <2>1, <2>2, PushRows
  <2>4. 1 .. n = (1 .. Len(items)) \cup {n}
    BY <2>2 DEF CartInv, TypeOK
  <2>5. amount[r] \in Nat /\ amount[r] > 0 /\ amount[r] <= MAX_ITEM_QUANTITY
    BY ConstantsTyped DEF CartInv, TypeOK, Quantities
  <2>6. \A i \in 1 .. n : items'[i].quantity > 0
    BY <2>3, <2>4, <2>5 DEF CartInv, CallsAdd
  <2>7. OneLine'
    BY <2>3 DEF CartInv, OneLine
  <2>8. DocumentOK'
    BY <2>3, <2>6, <2>7 DEF DocumentOK
  <2>9. ASSUME NEW i \in 1 .. n, items'[i].quantity > MAX_ITEM_QUANTITY
        PROVE  faults' > 0 \/ \E s \in Requests : pc'[s] = "clamp" /\ product'[s] = items'[i].product_id
    <3>1. i # n
      BY <2>3, <2>5, <2>9, ConstantsTyped
    <3>2. i \in 1 .. Len(items) /\ items'[i] = items[i]
      BY <2>3, <2>4, <3>1
    <3>3. PICK x \in Products : x = items[i].product_id
      BY <3>2, ALine DEF CartInv
    <3>4. faults' > 0 \/ \E s \in Requests : pc'[s] = "clamp" /\ product'[s] = x
      BY <1>2, <2>9, <3>2, <3>3, StillCovered
    <3>5. QED
      BY <3>2, <3>3, <3>4
  <2>10. OverTheCeilingIsTransient'
    BY <2>3, <2>9 DEF OverTheCeilingIsTransient
  <2>11. QED
    BY <1>2, <2>8, <2>10, CartInvParts, PTL
<1>5. QED
  BY <1>3, <1>4

LEMMA PushStep ==
  ASSUME CartInv, NEW r \in Requests, Push(r)
  PROVE  CartInv'
<1>1. CASE CanPush(product[r])
  BY <1>1, PushedStep DEF Push, Return
<1>2. CASE ~CanPush(product[r])
  BY <1>2, PushedStep DEF Push
<1>3. QED
  BY <1>1, <1>2

LEMMA PushAgainStep ==
  ASSUME CartInv, NEW r \in Requests, PushAgain(r)
  PROVE  CartInv'
BY PushedStep DEF PushAgain, Return

\* What the clamp leaves: the lines of its product at the ceiling or below.
LEMMA ClampRows ==
  ASSUME CartInv, NEW r \in Requests, Clamp(r), NEW p \in Products, p = product[r]
  PROVE  /\ items' \in Seq(Line) /\ Len(items') = Len(items)
         /\ \A x \in Products : Lines(x)' = Lines(x)
         /\ \A i \in 1 .. Len(items) : items'[i].product_id = items[i].product_id
         /\ \A i \in 1 .. Len(items) \ Lines(p) : items'[i] = items[i]
         /\ \A i \in Lines(p) : items'[i].quantity = AtMost(items[i].quantity)
<1>1. Len(items) \in Nat /\ \A i \in 1 .. Len(items) : items[i] \in Line
  BY ALine DEF CartInv, TypeOK
<1>2. \A i \in 1 .. Len(items) :
        /\ AtMost(items[i].quantity) \in Nat
        /\ [items[i] EXCEPT !.quantity = AtMost(items[i].quantity)] \in Line
        /\ [items[i] EXCEPT !.quantity = AtMost(items[i].quantity)].product_id = items[i].product_id
        /\ [items[i] EXCEPT !.quantity = AtMost(items[i].quantity)].quantity = AtMost(items[i].quantity)
  <2> SUFFICES ASSUME NEW i \in 1 .. Len(items), NEW q, q = AtMost(items[i].quantity)
               PROVE  /\ q \in Nat /\ [items[i] EXCEPT !.quantity = q] \in Line
                      /\ [items[i] EXCEPT !.quantity = q].product_id = items[i].product_id
                      /\ [items[i] EXCEPT !.quantity = q].quantity = q
    OBVIOUS
  <2>1. items[i] \in Line /\ items[i].quantity \in Nat
    BY <1>1, ALine DEF CartInv
  <2>2. q \in Nat
    BY <2>1, ConstantsTyped DEF AtMost
  <2>3. QED
    BY <2>1, <2>2 DEF Line
<1>3. items' = [i \in 1 .. Len(items) |->
         IF i \in Lines(p) THEN [items[i] EXCEPT !.quantity = AtMost(items[i].quantity)] ELSE items[i]]
  BY DEF Clamp
<1>4. /\ items' \in [1 .. Len(items) -> Line]
      /\ \A i \in 1 .. Len(items) : items'[i].product_id = items[i].product_id
      /\ \A i \in 1 .. Len(items) \ Lines(p) : items'[i] = items[i]
  BY <1>1, <1>2, <1>3
<1>5. \A i \in Lines(p) : items'[i].quantity = AtMost(items[i].quantity)
  BY <1>2, <1>3 DEF Lines
<1>6. QED
  BY <1>4, <1>5, InPlace DEF CartInv

LEMMA ClampStep ==
  ASSUME CartInv, NEW r \in Requests, Clamp(r)
  PROVE  CartInv'
<1>1. PICK p \in Products : p = product[r]
  BY DEF Clamp, CartInv, CallsAdd
<1>2. /\ items' \in Seq(Line) /\ Len(items') = Len(items)
      /\ \A x \in Products : Lines(x)' = Lines(x)
      /\ \A i \in 1 .. Len(items) : items'[i].product_id = items[i].product_id
      /\ \A i \in 1 .. Len(items) \ Lines(p) : items'[i] = items[i]
      /\ \A i \in Lines(p) : items'[i].quantity = AtMost(items[i].quantity)
  BY <1>1, ClampRows
<1>3. /\ pc[r] = "clamp" /\ Goto(r, "idle") /\ UNCHANGED <<exists, faults>>
      /\ exists \in BOOLEAN /\ faults \in Nat
      /\ due' \in [Products -> 0 .. MAX_ITEM_QUANTITY]
  BY DueOK DEF Clamp, Return, CartInv, TypeOK
<1>4. RequestsOK' /\ \A x \in Products \ {p} : Covered(x) => Covered(x)'
  BY <1>1, <1>3, MovedOn
<1>5. \A i \in 1 .. Len(items) : items'[i].quantity > 0
  <2> SUFFICES ASSUME NEW i \in 1 .. Len(items) PROVE items'[i].quantity > 0
    OBVIOUS
  <2>1. items[i].quantity \in Nat /\ items[i].quantity > 0
    BY ALine DEF CartInv, CallsAdd
  <2>2. AtMost(items[i].quantity) > 0
    BY <2>1, AtMostBounds
  <2>3. QED
    BY <1>2, <2>1, <2>2
<1>6. DocumentOK'
  BY <1>2, <1>5 DEF DocumentOK, CartInv, OneLine
<1>7. ASSUME NEW i \in 1 .. Len(items), items'[i].quantity > MAX_ITEM_QUANTITY
      PROVE  faults' > 0 \/ \E s \in Requests : pc'[s] = "clamp" /\ product'[s] = items'[i].product_id
  <2>1. i \notin Lines(p)
    <3>1. AtMost(items[i].quantity) \in 0 .. MAX_ITEM_QUANTITY /\ MAX_ITEM_QUANTITY \in Nat
      BY ALine, AtMostBounds, ConstantsTyped DEF CartInv
    <3>2. QED
      BY <1>2, <1>7, <3>1
  <2>2. PICK x \in Products : x = items[i].product_id
    BY ALine DEF CartInv
  <2>3. x # p
    BY <2>1, <2>2 DEF Lines
  <2>4. faults' > 0 \/ \E s \in Requests : pc'[s] = "clamp" /\ product'[s] = x
    BY <1>2, <1>4, <1>7, <2>1, <2>2, <2>3, StillCovered
  <2>5. QED
    BY <1>2, <2>2, <2>4
<1>8. OverTheCeilingIsTransient'
  BY <1>2, <1>7 DEF OverTheCeilingIsTransient
<1>9. QED
  BY <1>4, <1>6, <1>8, CartInvParts, PTL

\* The operations of one update leave the requests where they are.
LEMMA AtomicOK ==
  ASSUME CartInv, UNCHANGED <<request, faults>>, exists' \in BOOLEAN,
         due' \in [Products -> 0 .. MAX_ITEM_QUANTITY]
  PROVE  /\ RequestsOK'
         /\ \A x \in Products : Covered(x) => Covered(x)'
<1>1. UNCHANGED <<pc, product, amount, faults>>
  BY DEF request
<1>2. QED
  BY <1>1 DEF CartInv, TypeOK, CallsAdd, RequestsOK, Covered

LEMMA ViewStep ==
  ASSUME CartInv, NEW r \in Requests, View(r)
  PROVE  CartInv'
BY AtomicOK, SameDocument DEF View, Atomic, CartInv, TypeOK

LEMMA EmptyStep ==
  ASSUME CartInv, Purge \/ \E r \in Requests : Clear(r)
  PROVE  CartInv'
<1>1. /\ UNCHANGED <<request, faults>> /\ exists' \in BOOLEAN /\ items' = <<>>
      /\ due' = [p \in Products |-> 0]
  BY DEF Purge, Clear, Atomic
<1>2. due' \in [Products -> 0 .. MAX_ITEM_QUANTITY]
  BY <1>1, ConstantsTyped
<1>3. QED
  BY <1>1, <1>2, AtomicOK, NoLines

\* The line that set_quantity finds.
LEMMA SetRows ==
  ASSUME CartInv, NEW r \in Requests, NEW p \in Products, NEW q \in Quantities, SetQuantity(r, p, q)
  PROVE  /\ \E i \in Lines(p) : i \in 1 .. Len(items) /\ items' = [items EXCEPT ![i].quantity = q]
         /\ q \in Nat \ {0} /\ q <= MAX_ITEM_QUANTITY
<1>1. PICK i \in Lines(p) : TRUE
  BY DEF SetQuantity, Has
<1>2. First(p) = i /\ i \in 1 .. Len(items)
  BY <1>1, TheLine
<1>3. items' = [items EXCEPT ![i].quantity = q]
  BY <1>2 DEF SetQuantity
<1>4. q \in Nat \ {0} /\ q <= MAX_ITEM_QUANTITY
  BY ConstantsTyped DEF Quantities
<1>5. QED
  BY <1>2, <1>3, <1>4

LEMMA SetStep ==
  ASSUME CartInv, NEW r \in Requests, NEW p \in Products, NEW q \in Quantities, SetQuantity(r, p, q)
  PROVE  CartInv'
<1>1. q \in Nat \ {0} /\ q \in 0 .. MAX_ITEM_QUANTITY
  BY SetRows, ConstantsTyped
<1>2. PICK i \in Lines(p) : i \in 1 .. Len(items) /\ items' = [items EXCEPT ![i].quantity = q]
  BY SetRows
<1>3. /\ UNCHANGED <<request, faults>> /\ exists' \in BOOLEAN
      /\ due' \in [Products -> 0 .. MAX_ITEM_QUANTITY]
  BY <1>1 DEF SetQuantity, Atomic, CartInv, TypeOK
<1>4. RequestsOK' /\ \A x \in Products : Covered(x) => Covered(x)'
  BY <1>3, AtomicOK
<1>5. /\ DocumentOK' /\ Len(items') = Len(items) /\ items'[i].quantity = q
      /\ \A j \in 1 .. Len(items) \ {i} : items'[j] = items[j]
  BY <1>1, <1>2, Touched
<1>6. ASSUME NEW j \in 1 .. Len(items), items'[j].quantity > MAX_ITEM_QUANTITY
      PROVE  faults' > 0 \/ \E s \in Requests : pc'[s] = "clamp" /\ product'[s] = items'[j].product_id
  <2>1. j # i
    BY <1>1, <1>5, <1>6, ConstantsTyped
  <2>2. items'[j] = items[j]
    BY <1>5, <2>1
  <2>3. PICK x \in Products : x = items[j].product_id
    BY ALine DEF CartInv
  <2>4. faults' > 0 \/ \E s \in Requests : pc'[s] = "clamp" /\ product'[s] = x
    BY <1>4, <1>6, <2>2, <2>3, StillCovered
  <2>5. QED
    BY <2>2, <2>3, <2>4
<1>7. OverTheCeilingIsTransient'
  BY <1>5, <1>6 DEF OverTheCeilingIsTransient
<1>8. QED
  BY <1>4, <1>5, <1>7, CartInvParts, PTL

LEMMA RemoveStep ==
  ASSUME CartInv, NEW r \in Requests, NEW p \in Products, Remove(r, p)
  PROVE  CartInv'
<1>1. PICK n \in 0 .. Len(items) : \E from \in [1 .. n -> 1 .. Len(items)] :
        /\ \A i, j \in 1 .. n : i < j => from[i] < from[j]
        /\ {from[i] : i \in 1 .. n} = (1 .. Len(items)) \ Lines(p)
        /\ items' = [i \in 1 .. n |-> items[from[i]]]
  BY DEF Remove
<1>2. PICK from \in [1 .. n -> 1 .. Len(items)] :
        /\ \A i, j \in 1 .. n : i < j => from[i] < from[j]
        /\ {from[i] : i \in 1 .. n} = (1 .. Len(items)) \ Lines(p)
        /\ items' = [i \in 1 .. n |-> items[from[i]]]
  BY <1>1
<1>3. /\ items' \in Seq(Line) /\ Len(items') = n
      /\ \A i \in 1 .. n : items'[i] = items[from[i]]
      /\ Lines(p)' = {}
      /\ \A q \in Products \ {p} :
           /\ \A i \in Lines(q)' : from[i] \in Lines(q)
           /\ \A j \in Lines(q) : \E i \in Lines(q)' : from[i] = j
      /\ \A i, j \in 1 .. n : from[i] = from[j] => i = j
  BY <1>2, PullRows
<1>4. /\ UNCHANGED <<request, faults>> /\ exists' \in BOOLEAN
      /\ due' \in [Products -> 0 .. MAX_ITEM_QUANTITY]
  BY ConstantsTyped DEF Remove, Atomic, CartInv, TypeOK
<1>5. RequestsOK' /\ \A x \in Products : Covered(x) => Covered(x)'
  BY <1>4, AtomicOK
<1>6. OneLine'
  <2> SUFFICES ASSUME NEW q \in Products, NEW i \in Lines(q)', NEW j \in Lines(q)' PROVE i = j
    BY DEF OneLine
  <2>1. q # p /\ i \in 1 .. n /\ j \in 1 .. n
    BY <1>3 DEF Lines
  <2>2. from[i] \in Lines(q) /\ from[j] \in Lines(q)
    BY <1>3, <2>1
  <2>3. from[i] = from[j]
    BY <2>2 DEF CartInv, OneLine
  <2>4. QED
    BY <1>3, <2>1, <2>3
<1>7. DocumentOK'
  BY <1>3, <1>6 DEF DocumentOK, CartInv, CallsAdd
<1>8. ASSUME NEW i \in 1 .. n, items'[i].quantity > MAX_ITEM_QUANTITY
      PROVE  faults' > 0 \/ \E s \in Requests : pc'[s] = "clamp" /\ product'[s] = items'[i].product_id
  <2>1. PICK j \in 1 .. Len(items) : j = from[i] /\ items'[i] = items[j]
    BY <1>3
  <2>2. PICK x \in Products : x = items[j].product_id
    BY ALine DEF CartInv
  <2>3. faults' > 0 \/ \E s \in Requests : pc'[s] = "clamp" /\ product'[s] = x
    BY <1>5, <1>8, <2>1, <2>2, StillCovered
  <2>4. QED
    BY <2>1, <2>2, <2>3
<1>9. OverTheCeilingIsTransient'
  BY <1>3, <1>8 DEF OverTheCeilingIsTransient
<1>10. QED
  BY <1>5, <1>7, <1>9, CartInvParts, PTL

\* A request that dies is what the lines it left over the ceiling are owed to.
LEMMA CrashStep ==
  ASSUME CartInv, NEW r \in Requests, Crash(r)
  PROVE  CartInv'
<1>1. /\ pc[r] # "idle" /\ Goto(r, "idle") /\ UNCHANGED <<exists, items, due>>
      /\ faults' = faults + 1 /\ faults \in Nat /\ exists \in BOOLEAN
      /\ due \in [Products -> 0 .. MAX_ITEM_QUANTITY]
  BY DEF Crash, document, CartInv, TypeOK
<1>2. RequestsOK'
  BY <1>1, MovedOn
<1>3. \A x \in Products : Covered(x)'
  BY <1>1 DEF Covered
<1>4. QED
  BY <1>1, <1>2, <1>3, SameDocument

LEMMA CartInvStep == CartInv /\ [Next]_vars => CartInv'
<1> SUFFICES ASSUME CartInv, [Next]_vars PROVE CartInv'
  OBVIOUS
<1>1. CASE UNCHANGED vars
  BY <1>1, AtomicOK, SameDocument DEF vars, document, CartInv, TypeOK
<1>2. CASE Purge
  BY <1>2, EmptyStep
<1>3. ASSUME NEW r \in Requests,
             \/ Bump(r) \/ Push(r) \/ Probe(r) \/ Create(r) \/ PushAgain(r) \/ Clamp(r)
             \/ View(r) \/ Clear(r) \/ Crash(r)
      PROVE  CartInv'
  BY <1>3, BumpStep, PushStep, ProbeCreateStep, PushAgainStep, ClampStep, ViewStep,
     EmptyStep, CrashStep
<1>4. ASSUME NEW r \in Requests, NEW p \in Products, Remove(r, p) PROVE CartInv'
  BY <1>4, RemoveStep
<1>5. ASSUME NEW r \in Requests, NEW p \in Products, NEW q \in Quantities,
             Call(r, p, q) \/ SetQuantity(r, p, q)
      PROVE  CartInv'
  BY <1>5, CallStep, SetStep
<1>6. QED
  BY <1>1, <1>2, <1>3, <1>4, <1>5 DEF Next

\* The inductive invariant of the cart holds of every behaviour.
THEOREM CartInvAlways == Spec => []CartInv
BY CartInvInit, CartInvStep, PTL DEF Spec

\* A cart is a list of lines of its catalogue whatever its requests do.
THEOREM CartTypeCorrect == Spec => []TypeOK
<1>1. CartInv => TypeOK
  BY DEF CartInv
<1>2. QED
  BY <1>1, CartInvAlways, PTL

\* However many first additions of a product race, it gets one line.
THEOREM AlwaysOneLine == Spec => []OneLinePerProduct
<1>1. CartInv => OneLinePerProduct
  <2> SUFFICES ASSUME CartInv, NEW p \in Products PROVE Cardinality(Lines(p)) <= 1
    BY DEF OneLinePerProduct
  <2>1. CASE Lines(p) = {}
    BY <2>1, FS_EmptySet
  <2>2. CASE Lines(p) # {}
    <3>1. PICK i : Lines(p) = {i}
      BY <2>2 DEF CartInv, OneLine
    <3>2. Cardinality(Lines(p)) = 1
      BY <3>1, FS_Singleton, Zenon
    <3>3. QED
      BY <3>2
  <2>3. QED
    BY <2>1, <2>2
<1>2. QED
  BY <1>1, CartInvAlways, PTL

\* A line over the ceiling has a request that is about to clamp it, or one that
\* died before it did.
THEOREM CeilingIsKept == Spec => []OverTheCeilingIsTransient
<1>1. CartInv => OverTheCeilingIsTransient
  BY DEF CartInv
<1>2. QED
  BY <1>1, CartInvAlways, PTL

-----------------------------------------------------------------------------
(* Refinement of AtomicCart *)

\* What the owner of the cart is shown of a product is its line, capped.
Owned(p) ==
  /\ \A i \in Lines(p) : quantity[p] = AtMost(items[i].quantity)
  /\ Lines(p) = {} => quantity[p] = 0
  /\ quantity[p] > 0 <=> Lines(p) # {}

QuantityOK == quantity \in [Products -> Nat] /\ \A p \in Products : Owned(p)

LEMMA QuantityIsOK == CartInv => QuantityOK
<1> SUFFICES ASSUME CartInv PROVE QuantityOK
  OBVIOUS
<1>1. ASSUME NEW p \in Products PROVE Owned(p) /\ quantity[p] \in Nat
  <2>1. quantity[p] = IF Has(p) THEN AtMost(items[First(p)].quantity) ELSE 0
    BY DEF quantity
  <2>2. CASE Lines(p) = {}
    BY <2>1, <2>2 DEF Has, Owned
  <2>3. CASE Lines(p) # {}
    <3>1. PICK i \in Lines(p) : TRUE
      BY <2>3
    <3>2. /\ First(p) = i /\ Has(p) /\ i \in 1 .. Len(items)
          /\ \A j \in Lines(p) : j = i
      BY <3>1, TheLine DEF CartInv, OneLine
    <3>3. PICK q \in Nat : q = items[i].quantity /\ q > 0
      BY <3>2, ALine DEF CartInv, CallsAdd
    <3>4. AtMost(q) > 0 /\ AtMost(q) \in Nat
      BY <3>3, ConstantsTyped DEF AtMost
    <3>5. quantity[p] = AtMost(q)
      BY <2>1, <3>2, <3>3
    <3>6. QED
      BY <2>3, <3>2, <3>3, <3>4, <3>5 DEF Owned
  <2>4. QED
    BY <2>2, <2>3
<1>2. quantity = [p \in Products |-> quantity[p]]
  BY DEF quantity
<1>3. QED
  BY <1>1, <1>2 DEF QuantityOK

LEMMA QuantityStaysOK == CartInv' => QuantityOK'
BY QuantityIsOK, PTL

\* A step that leaves every line where it is and no quantity different.
LEMMA NothingShown ==
  ASSUME QuantityOK, QuantityOK',
         \A p \in Products : Lines(p)' = Lines(p),
         \A p \in Products : \A i \in Lines(p) :
           AtMost(items'[i].quantity) = AtMost(items[i].quantity)
  PROVE  UNCHANGED quantity
<1>1. ASSUME NEW p \in Products PROVE quantity'[p] = quantity[p]
  <2>1. CASE Lines(p) = {}
    <3>1. Lines(p)' = {}
      BY <2>1
    <3>2. QED
      BY <2>1, <3>1 DEF QuantityOK, Owned
  <2>2. CASE Lines(p) # {}
    <3>1. PICK i \in Lines(p) : TRUE
      BY <2>2
    <3>2. i \in Lines(p)'
      BY <3>1
    <3>3. quantity[p] = AtMost(items[i].quantity) /\ quantity'[p] = AtMost(items'[i].quantity)
      BY <3>1, <3>2 DEF QuantityOK, Owned, AtMost
    <3>4. QED
      BY <3>1, <3>3
  <2>3. QED
    BY <2>1, <2>2
<1>2. quantity \in [Products -> Nat] /\ quantity' \in [Products -> Nat]
  BY DEF QuantityOK
<1>3. QED
  BY <1>1, <1>2

\* A step that leaves the document alone shows nothing.
LEMMA UnchangedShown ==
  ASSUME UNCHANGED items
  PROVE  UNCHANGED quantity
BY DEF quantity, Has, First, Lines

\* What one operation does to the quantities, as AtomicCart writes it.
LEMMA OneQuantity ==
  ASSUME QuantityOK, QuantityOK', NEW p \in Products, NEW q \in Nat,
         quantity'[p] = q,
         \A x \in Products \ {p} : quantity'[x] = quantity[x]
  PROVE  quantity' = [quantity EXCEPT ![p] = q]
BY DEF QuantityOK

\* AtomicCart counts as Cart does.
LEMMA SameCount == \A S : Promise!Cardinality(S) = Cardinality(S)
BY Zenon DEF Promise!Cardinality, Cardinality

\* While there is room for a line there is room for a product.
LEMMA RoomForOne ==
  ASSUME CartInv, QuantityOK, Len(items) < MAX_CART_ITEMS
  PROVE  Promise!Cardinality(Promise!Content) < MAX_CART_ITEMS
<1>1. PICK S : S = Promise!Content
  OBVIOUS
<1>2. S = {p \in Products : Lines(p) # {}}
  BY <1>1 DEF Promise!Content, QuantityOK, Owned
<1>3. PICK n \in Nat : n = Len(items)
  BY DEF CartInv, TypeOK
<1>4. PICK line : line = [p \in S |-> First(p)]
  OBVIOUS
<1>5. \A p \in S : line[p] \in 1 .. n /\ items[line[p]].product_id = p
  <2> SUFFICES ASSUME NEW p \in S PROVE line[p] \in 1 .. n /\ items[line[p]].product_id = p
    OBVIOUS
  <2>1. p \in Products /\ line[p] = First(p)
    BY <1>2, <1>4
  <2>2. PICK i \in Lines(p) : TRUE
    BY <1>2
  <2>3. QED
    BY <1>3, <2>1, <2>2, TheLine
<1>6. line \in [S -> 1 .. n] /\ \A p, x \in S : line[p] = line[x] => p = x
  BY <1>4, <1>5
<1>7. line \in Injection(S, 1 .. n)
  BY <1>6 DEF Injection, IsInjective
<1>8. IsFiniteSet(1 .. n) /\ Cardinality(1 .. n) = n
  BY FS_Interval
<1>9. Cardinality(S) <= n /\ IsFiniteSet(S)
  BY <1>7, <1>8, FS_Injection
<1>10. Cardinality(S) \in Nat
  BY <1>9, FS_CardinalityType
<1>11. QED
  BY <1>1, <1>3, <1>9, <1>10, SameCount, ConstantsTyped

\* An increment, not yet clamped, is an addition already.
LEMMA BumpShown ==
  ASSUME CartInv, QuantityOK, QuantityOK', NEW r \in Requests, Bump(r)
  PROVE  [Promise!Next]_quantity
<1>1. CASE ~Has(product[r])
  BY <1>1, UnchangedShown DEF Bump
<1>2. CASE Has(product[r])
  <2>1. PICK p \in Products : p = product[r]
    BY DEF Bump, CartInv, CallsAdd
  <2>2. PICK a \in Quantities : a = amount[r]
    BY DEF CartInv, TypeOK
  <2>3. PICK i \in Lines(p) : \E q \in Nat \ {0} :
          /\ i \in 1 .. Len(items) /\ q = items[i].quantity + a
          /\ items' = [items EXCEPT ![i].quantity = q]
    BY <1>2, <2>1, <2>2, BumpRows
  <2>4. PICK q \in Nat \ {0} :
          /\ i \in 1 .. Len(items) /\ q = items[i].quantity + a
          /\ items' = [items EXCEPT ![i].quantity = q]
    BY <2>3
  <2>5. /\ \A x \in Products : Lines(x)' = Lines(x)
        /\ items'[i].quantity = q
        /\ \A j \in 1 .. Len(items) \ {i} : items'[j] = items[j]
    BY <2>4, Touched
  <2>6. PICK m \in Nat : m = items[i].quantity
    BY <2>4, ALine DEF CartInv
  <2>7. quantity[p] = AtMost(m) /\ quantity[p] > 0
    BY <2>3, <2>6 DEF QuantityOK, Owned
  <2>8. quantity'[p] = AtMost(q)
    BY <2>3, <2>5 DEF QuantityOK, Owned, AtMost
  <2>9. a \in Nat /\ a \in 1 .. MAX_REQUEST_QUANTITY
    BY ConstantsTyped DEF Quantities
  <2>10. q = m + a
    BY <2>4, <2>6
  <2>11. quantity'[p] = AtMost(quantity[p] + a)
    BY <2>6, <2>7, <2>8, <2>9, <2>10, ConstantsTyped DEF AtMost
  <2>12. ASSUME NEW x \in Products \ {p} PROVE quantity'[x] = quantity[x]
    <3>1. CASE Lines(x) = {}
      <4>1. Lines(x)' = {}
        BY <2>5, <3>1
      <4>2. QED
        BY <3>1, <4>1 DEF QuantityOK, Owned
    <3>2. CASE Lines(x) # {}
      <4>1. PICK j \in Lines(x) : TRUE
        BY <3>2
      <4>2. j \in Lines(x)' /\ j # i /\ j \in 1 .. Len(items)
        BY <2>3, <2>5, <4>1, TheLine
      <4>3. quantity[x] = AtMost(items[j].quantity) /\ quantity'[x] = AtMost(items'[j].quantity)
        BY <4>1, <4>2 DEF QuantityOK, Owned, AtMost
      <4>4. QED
        BY <2>5, <4>2, <4>3
    <3>3. QED
      BY <3>1, <3>2
  <2>13. PICK z : z = AtMost(quantity[p] + a)
    OBVIOUS
  <2>14. z \in Nat
    BY <2>9, <2>13, ConstantsTyped DEF AtMost, QuantityOK
  <2>15. quantity' = [quantity EXCEPT ![p] = z]
    BY <2>11, <2>12, <2>13, <2>14, OneQuantity
  <2>16. Promise!Add(p, a)
    BY <2>7, <2>13, <2>15 DEF Promise!Add, Promise!Content, Promise!AtMost, AtMost
  <2>17. QED
    BY <2>9, <2>16 DEF Promise!Next
<1>3. QED
  BY <1>1, <1>2

\* A push that finds room is an addition of the product, one that does not is none.
LEMMA PushShown ==
  ASSUME CartInv, QuantityOK, QuantityOK', NEW r \in Requests, pc[r] # "idle", PushItem(r)
  PROVE  [Promise!Next]_quantity
<1>1. CASE ~CanPush(product[r])
  BY <1>1, UnchangedShown DEF PushItem
<1>2. CASE CanPush(product[r])
  <2>1. PICK p \in Products : p = product[r]
    BY DEF CartInv, CallsAdd
  <2>2. PICK n \in Nat : n = Len(items) + 1
    BY DEF CartInv, TypeOK
  <2>3. PICK a \in Quantities : a = amount[r]
    BY DEF CartInv, TypeOK
  <2>4. /\ \A i \in 1 .. Len(items) : items'[i] = items[i]
        /\ items'[n] = [product_id |-> p, quantity |-> a]
        /\ Lines(p)' = {n}
        /\ \A q \in Products \ {p} : Lines(q)' = Lines(q)
    BY <1>2, <2>1, <2>2, <2>3, PushRows
  <2>5. a \in Nat /\ a \in 1 .. MAX_REQUEST_QUANTITY /\ a <= MAX_ITEM_QUANTITY
    BY ConstantsTyped DEF Quantities
  <2>6. Lines(p) = {} /\ Len(items) < MAX_CART_ITEMS
    BY <1>2, <2>1 DEF CanPush, Has
  <2>7. quantity[p] = 0
    BY <2>6 DEF QuantityOK, Owned
  <2>8. quantity'[p] = AtMost(a)
    BY <2>4 DEF QuantityOK, Owned, AtMost
  <2>9. AtMost(a) = a
    BY <2>5, ConstantsTyped DEF AtMost
  <2>10. ASSUME NEW x \in Products \ {p} PROVE quantity'[x] = quantity[x]
    <3>1. CASE Lines(x) = {}
      <4>1. Lines(x)' = {}
        BY <2>4, <3>1
      <4>2. QED
        BY <3>1, <4>1 DEF QuantityOK, Owned
    <3>2. CASE Lines(x) # {}
      <4>1. PICK j \in Lines(x) : TRUE
        BY <3>2
      <4>2. j \in Lines(x)' /\ j \in 1 .. Len(items)
        BY <2>4, <4>1, TheLine
      <4>3. quantity[x] = AtMost(items[j].quantity) /\ quantity'[x] = AtMost(items'[j].quantity)
        BY <4>1, <4>2 DEF QuantityOK, Owned, AtMost
      <4>4. QED
        BY <2>4, <4>2, <4>3
    <3>3. QED
      BY <3>1, <3>2
  <2>11. quantity' = [quantity EXCEPT ![p] = a]
    BY <2>5, <2>8, <2>9, <2>10, OneQuantity
  <2>12. Promise!AtMost(quantity[p] + a) = a
    BY <2>5, <2>7, <2>9 DEF Promise!AtMost, AtMost
  <2>13. Promise!Cardinality(Promise!Content) < MAX_CART_ITEMS
    BY <2>6, RoomForOne
  <2>14. Promise!Add(p, a)
    <3>1. a = IF quantity[p] + a > MAX_ITEM_QUANTITY THEN MAX_ITEM_QUANTITY ELSE quantity[p] + a
      BY <2>12 DEF Promise!AtMost
    <3>2. QED
      BY <2>11, <2>13, <3>1 DEF Promise!Add, Promise!AtMost
  <2>15. QED
    BY <2>5, <2>14 DEF Promise!Next
<1>3. QED
  BY <1>1, <1>2

\* A clamp shows nothing: the quantity was shown capped.
LEMMA ClampShown ==
  ASSUME CartInv, QuantityOK, QuantityOK', NEW r \in Requests, Clamp(r)
  PROVE  UNCHANGED quantity
<1>1. PICK p \in Products : p = product[r]
  BY DEF Clamp, CartInv, CallsAdd
<1>2. /\ \A x \in Products : Lines(x)' = Lines(x)
      /\ \A i \in 1 .. Len(items) \ Lines(p) : items'[i] = items[i]
      /\ \A i \in Lines(p) : items'[i].quantity = AtMost(items[i].quantity)
  BY <1>1, ClampRows
<1>3. ASSUME NEW x \in Products, NEW i \in Lines(x)
      PROVE  AtMost(items'[i].quantity) = AtMost(items[i].quantity)
  <2>1. i \in 1 .. Len(items)
    BY TheLine
  <2>2. PICK m \in Nat : m = items[i].quantity
    BY <2>1, ALine DEF CartInv
  <2>3. AtMost(AtMost(m)) = AtMost(m)
    BY <2>2, ConstantsTyped DEF AtMost
  <2>4. items'[i].quantity = m \/ items'[i].quantity = AtMost(m)
    BY <1>2, <2>1, <2>2
  <2>5. QED
    BY <2>2, <2>3, <2>4
<1>4. QED
  BY <1>2, <1>3, NothingShown

LEMMA SetShown ==
  ASSUME CartInv, QuantityOK, QuantityOK',
         NEW r \in Requests, NEW p \in Products, NEW q \in Quantities, SetQuantity(r, p, q)
  PROVE  Promise!Set(p, q)
<1>1. q \in Nat \ {0} /\ q <= MAX_ITEM_QUANTITY /\ AtMost(q) = q
  BY SetRows, ConstantsTyped DEF AtMost
<1>2. PICK i \in Lines(p) : i \in 1 .. Len(items) /\ items' = [items EXCEPT ![i].quantity = q]
  BY SetRows
<1>3. /\ \A x \in Products : Lines(x)' = Lines(x)
      /\ items'[i].quantity = q
      /\ \A j \in 1 .. Len(items) \ {i} : items'[j] = items[j]
  BY <1>1, <1>2, Touched
<1>4. quantity'[p] = q
  BY <1>1, <1>2, <1>3 DEF QuantityOK, Owned, AtMost
<1>5. ASSUME NEW x \in Products \ {p} PROVE quantity'[x] = quantity[x]
  <2>1. CASE Lines(x) = {}
    <3>1. Lines(x)' = {}
      BY <1>3, <2>1
    <3>2. QED
      BY <2>1, <3>1 DEF QuantityOK, Owned
  <2>2. CASE Lines(x) # {}
    <3>1. PICK j \in Lines(x) : TRUE
      BY <2>2
    <3>2. j \in Lines(x)' /\ j # i /\ j \in 1 .. Len(items)
      BY <1>2, <1>3, <3>1, TheLine
    <3>3. quantity[x] = AtMost(items[j].quantity) /\ quantity'[x] = AtMost(items'[j].quantity)
      BY <3>1, <3>2 DEF QuantityOK, Owned, AtMost
    <3>4. QED
      BY <1>3, <3>2, <3>3
  <2>3. QED
    BY <2>1, <2>2
<1>6. quantity' = [quantity EXCEPT ![p] = q]
  BY <1>1, <1>4, <1>5, OneQuantity
<1>7. quantity[p] > 0
  BY <1>2 DEF QuantityOK, Owned
<1>8. QED
  BY <1>6, <1>7 DEF Promise!Set, Promise!Content

LEMMA RemoveShown ==
  ASSUME CartInv, QuantityOK, QuantityOK',
         NEW r \in Requests, NEW p \in Products, Remove(r, p)
  PROVE  Promise!Remove(p)
<1>1. PICK n \in 0 .. Len(items) : \E from \in [1 .. n -> 1 .. Len(items)] :
        /\ \A i, j \in 1 .. n : i < j => from[i] < from[j]
        /\ {from[i] : i \in 1 .. n} = (1 .. Len(items)) \ Lines(p)
        /\ items' = [i \in 1 .. n |-> items[from[i]]]
  BY DEF Remove
<1>2. PICK from \in [1 .. n -> 1 .. Len(items)] :
        /\ \A i, j \in 1 .. n : i < j => from[i] < from[j]
        /\ {from[i] : i \in 1 .. n} = (1 .. Len(items)) \ Lines(p)
        /\ items' = [i \in 1 .. n |-> items[from[i]]]
  BY <1>1
<1>3. /\ items' \in Seq(Line) /\ Len(items') = n
      /\ \A i \in 1 .. n : items'[i] = items[from[i]]
      /\ Lines(p)' = {}
      /\ \A q \in Products \ {p} :
           /\ \A i \in Lines(q)' : from[i] \in Lines(q)
           /\ \A j \in Lines(q) : \E i \in Lines(q)' : from[i] = j
      /\ \A i, j \in 1 .. n : from[i] = from[j] => i = j
  BY <1>2, PullRows
<1>4. quantity'[p] = 0
  BY <1>3 DEF QuantityOK, Owned
<1>5. ASSUME NEW x \in Products \ {p} PROVE quantity'[x] = quantity[x]
  <2>1. CASE Lines(x) = {}
    <3>1. Lines(x)' = {}
      BY <1>3, <2>1
    <3>2. QED
      BY <2>1, <3>1 DEF QuantityOK, Owned
  <2>2. CASE Lines(x) # {}
    <3>1. PICK j \in Lines(x) : TRUE
      BY <2>2
    <3>2. PICK i \in Lines(x)' : from[i] = j
      BY <1>3, <3>1
    <3>3. i \in 1 .. n /\ items'[i] = items[j]
      BY <1>3, <3>2 DEF Lines
    <3>4. quantity[x] = AtMost(items[j].quantity) /\ quantity'[x] = AtMost(items'[i].quantity)
      BY <3>1, <3>2 DEF QuantityOK, Owned, AtMost
    <3>5. QED
      BY <3>3, <3>4
  <2>3. QED
    BY <2>1, <2>2
<1>6. quantity' = [quantity EXCEPT ![p] = 0]
  BY <1>4, <1>5, OneQuantity
<1>7. QED
  BY <1>6 DEF Promise!Remove

LEMMA EmptyShown ==
  ASSUME QuantityOK', items' = <<>>
  PROVE  Promise!Clear
<1>1. \A p \in Products : Lines(p)' = {}
  BY DEF Lines
<1>2. \A p \in Products : quantity'[p] = 0
  BY <1>1 DEF QuantityOK, Owned
<1>3. QED
  BY <1>2 DEF QuantityOK, Promise!Clear

LEMMA PromiseStep == CartInv /\ CartInv' /\ [Next]_vars => [Promise!Next]_quantity
<1> SUFFICES ASSUME CartInv, CartInv', [Next]_vars PROVE [Promise!Next]_quantity
  OBVIOUS
<1>1. QuantityOK /\ QuantityOK'
  BY QuantityIsOK, QuantityStaysOK
<1>2. CASE UNCHANGED vars
  BY <1>2, UnchangedShown DEF vars, document
<1>3. CASE Purge
  BY <1>1, <1>3, EmptyShown DEF Purge, Promise!Next
<1>4. ASSUME NEW r \in Requests, Probe(r) \/ Create(r) \/ View(r) \/ Crash(r)
      PROVE  [Promise!Next]_quantity
  BY <1>4, UnchangedShown DEF Probe, Create, View, Crash, document
<1>5. ASSUME NEW r \in Requests, Clear(r) PROVE [Promise!Next]_quantity
  BY <1>1, <1>5, EmptyShown DEF Clear, Promise!Next
<1>6. ASSUME NEW r \in Requests, Bump(r) \/ Push(r) \/ PushAgain(r) \/ Clamp(r)
      PROVE  [Promise!Next]_quantity
  BY <1>1, <1>6, BumpShown, PushShown, ClampShown DEF Push, PushAgain
<1>7. ASSUME NEW r \in Requests, NEW p \in Products, Remove(r, p)
      PROVE  [Promise!Next]_quantity
  BY <1>1, <1>7, RemoveShown DEF Promise!Next
<1>8. ASSUME NEW r \in Requests, NEW p \in Products, NEW q \in Quantities,
             Call(r, p, q) \/ SetQuantity(r, p, q)
      PROVE  [Promise!Next]_quantity
  <2>1. CASE Call(r, p, q)
    BY <2>1, UnchangedShown DEF Call, document
  <2>2. CASE SetQuantity(r, p, q)
    <3>1. Promise!Set(p, q) /\ q \in 1 .. MAX_REQUEST_QUANTITY
      BY <1>1, <2>2, SetShown DEF Quantities
    <3>2. QED
      BY <3>1 DEF Promise!Next
  <2>3. QED
    BY <1>8, <2>1, <2>2
<1>9. QED
  BY <1>2, <1>3, <1>4, <1>5, <1>6, <1>7, <1>8 DEF Next

LEMMA PromiseInit == Init => Promise!Init
<1> SUFFICES ASSUME Init PROVE Promise!Init
  OBVIOUS
<1>1. \A p \in Products : Lines(p) = {}
  BY DEF Init, Lines
<1>2. QED
  BY <1>1 DEF quantity, Has, Promise!Init

\* Each update of add_to_cart, and each other operation, is one whole operation
\* on the quantities, or none, whatever other requests do in between.
THEOREM CartKeepsPromise == Spec => KeepsPromise
BY CartInvAlways, PromiseInit, PromiseStep, PTL DEF Spec, KeepsPromise, Promise!Spec

=============================================================================
