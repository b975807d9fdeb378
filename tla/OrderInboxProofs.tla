-------------------------- MODULE OrderInboxProofs --------------------------
(* Proofs about module OrderInbox, for any number of orders, events, workers *)
(* and faults and any batch size.                                           *)
EXTENDS OrderInbox, TLAPS

-----------------------------------------------------------------------------
(* The transition table *)

LEMMA ReachTable ==
  /\ Reach("pending") = Status
  /\ Reach("paid") = {"paid", "refunded", "cancelled"}
  /\ Reach("failed") = Status
  /\ Reach("refunded") = {"refunded"}
  /\ Reach("cancelled") = {"cancelled"}
<1>1. After({"refunded"}) = {"refunded"}
  BY DEF After, ALLOWED_TRANSITIONS
<1>2. After({"cancelled"}) = {"cancelled"}
  BY DEF After, ALLOWED_TRANSITIONS
<1>3. After({"paid"}) = {"paid", "refunded", "cancelled"}
  BY DEF After, ALLOWED_TRANSITIONS
<1>4. After({"paid", "refunded", "cancelled"}) = {"paid", "refunded", "cancelled"}
  BY DEF After, ALLOWED_TRANSITIONS
<1>5. After({"pending"}) = {"pending", "paid", "failed", "cancelled"}
  BY DEF After, ALLOWED_TRANSITIONS
<1>6. After({"failed"}) = {"failed", "pending", "cancelled"}
  BY DEF After, ALLOWED_TRANSITIONS
<1>7. After({"pending", "paid", "failed", "cancelled"}) = Status
  BY DEF After, ALLOWED_TRANSITIONS, Status
<1>8. After({"failed", "pending", "cancelled"}) = {"pending", "paid", "failed", "cancelled"}
  BY DEF After, ALLOWED_TRANSITIONS
<1>9. After(Status) = Status
  BY DEF After, ALLOWED_TRANSITIONS, Status
<1>10. QED
  BY <1>1, <1>2, <1>3, <1>4, <1>5, <1>6, <1>7, <1>8, <1>9 DEF Reach

\* A status reached from a reached status is reached, and one transition
\* reaches its target.
LEMMA ReachClosed ==
  ASSUME NEW s \in Status
  PROVE  /\ s \in Reach(s) /\ Reach(s) \subseteq Status
         /\ \A t \in Reach(s) : Reach(t) \subseteq Reach(s)
         /\ \A t \in ALLOWED_TRANSITIONS[s] : t \in Reach(s)
BY ReachTable DEF Status, ALLOWED_TRANSITIONS

LEMMA EventsMean ==
  ASSUME NEW e \in Events
  PROVE  Says(e) \in Status /\ Target(e) = Says(e) /\ OrderOf[e] \in Orders
BY ConstantsTyped
DEF Says, Target, SALEOR_STATUS, EVENT_TO_STATUS, ALLOWED_WEBHOOK_EVENTS, Status

-----------------------------------------------------------------------------
(* The invariant *)

\* Every stored event was emitted, and Saleor still is where it said or on.
EventsAreTrue ==
  /\ \A e \in Events : status[e] # "absent" => e \in sent
  /\ \A e \in sent : truth[OrderOf[e]] \in Reach(Says(e))

InboxInv == TypeOK /\ EventsAreTrue /\ LocalIsBehind /\ ProcessedIsApplied

LEMMA TypeStep == TypeOK /\ [Next]_vars => TypeOK'
<1> SUFFICES ASSUME TypeOK, [Next]_vars PROVE TypeOK'
  OBVIOUS
<1> USE ConstantsTyped, EventsMean
<1>1. ASSUME NEW o \in Orders, SaleorOrder(o) PROVE TypeOK'
  BY <1>1 DEF TypeOK, SaleorOrder, worker, Status
<1>2. ASSUME NEW o \in Orders, CreateOrder(o) PROVE TypeOK'
  BY <1>2 DEF TypeOK, CreateOrder, saleor, worker, Status
<1>3. ASSUME NEW e \in Events, SaleorEmits(e) PROVE TypeOK'
  BY <1>3 DEF TypeOK, SaleorEmits, worker
<1>4. ASSUME NEW e \in Events, Receive(e) PROVE TypeOK'
  BY <1>4 DEF TypeOK, Receive, Publish, Fault, saleor, worker
<1>5. ASSUME NEW e \in Events, Purge(e) PROVE TypeOK'
  BY <1>5 DEF TypeOK, Purge, saleor, worker
<1>6. ASSUME NEW w \in Workers, NEW e \in Events, Take(w, e) PROVE TypeOK'
  BY <1>6 DEF TypeOK, Take, saleor
<1>7. ASSUME NEW w \in Workers, Process(w) PROVE TypeOK'
  <2>1. held[w] \in Events
    BY <1>7 DEF TypeOK, Process
  <2>2. Verdict(held[w]) \in {"ignored", "pending", "processed", "rejected"}
    BY DEF Verdict
  <2>3. status' \in [Events -> {"absent", "pending", "processed", "ignored", "rejected"}]
    BY <1>7, <2>1, <2>2 DEF TypeOK, Process
  <2>4. order' \in [Orders -> Status \cup {"absent"}]
    BY <1>7, <2>1 DEF TypeOK, Process
  <2>5. QED
    BY <1>7, <2>3, <2>4 DEF TypeOK, Process, saleor
<1>8. ASSUME NEW w \in Workers, Ack(w) PROVE TypeOK'
  BY <1>8 DEF TypeOK, Ack, Idle, saleor
<1>9. ASSUME NEW w \in Workers, Redeliver(w) PROVE TypeOK'
  BY <1>9 DEF TypeOK, Redeliver, Publish, Idle, Fault, saleor
<1>10. ASSUME NEW w \in Workers, Drop(w) PROVE TypeOK'
  BY <1>10 DEF TypeOK, Drop, Idle, Fault, saleor
<1>11. CASE Recover
  BY <1>11 DEF TypeOK, Recover, Fault, saleor, worker
<1>12. CASE UNCHANGED vars
  BY <1>12 DEF TypeOK, vars, saleor, worker
<1>13. QED
  BY <1>1, <1>2, <1>3, <1>4, <1>5, <1>6, <1>7, <1>8, <1>9, <1>10, <1>11, <1>12
  DEF Next

LEMMA TypeInit == Init => TypeOK
BY ConstantsTyped DEF Init, TypeOK

\* Every variable of the inbox keeps its type in every behaviour.
THEOREM InboxTypeCorrect == Spec => []TypeOK
BY TypeInit, TypeStep, PTL DEF Spec

\* The order row after a step is one the row before it may reach.
Forward(o) ==
  order[o] # "absent" => order'[o] # "absent" /\ order'[o] \in Reach(order[o])

LEMMA InvStep ==
  ASSUME InboxInv, [Next]_vars
  PROVE  InboxInv' /\ \A o \in Orders : Forward(o)
<1> USE ConstantsTyped
<1>0. TypeOK'
  BY TypeStep DEF InboxInv
<1>1. ASSUME NEW o \in Orders, SaleorOrder(o)
      PROVE  InboxInv' /\ \A p \in Orders : Forward(p)
  <2>1. \A e \in sent : OrderOf[e] # o
    BY <1>1, EventsMean, ReachClosed
    DEF SaleorOrder, InboxInv, TypeOK, EventsAreTrue, Status
  <2>2. order[o] = "absent"
    BY <1>1 DEF SaleorOrder, InboxInv, LocalIsBehind
  <2>3. QED
    BY <1>0, <1>1, <2>1, <2>2, ReachClosed
    DEF SaleorOrder, InboxInv, TypeOK, EventsAreTrue, LocalIsBehind,
        ProcessedIsApplied, Forward
<1>2. ASSUME NEW o \in Orders, CreateOrder(o)
      PROVE  InboxInv' /\ \A p \in Orders : Forward(p)
  <2>1. truth[o] \in Reach("pending")
    BY <1>2, ReachTable DEF CreateOrder, InboxInv, TypeOK
  <2>2. QED
    BY <1>0, <1>2, <2>1, ReachClosed
    DEF CreateOrder, InboxInv, TypeOK, EventsAreTrue, LocalIsBehind,
        ProcessedIsApplied, Forward, saleor
<1>3. ASSUME NEW e \in Events, SaleorEmits(e)
      PROVE  InboxInv' /\ \A p \in Orders : Forward(p)
  <2> DEFINE o == OrderOf[e]
  <2>1. /\ o \in Orders /\ truth[o] \in Status /\ Says(e) \in Reach(truth[o])
        /\ truth' = [truth EXCEPT ![o] = Says(e)] /\ sent' = sent \cup {e}
    BY <1>3, EventsMean, ReachClosed DEF SaleorEmits, InboxInv, TypeOK
  <2>2. \A s \in Status : truth[o] \in Reach(s) => Says(e) \in Reach(s)
    BY <2>1, ReachClosed
  <2>3. EventsAreTrue'
    BY <1>3, <2>1, <2>2, EventsMean, ReachClosed
    DEF SaleorEmits, InboxInv, TypeOK, EventsAreTrue
  <2>4. LocalIsBehind'
    BY <1>3, <2>1, <2>2, EventsMean
    DEF SaleorEmits, InboxInv, TypeOK, LocalIsBehind, Status
  <2>5. ProcessedIsApplied' /\ \A p \in Orders : Forward(p)
    BY <1>3, ReachClosed DEF SaleorEmits, InboxInv, TypeOK, ProcessedIsApplied, Forward
  <2>6. QED
    BY <1>0, <2>3, <2>4, <2>5 DEF InboxInv
<1>4. ASSUME NEW e \in Events, Receive(e)
      PROVE  InboxInv' /\ \A p \in Orders : Forward(p)
  BY <1>0, <1>4, ReachClosed
  DEF Receive, InboxInv, TypeOK, EventsAreTrue, LocalIsBehind,
      ProcessedIsApplied, Forward, saleor
<1>5. ASSUME NEW e \in Events, Purge(e)
      PROVE  InboxInv' /\ \A p \in Orders : Forward(p)
  BY <1>0, <1>5, ReachClosed
  DEF Purge, InboxInv, TypeOK, EventsAreTrue, LocalIsBehind,
      ProcessedIsApplied, Forward, saleor
<1>6. ASSUME NEW w \in Workers, Process(w)
      PROVE  InboxInv' /\ \A p \in Orders : Forward(p)
  <2> DEFINE e == held[w]
             o == OrderOf[e]
  <2>1. e \in Events /\ o \in Orders /\ Target(e) = Says(e) /\ Says(e) \in Status
    BY <1>6, EventsMean DEF Process, InboxInv, TypeOK
  <2>2. CASE UNCHANGED <<status, order>>
    BY <1>0, <1>6, <2>2, ReachClosed
    DEF Process, InboxInv, TypeOK, EventsAreTrue, LocalIsBehind,
        ProcessedIsApplied, Forward, saleor
  <2>3. CASE status[e] = "pending" /\ Verdict(e) # "processed"
    BY <1>0, <1>6, <2>1, <2>3, ReachClosed
    DEF Process, InboxInv, TypeOK, EventsAreTrue, LocalIsBehind,
        ProcessedIsApplied, Forward, saleor
  <2>4. CASE status[e] = "pending" /\ Verdict(e) = "processed"
    <3>1. /\ status' = [status EXCEPT ![e] = "processed"]
          /\ order' = [order EXCEPT ![o] = Says(e)]
          /\ UNCHANGED <<truth, sent>>
      BY <1>6, <2>1, <2>4 DEF Process, saleor
    <3>2. order[o] \in Status /\ Says(e) \in Reach(order[o])
      BY <2>1, <2>4, ReachClosed DEF Verdict, InboxInv, TypeOK
    <3>3. truth[o] \in Reach(Says(e)) /\ truth[o] # "absent"
      BY <2>1, <2>4, ReachClosed DEF InboxInv, EventsAreTrue, Status
    <3>4. \A s \in Status : order[o] \in Reach(s) => Says(e) \in Reach(s)
      BY <3>2, ReachClosed
    <3>5. \A p \in Orders : Forward(p)
      <4>1. Forward(o)
        BY <2>1, <3>1, <3>2 DEF Forward, InboxInv, TypeOK, Status
      <4>2. ASSUME NEW p \in Orders, p # o PROVE Forward(p)
        <5>1. order'[p] = order[p]
          BY <3>1, <4>2 DEF InboxInv, TypeOK
        <5>2. order[p] # "absent" => order[p] \in Status
          BY DEF InboxInv, TypeOK
        <5>3. order[p] # "absent" => order[p] \in Reach(order[p])
          BY <5>2, ReachClosed
        <5>4. QED
          BY <5>1, <5>3 DEF Forward
      <4>3. QED
        BY <4>1, <4>2
    <3>6. EventsAreTrue'
      BY <2>1, <2>4, <3>1 DEF InboxInv, TypeOK, EventsAreTrue
    <3>7. LocalIsBehind'
      BY <2>1, <3>1, <3>3 DEF InboxInv, TypeOK, LocalIsBehind
    <3>8. ProcessedIsApplied'
      <4>1. SUFFICES ASSUME NEW d \in Events, status'[d] = "processed"
                     PROVE  /\ order'[OrderOf[d]] # "absent"
                            /\ order'[OrderOf[d]] \in Reach(Says(d))
        BY DEF ProcessedIsApplied
      <4>2. CASE d = e
        BY <2>1, <3>1, <4>2, ReachClosed DEF InboxInv, TypeOK, Status
      <4>3. CASE d # e
        BY <2>1, <3>1, <3>4, <4>1, <4>3, EventsMean
        DEF InboxInv, TypeOK, ProcessedIsApplied, Status
      <4>4. QED
        BY <4>2, <4>3
    <3>9. QED
      BY <1>0, <3>5, <3>6, <3>7, <3>8 DEF InboxInv
  <2>5. QED
    BY <1>6, <2>2, <2>3, <2>4 DEF Process
<1>7. CASE UNCHANGED <<truth, sent, order, status>>
  BY <1>0, <1>7, ReachClosed
  DEF InboxInv, TypeOK, EventsAreTrue, LocalIsBehind, ProcessedIsApplied, Forward
<1>8. QED
  BY <1>1, <1>2, <1>3, <1>4, <1>5, <1>6, <1>7
  DEF Next, Take, Ack, Redeliver, Drop, Recover, vars, saleor

LEMMA InvInit == Init => InboxInv
BY TypeInit DEF Init, InboxInv, EventsAreTrue, LocalIsBehind, ProcessedIsApplied

LEMMA InvAlways == Spec => []InboxInv
<1>1. InboxInv /\ [Next]_vars => InboxInv'
  BY InvStep
<1>2. QED
  BY InvInit, <1>1, PTL DEF Spec

\* However events are delayed, duplicated, reordered or lost on the way to a
\* worker, the local order is between what was processed and what Saleor has.
THEOREM LocalAlwaysInStep == Spec => []LocalInStep
<1>1. InboxInv => LocalInStep
  BY DEF InboxInv, LocalInStep
<1>2. QED
  BY InvAlways, <1>1, PTL

\* No event ever moves a local order backwards.
THEOREM OrdersNeverRegress == Spec => NeverRegresses
<1> DEFINE Step == \A o \in Orders : order[o] # "absent" =>
                     order'[o] # "absent" /\ order'[o] \in Reach(order[o])
<1>1. InboxInv /\ [Next]_vars => [Step]_vars
  BY InvStep DEF Forward
<1>2. QED
  BY InvAlways, <1>1, PTL DEF Spec, NeverRegresses

=============================================================================
