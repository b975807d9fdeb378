----------------------------- MODULE OrderInbox -----------------------------
(***************************************************************************)
(* The webhook inbox: payments/views.py saleor_webhook_view stores each    *)
(* event Saleor delivers and publishes a task; payments/tasks.py           *)
(* process_webhook_event applies it to the local Order, and                *)
(* recover_pending_webhooks republishes what is still pending; retention   *)
(* (purge_expired_data.py) deletes what is settled.                        *)
(*                                                                         *)
(* An event is named by its fingerprint, the SHA-256 of the delivered      *)
(* body.  Signature and payload checks are left out: the events are those  *)
(* that pass them.                                                         *)
(***************************************************************************)
EXTENDS Naturals, Sequences

CONSTANTS
  Orders,      \* saleor_order_id
  Events,      \* fingerprints
  TypeOf,      \* the event_type of each
  OrderOf,     \* the saleor_order_id of each
  Matched,     \* the ones Eve has, or can match to, a user for
  Workers,     \* Celery worker processes on the webhooks queue
  Batch,       \* batch_size of recover_pending_webhooks
  MaxCopies,   \* bound: copies of one event's task in the broker
  MaxFaults,   \* bound: failed publications and lost workers
  Nobody       \* what an idle worker holds

\* What an event says of the order in Saleor.
SALEOR_STATUS ==
  [OrderFullyPaid     |-> "paid",
   OrderRefunded      |-> "refunded",
   OrderFullyRefunded |-> "refunded",
   OrderCancelled     |-> "cancelled"]

\* Mutant of EVENT_TO_STATUS: a refund is taken for a cancellation.
EVENT_TO_STATUS_WRONG ==
  [OrderFullyPaid     |-> "paid",
   OrderRefunded      |-> "cancelled",
   OrderFullyRefunded |-> "refunded",
   OrderCancelled     |-> "cancelled"]

\* What Eve makes of it.
EVENT_TO_STATUS ==
  [OrderFullyPaid     |-> "paid",
   OrderRefunded      |-> "refunded",
   OrderFullyRefunded |-> "refunded",
   OrderCancelled     |-> "cancelled"]

Status == {"pending", "paid", "failed", "refunded", "cancelled"}

ALLOWED_TRANSITIONS ==
  [pending   |-> {"paid", "failed", "cancelled"},
   paid      |-> {"refunded", "cancelled"},
   failed    |-> {"pending", "cancelled"},
   refunded  |-> {},
   cancelled |-> {}]

ALLOWED_WEBHOOK_EVENTS ==
  {"OrderFullyPaid", "OrderRefunded", "OrderFullyRefunded", "OrderCancelled"}

ASSUME ConstantsTyped ==
  /\ TypeOf \in [Events -> ALLOWED_WEBHOOK_EVENTS]
  /\ OrderOf \in [Events -> Orders]
  /\ Matched \subseteq Orders
  /\ Batch \in Nat /\ MaxFaults \in Nat
  /\ MaxCopies \in Nat \ {0}
  /\ Nobody \notin Events

VARIABLES
  truth,    \* the status of each order in Saleor, "absent" before it exists
  sent,     \* events Saleor has emitted; it may deliver each again and again
  order,    \* Order.status, "absent" while there is no local row
  status,   \* WebhookEvent.status, "absent" while there is no row
  inbox,    \* the rows in the order of received_at
  queue,    \* copies of each event's task waiting in the broker
  held,     \* the event of the task each worker has taken, unacknowledged
  ran,      \* whether that task has committed
  faults

saleor == <<truth, sent>>
worker == <<held, ran>>
vars == <<saleor, order, status, inbox, queue, worker, faults>>

Says(e) == SALEOR_STATUS[TypeOf[e]]
Target(e) == EVENT_TO_STATUS[TypeOf[e]]

TypeOK ==
  /\ truth \in [Orders -> Status \cup {"absent"}]
  /\ sent \subseteq Events
  /\ order \in [Orders -> Status \cup {"absent"}]
  /\ status \in [Events -> {"absent", "pending", "processed", "ignored", "rejected"}]
  /\ inbox \in Seq(Events)
  /\ queue \in [Events -> 0 .. MaxCopies]
  /\ held \in [Workers -> Events \cup {Nobody}]
  /\ ran \in [Workers -> BOOLEAN]
  /\ faults \in Nat

Init ==
  /\ truth = [o \in Orders |-> "absent"]
  /\ sent = {}
  /\ order = [o \in Orders |-> "absent"]
  /\ status = [e \in Events |-> "absent"]
  /\ inbox = <<>>
  /\ queue = [e \in Events |-> 0]
  /\ held = [w \in Workers |-> Nobody]
  /\ ran = [w \in Workers |-> FALSE]
  /\ faults = 0

Fault == faults < MaxFaults /\ faults' = faults + 1

-----------------------------------------------------------------------------
(* Saleor, and the two places that write the local order row *)

SaleorOrder(o) ==
  /\ truth[o] = "absent"
  /\ truth' = [truth EXCEPT ![o] = "pending"]
  /\ UNCHANGED <<sent, order, status, inbox, queue, worker, faults>>

\* The order changes in Saleor, along the transitions Eve knows, and the
\* event that says so is emitted.
SaleorEmits(e) ==
  /\ e \notin sent
  /\ truth[OrderOf[e]] # "absent"
  /\ \/ Says(e) \in ALLOWED_TRANSITIONS[truth[OrderOf[e]]]
     \/ Says(e) = truth[OrderOf[e]]
  /\ truth' = [truth EXCEPT ![OrderOf[e]] = Says(e)]
  /\ sent' = sent \cup {e}
  /\ UNCHANGED <<order, status, inbox, queue, worker, faults>>

\* place_order_once or reconcile_orders creates the row, pending.  An order of
\* nobody Eve knows, placed in Saleor directly, never gets one.
CreateOrder(o) ==
  /\ o \in Matched
  /\ truth[o] # "absent" /\ order[o] = "absent"
  /\ order' = [order EXCEPT ![o] = "pending"]
  /\ UNCHANGED <<saleor, status, inbox, queue, worker, faults>>

-----------------------------------------------------------------------------
(* The webhook request *)

\* One more copy; copies beyond MaxCopies add no behaviour and are dropped.
Publish(e) ==
  queue' = [queue EXCEPT ![e] = IF @ < MaxCopies THEN @ + 1 ELSE @]

\* get_or_create by fingerprint, then on commit the publication, whose failure
\* (or the death of the web worker before it) is not seen by Saleor or lost
\* with the answer: the row is durable.  A fingerprint that has a row already
\* changes nothing and is not published again.
Receive(e) ==
  /\ e \in sent /\ TypeOf[e] \in ALLOWED_WEBHOOK_EVENTS
  /\ status[e] = "absent"
  /\ status' = [status EXCEPT ![e] = "pending"]
  /\ inbox' = Append(inbox, e)
  /\ \/ Publish(e) /\ UNCHANGED faults
     \/ Fault /\ UNCHANGED queue
  /\ UNCHANGED <<saleor, order, worker>>

-----------------------------------------------------------------------------
(* The Celery workers *)

Take(w, e) ==
  /\ held[w] = Nobody /\ queue[e] > 0
  /\ queue' = [queue EXCEPT ![e] = @ - 1]
  /\ held' = [held EXCEPT ![w] = e]
  /\ UNCHANGED <<saleor, order, status, inbox, ran, faults>>

\* Mutant of Verdict: can_transition_to is not asked.
VerdictUnguarded(e) ==
  IF order[OrderOf[e]] = "absent" THEN "pending" ELSE "processed"

\* Mutant of Verdict: an event of an unknown order is settled, not kept.
VerdictForgetful(e) ==
  LET now == order[OrderOf[e]] IN
  IF now = Target(e) \/ (now # "absent" /\ Target(e) \in ALLOWED_TRANSITIONS[now])
  THEN "processed" ELSE "rejected"

\* Mutant of Verdict: a refused event gets a status that only orders have.
VerdictFailed(e) ==
  LET now == order[OrderOf[e]] IN
  IF now = "absent" THEN "pending"
  ELSE IF now = Target(e) \/ Target(e) \in ALLOWED_TRANSITIONS[now]
       THEN "processed" ELSE "failed"

\* What process_webhook_event makes of a pending event; can_transition_to is
\* the membership in ALLOWED_TRANSITIONS.
Verdict(e) ==
  LET now == order[OrderOf[e]] IN
  IF TypeOf[e] \notin DOMAIN EVENT_TO_STATUS THEN "ignored"
  ELSE IF now = "absent" THEN "pending"
  ELSE IF now = Target(e) \/ Target(e) \in ALLOWED_TRANSITIONS[now]
       THEN "processed" ELSE "rejected"

\* The body of process_webhook_event: one transaction that holds the locks of
\* the event's row and of the order's row from their reads to the commit.  An
\* event that is not pending any more, or was purged, is left alone.
Process(w) ==
  LET e == held[w] IN
  /\ e # Nobody /\ ~ran[w]
  /\ ran' = [ran EXCEPT ![w] = TRUE]
  /\ IF status[e] # "pending" THEN UNCHANGED <<status, order>>
     ELSE /\ status' = [status EXCEPT ![e] = Verdict(e)]
          /\ order' = IF Verdict(e) = "processed"
                      THEN [order EXCEPT ![OrderOf[e]] = Target(e)] ELSE order
  /\ UNCHANGED <<saleor, inbox, queue, held, faults>>

Idle(w) ==
  /\ held' = [held EXCEPT ![w] = Nobody]
  /\ ran' = [ran EXCEPT ![w] = FALSE]

\* acks_late: the task is acknowledged after it has run.
Ack(w) ==
  /\ ran[w] /\ Idle(w)
  /\ UNCHANGED <<saleor, order, status, inbox, queue, faults>>

\* The worker is lost before the acknowledgement (reject_on_worker_lost, or
\* the visibility timeout), or an OperationalError has the task retried: the
\* task is in the broker again, whether or not it had committed.
Redeliver(w) ==
  /\ held[w] # Nobody /\ Fault
  /\ Publish(held[w]) /\ Idle(w)
  /\ UNCHANGED <<saleor, order, status, inbox>>

\* The last of the max_retries fails, too: the task is given up.
Drop(w) ==
  /\ held[w] # Nobody /\ ~ran[w] /\ Fault
  /\ Idle(w)
  /\ UNCHANGED <<saleor, order, status, inbox, queue>>

-----------------------------------------------------------------------------
(* The scheduled tasks *)

Pending == SelectSeq(inbox, LAMBDA e : status[e] = "pending")

\* What the metrics count as webhook_pending.
Backlog == {e \in Events : status[e] = "pending"}

Oldest(n) == {Pending[i] : i \in {j \in 1 .. Len(Pending) : j <= n}}

\* Mutant of Recover: the filter on the status is inverted.
RecoverSettled ==
  /\ queue' = [e \in Events |-> IF status[e] \notin {"absent", "pending"} /\ queue[e] < MaxCopies
                                THEN queue[e] + 1 ELSE queue[e]]
  /\ UNCHANGED <<saleor, order, status, inbox, worker, faults>>

\* recover_pending_webhooks: publish the oldest Batch pending events; when the
\* broker fails, delay raises and only the first n of them are published.
Recover ==
  \E n \in 0 .. Batch :
    /\ n <= Len(Pending)
    /\ IF n \in {Batch, Len(Pending)} THEN UNCHANGED faults ELSE Fault
    /\ queue' = [e \in Events |-> IF e \in Oldest(n) /\ queue[e] < MaxCopies
                                  THEN queue[e] + 1 ELSE queue[e]]
    /\ UNCHANGED <<saleor, order, status, inbox, worker>>

\* Retention: an event that is not pending and is old enough loses its row; a
\* later delivery of the same body is then stored anew.  (A task names the
\* primary key of the row; none is as old as the retention period.)
Purge(e) ==
  /\ status[e] \notin {"absent", "pending"}
  /\ status' = [status EXCEPT ![e] = "absent"]
  /\ \E i \in 1 .. Len(inbox) :
       /\ inbox[i] = e
       /\ inbox' = SubSeq(inbox, 1, i - 1) \o SubSeq(inbox, i + 1, Len(inbox))
  /\ UNCHANGED <<saleor, order, queue, worker, faults>>

-----------------------------------------------------------------------------

Next ==
  \/ \E o \in Orders : SaleorOrder(o) \/ CreateOrder(o)
  \/ \E e \in Events : SaleorEmits(e) \/ Receive(e) \/ Purge(e)
  \/ \E w \in Workers, e \in Events : Take(w, e)
  \/ \E w \in Workers : Process(w) \/ Ack(w) \/ Redeliver(w) \/ Drop(w)
  \/ Recover

Spec == Init /\ [][Next]_vars

\* Workers go on with the task they hold; the broker's queue is a list, so no
\* task waits for ever; Beat schedules the recovery every minute; Saleor
\* repeats a delivery until it is accepted; the hourly reconciliation books
\* every order.  Faults, purges and what happens in Saleor are not fair.
FairSpec ==
  /\ Spec
  /\ \A w \in Workers : WF_vars(Process(w)) /\ WF_vars(Ack(w))
  /\ \A e \in Events : SF_vars(\E w \in Workers : Take(w, e))
  /\ WF_vars(Recover /\ UNCHANGED faults)
  /\ \A e \in Events : WF_vars(Receive(e))
  /\ \A o \in Orders : WF_vars(CreateOrder(o))
-----------------------------------------------------------------------------
(* Properties *)

\* The statuses an order may still reach from s, s included.
After(S) == S \cup UNION {ALLOWED_TRANSITIONS[s] : s \in S}
Reach(s) == After(After(After({s})))

\* The local order never runs ahead of Saleor and never takes a branch that
\* Saleor did not take: whatever the order of deliveries, duplicates and
\* retries, Saleor is where the local order is or further on.
LocalIsBehind ==
  \A o \in Orders : order[o] # "absent" =>
    truth[o] # "absent" /\ truth[o] \in Reach(order[o])

\* "Apply one durable inbox event exactly once" (tasks.py:29): an event that
\* counts as processed has taken effect, and nothing later undoes it.
ProcessedIsApplied ==
  \A e \in Events : status[e] = "processed" =>
    order[OrderOf[e]] # "absent" /\ order[OrderOf[e]] \in Reach(Says(e))

\* The local order is between what was processed of it and what Saleor has: no
\* processed event is lost on it (tasks.py:63-77), and none takes it where
\* Saleor's order has not been (tasks.py:55-61).
LocalInStep == LocalIsBehind /\ ProcessedIsApplied

\* A replayed, late or out-of-order event never moves an order backwards
\* (PRODUCTION_ACCEPTANCE.md:39-40).
NeverRegresses ==
  [][\A o \in Orders : order[o] # "absent" =>
       order'[o] # "absent" /\ order'[o] \in Reach(order[o])]_vars

\* "The minute recovery schedule republishes every pending inbox row"
\* (BACKGROUND_JOBS.md:46-47): an accepted event whose order exists is settled
\* in the end and leaves the backlog, though its publication failed, its worker died or its retries
\* ran out.
EventsSettle ==
  \A e \in Events :
    (e \in Backlog /\ order[OrderOf[e]] # "absent") ~> e \notin Backlog

\* A payment is seen: once Saleor reported an order fully paid, the local order
\* does not stay pending, even if the event came before the local row.
PaymentArrives ==
  \A e \in Events :
    (e \in sent /\ TypeOf[e] = "OrderFullyPaid" /\ OrderOf[e] \in Matched)
      ~> (order[OrderOf[e]] \notin {"absent", "pending"})

StoredBefore(d, e) ==
  \E i, j \in 1 .. Len(inbox) : i < j /\ inbox[i] = d /\ inbox[j] = e

\* Only the recovery will bring this event to a worker again.
Unpublished(e) ==
  status[e] = "pending" /\ queue[e] = 0 /\ \A w \in Workers : held[w] # e

\* "Rows are committed before the Celery task is published, so a broker failure
\* loses nothing" (DATA_MODEL.md:184-187): when the task of a payment is lost, the
\* refund stored after it still reaches the local order.
RefundArrives ==
  \A d, e \in Events :
    (/\ Unpublished(d) /\ StoredBefore(d, e)
     /\ OrderOf[d] = OrderOf[e] /\ OrderOf[e] \in Matched
     /\ TypeOf[d] = "OrderFullyPaid" /\ TypeOf[e] = "OrderRefunded")
      ~> (order[OrderOf[e]] \in {"refunded", "cancelled"})

=============================================================================
