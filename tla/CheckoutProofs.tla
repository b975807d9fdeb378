--------------------------- MODULE CheckoutProofs ---------------------------
(* Proofs about module Checkout, for any number of requests, passes, users, *)
(* keys and checkouts.                                                      *)
EXTENDS Checkout, TLAPS

(***************************************************************************)
(* What holds whatever happens to the leases.                              *)
(***************************************************************************)

HasCheckout == {"journal", "completing", "complete", "awaiting", "unsure", "record"}

\* A request at work has a key, and a checkout once Saleor made one.
Working ==
  \A r \in Requests :
    /\ pc[r] # "idle" => key[r] \in Keys
    /\ pc[r] \in HasCheckout => co[r] \in Checkouts

TypeInv == TypeOK /\ Working

\* The checkout a request holds was made with its key.
RequestOK ==
  \A r \in Requests :
    /\ pc[r] \in HasCheckout => made[co[r]] = key[r]
    /\ pc[r] = "record" => co[r] \in Placed

CommittedIsMade == \A c \in Checkouts : Committed(c) => made[c] # Unmade

TodoIsPlaced == \A x \in Reconcilers : todo[x] \subseteq Placed

AnswersOK ==
  \A r \in Requests : answer[r] = "order" => key[r] \in Keys /\ HasRow(key[r])

BookInv ==
  /\ TypeInv
  /\ RequestOK
  /\ CommittedIsMade
  /\ TodoIsPlaced
  /\ RowsAreReal
  /\ CompletedIsBooked
  /\ AnswersOK

(***************************************************************************)
(* What holds while no lease lapses under its holder.                      *)
(***************************************************************************)

\* A request at work holds its user's lease, so no other is inside.
LeaseHeld ==
  \A r \in Requests : pc[r] # "idle" => lease[OwnerOf[key[r]]] = r

NoCheckoutYet == {"reopen", "create", "fail", "journal"}
Journalled == {"completing", "complete", "awaiting", "unsure", "record"}

\* The journal agrees with how far the request has come.
JournalOK ==
  /\ \A r \in Requests :
       /\ pc[r] \in NoCheckoutYet => ckout[key[r]] = NoCheckout
       /\ pc[r] \in Journalled => ckout[key[r]] = co[r]
  /\ \A k \in Keys : state[k] \in {"absent", "failed"} => ckout[k] = NoCheckout

\* Saleor is asked to complete a journalled checkout or none: this is what
\* makes OneOrderPerKey inductive.
CommittedIsJournalled ==
  \A c \in Checkouts : Committed(c) /\ made[c] \in Keys => ckout[made[c]] = c

LeaseInv == BookInv /\ LeaseHeld /\ JournalOK /\ CommittedIsJournalled

-----------------------------------------------------------------------------
(* Types *)

LEMMA PlacedGrows ==
  ASSUME NEW c \in Checkouts, placed \in Seq(Checkouts),
         placed' = Append(placed, c)
  PROVE  placed' \in Seq(Checkouts) /\ Placed' = Placed \cup {c}
<1>1. /\ Len(placed') = Len(placed) + 1
      /\ placed'[Len(placed) + 1] = c
      /\ \A i \in 1 .. Len(placed) : placed'[i] = placed[i]
      /\ Len(placed) \in Nat /\ placed' \in Seq(Checkouts)
  OBVIOUS
<1>2. QED
  BY <1>1 DEF Placed

LEMMA TypeStep == TypeInv /\ [Next]_vars => TypeInv'
<1> SUFFICES ASSUME TypeInv, [Next]_vars PROVE TypeInv'
  OBVIOUS
<1> USE NamesAreDistinct, ConstantsTyped
<1>1. ASSUME NEW r \in Requests, NEW k \in Keys, Enter(r, k) PROVE TypeInv'
  BY <1>1 DEF TypeInv, TypeOK, Working, HasCheckout,
  vars, request, journal, saleor, pass, Steps, Exits, States, Enter
<1>2. ASSUME NEW r \in Requests, Look(r) PROVE TypeInv'
  BY <1>2 DEF TypeInv, TypeOK, Working, HasCheckout,
  vars, request, journal, saleor, pass, Steps, Exits, States, Look, Goto, Answer
<1>3. ASSUME NEW r \in Requests, OpenAttempt(r) PROVE TypeInv'
  <2>1. CASE state[key[r]] = "absent"
    <3>1. Save(key[r], "started") /\ Goto(r, "create") /\ pc[r] = "open"
          /\ UNCHANGED <<lease, ckout, rows, saleor, pass, faults>>
      BY <1>3, <2>1 DEF OpenAttempt
    <3>2. QED
      BY <3>1 DEF TypeInv, TypeOK, Working, HasCheckout,
  vars, request, journal, saleor, pass, Steps, Exits, States, Save, Goto
  <2>2. CASE state[key[r]] = "completed"
    BY <1>3, <2>2 DEF TypeInv, TypeOK, Working, HasCheckout,
  vars, request, journal, saleor, pass, Steps, Exits, States, OpenAttempt, Goto, Answer, Save, HasRow
  <2>3. CASE state[key[r]] \notin {"absent", "completed"}
    BY <1>3, <2>3 DEF TypeInv, TypeOK, Working, HasCheckout,
  vars, request, journal, saleor, pass, Steps, Exits, States, OpenAttempt, Goto, Answer, Save, HasRow
  <2>4. QED
    BY <2>1, <2>2, <2>3
<1>4. ASSUME NEW r \in Requests, Reopen(r) PROVE TypeInv'
  BY <1>4 DEF TypeInv, TypeOK, Working, HasCheckout,
  vars, request, journal, saleor, pass, Steps, Exits, States, Reopen, Goto, Save
<1>5. ASSUME NEW r \in Requests, CreateCheckout(r) PROVE TypeInv'
  BY <1>5 DEF TypeInv, TypeOK, Working, HasCheckout,
  vars, request, journal, saleor, pass, Steps, Exits, States, CreateCheckout, Goto, Created
<1>6. ASSUME NEW r \in Requests, SaveFailed(r) PROVE TypeInv'
  BY <1>6 DEF TypeInv, TypeOK, Working, HasCheckout,
  vars, request, journal, saleor, pass, Steps, Exits, States, SaveFailed, Save, Answer
<1>7. ASSUME NEW r \in Requests, SaveCreated(r) PROVE TypeInv'
  BY <1>7 DEF TypeInv, TypeOK, Working, HasCheckout,
  vars, request, journal, saleor, pass, Steps, Exits, States, SaveCreated, Save, Goto
<1>8. ASSUME NEW r \in Requests, SaveCompleting(r) PROVE TypeInv'
  BY <1>8 DEF TypeInv, TypeOK, Working, HasCheckout,
  vars, request, journal, saleor, pass, Steps, Exits, States, SaveCompleting, Save, Goto
<1>9. ASSUME NEW r \in Requests, SendComplete(r) PROVE TypeInv'
  BY <1>9 DEF TypeInv, TypeOK, Working, HasCheckout,
  vars, request, journal, saleor, pass, Steps, Exits, States, SendComplete, Goto
<1>10. ASSUME NEW r \in Requests, Completed(r) PROVE TypeInv'
  BY <1>10 DEF TypeInv, TypeOK, Working, HasCheckout,
  vars, request, journal, saleor, pass, Steps, Exits, States, Completed, Goto
<1>11. ASSUME NEW r \in Requests, GiveUp(r) PROVE TypeInv'
  BY <1>11 DEF TypeInv, TypeOK, Working, HasCheckout,
  vars, request, journal, saleor, pass, Steps, Exits, States, GiveUp, Goto
<1>12. ASSUME NEW r \in Requests, SaveUnknown(r) PROVE TypeInv'
  BY <1>12 DEF TypeInv, TypeOK, Working, HasCheckout,
  vars, request, journal, saleor, pass, Steps, Exits, States, SaveUnknown, Save, Answer
<1>13. ASSUME NEW r \in Requests, Record(r) PROVE TypeInv'
  <2>1. CASE CanInsert(co[r], key[r])
    <3>1. /\ rows' = [rows EXCEPT ![co[r]] = key[r]]
          /\ Save(key[r], "completed") /\ Answer(r, "order") /\ pc[r] = "record"
          /\ UNCHANGED <<lease, ckout, saleor, pass, faults>>
      BY <1>13, <2>1 DEF Record
    <3>2. rows' \in [Checkouts -> Keys \cup {NoKey, NoRow}]
      BY <3>1 DEF TypeInv, TypeOK, Working, HasCheckout
    <3>3. QED
      BY <3>1, <3>2 DEF TypeInv, TypeOK, Working, HasCheckout,
  vars, request, journal, saleor, pass, Steps, Exits, States, Save, Answer
  <2>2. CASE ~CanInsert(co[r], key[r])
    BY <1>13, <2>2 DEF TypeInv, TypeOK, Working, HasCheckout,
  vars, request, journal, saleor, pass, Steps, Exits, States, Record, Save, Answer, HasRow
  <2>3. QED
    BY <2>1, <2>2
<1>14. ASSUME NEW r \in Requests, Release(r) PROVE TypeInv'
  BY <1>14 DEF TypeInv, TypeOK, Working, HasCheckout,
  vars, request, journal, saleor, pass, Steps, Exits, States, Release, Goto
<1>15. ASSUME NEW r \in Requests, DeleteLease(r) PROVE TypeInv'
  BY <1>15 DEF TypeInv, TypeOK, Working, HasCheckout,
  vars, request, journal, saleor, pass, Steps, Exits, States, DeleteLease, Goto
<1>16. ASSUME NEW r \in Requests, Crash(r) PROVE TypeInv'
  BY <1>16 DEF TypeInv, TypeOK, Working, HasCheckout,
  vars, request, journal, saleor, pass, Steps, Exits, States, Crash, Abandoned
<1>17. ASSUME NEW r \in Requests, Raise(r) PROVE TypeInv'
  BY <1>17 DEF TypeInv, TypeOK, Working, HasCheckout,
  vars, request, journal, saleor, pass, Steps, Exits, States, Raise, Answer
<1>18. ASSUME NEW u \in Users, Expire(u) PROVE TypeInv'
  BY <1>18 DEF TypeInv, TypeOK, Working, HasCheckout,
  vars, request, journal, saleor, pass, Steps, Exits, States, Expire
<1>19. ASSUME NEW k \in Keys, Age(k) PROVE TypeInv'
  BY <1>19 DEF TypeInv, TypeOK, Working, HasCheckout,
  vars, request, journal, saleor, pass, Steps, Exits, States, Age
<1>20. ASSUME NEW c \in Checkouts, SaleorCompletes(c) PROVE TypeInv'
  BY <1>20, PlacedGrows DEF TypeInv, TypeOK, Working, HasCheckout,
  vars, request, journal, saleor, pass, Steps, Exits, States, SaleorCompletes
<1>21. ASSUME NEW c \in Checkouts, SaleorRefuses(c) PROVE TypeInv'
  BY <1>21 DEF TypeInv, TypeOK, Working, HasCheckout,
  vars, request, journal, saleor, pass, Steps, Exits, States, SaleorRefuses
<1>22. ASSUME NEW c \in Checkouts, OutsideOrder(c) PROVE TypeInv'
  BY <1>22, PlacedGrows DEF TypeInv, TypeOK, Working, HasCheckout,
  vars, request, journal, saleor, pass, Steps, Exits, States, OutsideOrder
<1>23. ASSUME NEW x \in Reconcilers, Fetch(x) PROVE TypeInv'
  BY <1>23 DEF TypeInv, TypeOK, Working, HasCheckout,
  vars, request, journal, saleor, pass, Steps, Exits, States, Fetch, RGoto
<1>24. ASSUME NEW x \in Reconcilers, Diff(x) PROVE TypeInv'
  BY <1>24 DEF TypeInv, TypeOK, Working, HasCheckout,
  vars, request, journal, saleor, pass, Steps, Exits, States, Diff, RGoto
<1>25. ASSUME NEW x \in Reconcilers, Sweep(x) PROVE TypeInv'
  BY <1>25 DEF TypeInv, TypeOK, Working, HasCheckout,
  vars, request, journal, saleor, pass, Steps, Exits, States, Sweep, RGoto, InFlight
<1>26. ASSUME NEW x \in Reconcilers, NEW c \in Checkouts, Repair(x, c) PROVE TypeInv'
  <2> DEFINE k == made[c]
             rowKey == IF k \in Keys /\ state[k] # "absent" THEN k ELSE NoKey
  <2>1. /\ rows' = rows \/ rows' = [rows EXCEPT ![c] = rowKey]
        /\ \/ UNCHANGED <<state, aged>>
           \/ k \in Keys /\ Save(k, "completed")
        /\ todo' = [todo EXCEPT ![x] = {}] \/ todo' = [todo EXCEPT ![x] = @ \ {c}]
        /\ \E step \in {"idle", "repair"} : rpc' = [rpc EXCEPT ![x] = step]
        /\ UNCHANGED <<request, lease, ckout, saleor, faults>>
    BY <1>26 DEF Repair, Handled, RGoto
  <2>2. rows' \in [Checkouts -> Keys \cup {NoKey, NoRow}]
    BY <2>1 DEF TypeInv, TypeOK
  <2>3. state' \in [Keys -> States] /\ aged' \in [Keys -> BOOLEAN]
    BY <2>1 DEF TypeInv, TypeOK, Save, States
  <2>4. todo' \in [Reconcilers -> SUBSET Checkouts]
    BY <2>1 DEF TypeInv, TypeOK
  <2>5. rpc' \in [Reconcilers -> {"idle", "diff", "sweep", "repair"}]
    BY <2>1 DEF TypeInv, TypeOK
  <2>6. QED
    BY <2>1, <2>2, <2>3, <2>4, <2>5 DEF TypeInv, TypeOK, Working, request, saleor
<1>27. ASSUME NEW x \in Reconcilers, PassDies(x) PROVE TypeInv'
  BY <1>27 DEF TypeInv, TypeOK, Working, HasCheckout,
  vars, request, journal, saleor, pass, Steps, Exits, States, PassDies, RGoto
<1>28. CASE UNCHANGED vars
  BY <1>28 DEF TypeInv, TypeOK, Working, HasCheckout,
  vars, request, journal, saleor, pass, Steps, Exits, States
<1>29. QED
  BY <1>1, <1>2, <1>3, <1>4, <1>5, <1>6, <1>7, <1>8, <1>9, <1>10,
     <1>11, <1>12, <1>13, <1>14, <1>15, <1>16, <1>17, <1>18, <1>19, <1>20,
     <1>21, <1>22, <1>23, <1>24, <1>25, <1>26, <1>27, <1>28
  DEF Next, RequestStep, PassStep

LEMMA TypeInit == Init => TypeInv
BY NamesAreDistinct, ConstantsTyped
DEF Init, TypeInv, TypeOK, Working, HasCheckout, Steps, Exits, States

\* Every variable keeps its type in every behaviour.
THEOREM TypeCorrect == Spec => []TypeOK
<1>1. TypeInv => TypeOK
  BY DEF TypeInv
<1>2. QED
  BY TypeInit, TypeStep, <1>1, PTL DEF Spec

-----------------------------------------------------------------------------
(* Booking *)

LEMMA PlacedSame == UNCHANGED placed => Placed' = Placed
BY DEF Placed

LEMMA BookStep == BookInv /\ [Next]_vars => BookInv'
<1> SUFFICES ASSUME BookInv, [Next]_vars PROVE BookInv'
  OBVIOUS
<1> USE NamesAreDistinct, ConstantsTyped
<1>0. TypeInv'
  BY TypeStep DEF BookInv
<1>1. ASSUME NEW r \in Requests, NEW k \in Keys, Enter(r, k) PROVE BookInv'
  BY <1>1, <1>0, PlacedSame DEF TypeInv, TypeOK, Working, HasCheckout, BookInv, RequestOK, CommittedIsMade, TodoIsPlaced,
  RowsAreReal, CompletedIsBooked, AnswersOK, Committed, HasRow,
  vars, request, journal, saleor, pass, Steps, Exits, States, Enter
<1>2. ASSUME NEW r \in Requests, Look(r) PROVE BookInv'
  BY <1>2, <1>0, PlacedSame DEF TypeInv, TypeOK, Working, HasCheckout, BookInv, RequestOK, CommittedIsMade, TodoIsPlaced,
  RowsAreReal, CompletedIsBooked, AnswersOK, Committed, HasRow,
  vars, request, journal, saleor, pass, Steps, Exits, States, Look, Goto, Answer
<1>3. ASSUME NEW r \in Requests, OpenAttempt(r) PROVE BookInv'
  BY <1>3, <1>0, PlacedSame DEF TypeInv, TypeOK, Working, HasCheckout, BookInv, RequestOK, CommittedIsMade, TodoIsPlaced,
  RowsAreReal, CompletedIsBooked, AnswersOK, Committed, HasRow,
  vars, request, journal, saleor, pass, Steps, Exits, States, OpenAttempt, Goto, Answer, Save
<1>4. ASSUME NEW r \in Requests, Reopen(r) PROVE BookInv'
  BY <1>4, <1>0, PlacedSame DEF TypeInv, TypeOK, Working, HasCheckout, BookInv, RequestOK, CommittedIsMade, TodoIsPlaced,
  RowsAreReal, CompletedIsBooked, AnswersOK, Committed, HasRow,
  vars, request, journal, saleor, pass, Steps, Exits, States, Reopen, Goto, Save
<1>5. ASSUME NEW r \in Requests, CreateCheckout(r) PROVE BookInv'
  BY <1>5, <1>0, PlacedSame DEF TypeInv, TypeOK, Working, HasCheckout, BookInv, RequestOK, CommittedIsMade, TodoIsPlaced,
  RowsAreReal, CompletedIsBooked, AnswersOK, Committed, HasRow,
  vars, request, journal, saleor, pass, Steps, Exits, States, CreateCheckout, Goto, Created
<1>6. ASSUME NEW r \in Requests, SaveFailed(r) PROVE BookInv'
  BY <1>6, <1>0, PlacedSame DEF TypeInv, TypeOK, Working, HasCheckout, BookInv, RequestOK, CommittedIsMade, TodoIsPlaced,
  RowsAreReal, CompletedIsBooked, AnswersOK, Committed, HasRow,
  vars, request, journal, saleor, pass, Steps, Exits, States, SaveFailed, Save, Answer
<1>7. ASSUME NEW r \in Requests, SaveCreated(r) PROVE BookInv'
  BY <1>7, <1>0, PlacedSame DEF TypeInv, TypeOK, Working, HasCheckout, BookInv, RequestOK, CommittedIsMade, TodoIsPlaced,
  RowsAreReal, CompletedIsBooked, AnswersOK, Committed, HasRow,
  vars, request, journal, saleor, pass, Steps, Exits, States, SaveCreated, Save, Goto
<1>8. ASSUME NEW r \in Requests, SaveCompleting(r) PROVE BookInv'
  BY <1>8, <1>0, PlacedSame DEF TypeInv, TypeOK, Working, HasCheckout, BookInv, RequestOK, CommittedIsMade, TodoIsPlaced,
  RowsAreReal, CompletedIsBooked, AnswersOK, Committed, HasRow,
  vars, request, journal, saleor, pass, Steps, Exits, States, SaveCompleting, Save, Goto
<1>9. ASSUME NEW r \in Requests, SendComplete(r) PROVE BookInv'
  BY <1>9, <1>0, PlacedSame DEF TypeInv, TypeOK, Working, HasCheckout, BookInv, RequestOK, CommittedIsMade, TodoIsPlaced,
  RowsAreReal, CompletedIsBooked, AnswersOK, Committed, HasRow,
  vars, request, journal, saleor, pass, Steps, Exits, States, SendComplete, Goto
<1>10. ASSUME NEW r \in Requests, Completed(r) PROVE BookInv'
  BY <1>10, <1>0, PlacedSame DEF TypeInv, TypeOK, Working, HasCheckout, BookInv, RequestOK, CommittedIsMade, TodoIsPlaced,
  RowsAreReal, CompletedIsBooked, AnswersOK, Committed, HasRow,
  vars, request, journal, saleor, pass, Steps, Exits, States, Completed, Goto
<1>11. ASSUME NEW r \in Requests, GiveUp(r) PROVE BookInv'
  BY <1>11, <1>0, PlacedSame DEF TypeInv, TypeOK, Working, HasCheckout, BookInv, RequestOK, CommittedIsMade, TodoIsPlaced,
  RowsAreReal, CompletedIsBooked, AnswersOK, Committed, HasRow,
  vars, request, journal, saleor, pass, Steps, Exits, States, GiveUp, Goto
<1>12. ASSUME NEW r \in Requests, SaveUnknown(r) PROVE BookInv'
  BY <1>12, <1>0, PlacedSame DEF TypeInv, TypeOK, Working, HasCheckout, BookInv, RequestOK, CommittedIsMade, TodoIsPlaced,
  RowsAreReal, CompletedIsBooked, AnswersOK, Committed, HasRow,
  vars, request, journal, saleor, pass, Steps, Exits, States, SaveUnknown, Save, Answer
<1>13. ASSUME NEW r \in Requests, Record(r) PROVE BookInv'
  <2>1. CASE CanInsert(co[r], key[r])
    <3>1. /\ rows' = [rows EXCEPT ![co[r]] = key[r]]
          /\ Save(key[r], "completed") /\ Answer(r, "order") /\ pc[r] = "record"
          /\ UNCHANGED <<lease, ckout, saleor, pass, faults>>
      BY <1>13, <2>1 DEF Record
    <3>2. /\ co[r] \in Placed /\ co[r] \in Checkouts /\ key[r] \in Keys
          /\ made[co[r]] = key[r] /\ rows[co[r]] = NoRow
      BY <3>1, <2>1 DEF CanInsert, BookInv, RequestOK, TypeInv, Working, HasCheckout
    <3>3. /\ rows'[co[r]] = key[r]
          /\ \A c \in Checkouts : c # co[r] => rows'[c] = rows[c]
      BY <3>1, <3>2 DEF BookInv, TypeInv, TypeOK
    <3>4. \A k \in Keys : HasRow(k) \/ k = key[r] => HasRow(k)'
      <4>1. \A k \in Keys : k = key[r] => rows'[co[r]] = k
        BY <3>3
      <4>2. ASSUME NEW k \in Keys, NEW c \in Checkouts, rows[c] = k
            PROVE  rows'[c] = k
        BY <4>2, <3>2, <3>3
      <4>3. QED
        BY <3>2, <4>1, <4>2 DEF HasRow
    <3>5. Placed' = Placed
      BY <3>1, PlacedSame DEF saleor
    <3>6. RowsAreReal'
      BY <3>1, <3>2, <3>3, <3>5 DEF BookInv, RowsAreReal, saleor
    <3>7. CompletedIsBooked'
      BY <3>1, <3>4 DEF BookInv, TypeInv, TypeOK, CompletedIsBooked, Save
    <3>10. AnswersOK'
      BY <3>1, <3>2, <3>4 DEF BookInv, TypeInv, TypeOK, AnswersOK, Answer
    <3>8. RequestOK' /\ CommittedIsMade' /\ TodoIsPlaced'
      BY <3>1, <3>5 DEF BookInv, TypeInv, TypeOK, RequestOK, CommittedIsMade,
        TodoIsPlaced, Committed, HasCheckout, Answer, saleor, pass
    <3>9. QED
      BY <1>0, <3>6, <3>7, <3>8, <3>10 DEF BookInv
  <2>2. CASE ~CanInsert(co[r], key[r])
    <3>1. /\ Answer(r, "error")
          /\ UNCHANGED <<rows, state, aged, lease, ckout, saleor, pass, faults>>
      BY <1>13, <2>2 DEF Record
    <3>2. QED
      BY <3>1, <1>0, PlacedSame DEF BookInv, TypeInv, TypeOK, RequestOK,
        CommittedIsMade, TodoIsPlaced, RowsAreReal, CompletedIsBooked, AnswersOK,
        Committed, HasRow, HasCheckout, Answer, saleor, pass
  <2>3. QED
    BY <2>1, <2>2
<1>14. ASSUME NEW r \in Requests, Release(r) PROVE BookInv'
  BY <1>14, <1>0, PlacedSame DEF TypeInv, TypeOK, Working, HasCheckout, BookInv, RequestOK, CommittedIsMade, TodoIsPlaced,
  RowsAreReal, CompletedIsBooked, AnswersOK, Committed, HasRow,
  vars, request, journal, saleor, pass, Steps, Exits, States, Release, Goto
<1>15. ASSUME NEW r \in Requests, DeleteLease(r) PROVE BookInv'
  BY <1>15, <1>0, PlacedSame DEF TypeInv, TypeOK, Working, HasCheckout, BookInv, RequestOK, CommittedIsMade, TodoIsPlaced,
  RowsAreReal, CompletedIsBooked, AnswersOK, Committed, HasRow,
  vars, request, journal, saleor, pass, Steps, Exits, States, DeleteLease, Goto
<1>16. ASSUME NEW r \in Requests, Crash(r) PROVE BookInv'
  BY <1>16, <1>0, PlacedSame DEF TypeInv, TypeOK, Working, HasCheckout, BookInv, RequestOK, CommittedIsMade, TodoIsPlaced,
  RowsAreReal, CompletedIsBooked, AnswersOK, Committed, HasRow,
  vars, request, journal, saleor, pass, Steps, Exits, States, Crash, Abandoned
<1>17. ASSUME NEW r \in Requests, Raise(r) PROVE BookInv'
  BY <1>17, <1>0, PlacedSame DEF TypeInv, TypeOK, Working, HasCheckout, BookInv, RequestOK, CommittedIsMade, TodoIsPlaced,
  RowsAreReal, CompletedIsBooked, AnswersOK, Committed, HasRow,
  vars, request, journal, saleor, pass, Steps, Exits, States, Raise, Answer
<1>18. ASSUME NEW u \in Users, Expire(u) PROVE BookInv'
  BY <1>18, <1>0, PlacedSame DEF TypeInv, TypeOK, Working, HasCheckout, BookInv, RequestOK, CommittedIsMade, TodoIsPlaced,
  RowsAreReal, CompletedIsBooked, AnswersOK, Committed, HasRow,
  vars, request, journal, saleor, pass, Steps, Exits, States, Expire
<1>19. ASSUME NEW k \in Keys, Age(k) PROVE BookInv'
  BY <1>19, <1>0, PlacedSame DEF TypeInv, TypeOK, Working, HasCheckout, BookInv, RequestOK, CommittedIsMade, TodoIsPlaced,
  RowsAreReal, CompletedIsBooked, AnswersOK, Committed, HasRow,
  vars, request, journal, saleor, pass, Steps, Exits, States, Age
<1>20. ASSUME NEW c \in Checkouts, SaleorCompletes(c) PROVE BookInv'
  BY <1>20, <1>0, PlacedGrows DEF TypeInv, TypeOK, Working, HasCheckout, BookInv, RequestOK, CommittedIsMade, TodoIsPlaced,
  RowsAreReal, CompletedIsBooked, AnswersOK, Committed, HasRow,
  vars, request, journal, saleor, pass, Steps, Exits, States, SaleorCompletes
<1>21. ASSUME NEW c \in Checkouts, SaleorRefuses(c) PROVE BookInv'
  BY <1>21, <1>0, PlacedSame DEF TypeInv, TypeOK, Working, HasCheckout, BookInv, RequestOK, CommittedIsMade, TodoIsPlaced,
  RowsAreReal, CompletedIsBooked, AnswersOK, Committed, HasRow,
  vars, request, journal, saleor, pass, Steps, Exits, States, SaleorRefuses
<1>22. ASSUME NEW c \in Checkouts, OutsideOrder(c) PROVE BookInv'
  BY <1>22, <1>0, PlacedGrows DEF TypeInv, TypeOK, Working, HasCheckout, BookInv, RequestOK, CommittedIsMade, TodoIsPlaced,
  RowsAreReal, CompletedIsBooked, AnswersOK, Committed, HasRow,
  vars, request, journal, saleor, pass, Steps, Exits, States, OutsideOrder
<1>23. ASSUME NEW x \in Reconcilers, Fetch(x) PROVE BookInv'
  <2>1. Placed' = Placed
    BY <1>23, PlacedSame DEF Fetch, saleor
  <2>2. TodoIsPlaced'
    <3> DEFINE newest == {placed[i] : i \in {j \in 1 .. Len(placed) : j + First > Len(placed)}}
    <3>1. newest \subseteq Placed
      BY DEF Placed
    <3>2. todo' = [todo EXCEPT ![x] = newest]
      BY <1>23 DEF Fetch
    <3> HIDE DEF newest
    <3>3. QED
      BY <2>1, <3>1, <3>2 DEF BookInv, TypeInv, TypeOK, TodoIsPlaced
  <2>3. QED
    BY <1>23, <1>0, <2>1, <2>2 DEF BookInv, RequestOK, CommittedIsMade,
      RowsAreReal, CompletedIsBooked, AnswersOK, Committed, HasRow,
      Fetch, request, journal, saleor
<1>24. ASSUME NEW x \in Reconcilers, Diff(x) PROVE BookInv'
  BY <1>24, <1>0, PlacedSame DEF TypeInv, TypeOK, Working, HasCheckout, BookInv, RequestOK, CommittedIsMade, TodoIsPlaced,
  RowsAreReal, CompletedIsBooked, AnswersOK, Committed, HasRow,
  vars, request, journal, saleor, pass, Steps, Exits, States, Diff, RGoto
<1>25. ASSUME NEW x \in Reconcilers, Sweep(x) PROVE BookInv'
  BY <1>25, <1>0, PlacedSame DEF TypeInv, TypeOK, Working, HasCheckout, BookInv, RequestOK, CommittedIsMade, TodoIsPlaced,
  RowsAreReal, CompletedIsBooked, AnswersOK, Committed, HasRow,
  vars, request, journal, saleor, pass, Steps, Exits, States, Sweep, RGoto, InFlight
<1>26. ASSUME NEW x \in Reconcilers, NEW c \in Checkouts, Repair(x, c) PROVE BookInv'
  <2> DEFINE k == made[c]
             attempted == k \in Keys /\ state[k] # "absent"
             rowKey == IF attempted THEN k ELSE NoKey
  <2>1. Placed' = Placed
    BY <1>26, PlacedSame DEF Repair, saleor
  <2>2. c \in Placed /\ rpc[x] = "repair"
    BY <1>26 DEF Repair, IsNext, BookInv, TodoIsPlaced
  <2>3. TodoIsPlaced'
    BY <1>26, <2>1 DEF Repair, Handled, BookInv, TypeInv, TypeOK, TodoIsPlaced
  <2>4. RequestOK' /\ CommittedIsMade'
    BY <1>26, <2>1 DEF Repair, BookInv, RequestOK, CommittedIsMade, Committed,
      request, saleor
  <2>5. CASE CanInsert(c, rowKey) /\ rows' = [rows EXCEPT ![c] = rowKey]
               /\ IF attempted THEN Save(k, "completed") ELSE UNCHANGED <<state, aged>>
    <3>1. /\ rows[c] = NoRow /\ rows'[c] = rowKey
          /\ \A d \in Checkouts : d # c => rows'[d] = rows[d]
      <4> HIDE DEF rowKey
      <4>1. QED
        BY <2>5 DEF CanInsert, BookInv, TypeInv, TypeOK
    <3>2. /\ \A j \in Keys : HasRow(j) => HasRow(j)'
          /\ \A j \in Keys : j = rowKey => HasRow(j)'
      <4>1. ASSUME NEW j \in Keys, NEW d \in Checkouts, rows[d] = j
            PROVE  rows'[d] = j
        BY <4>1, <3>1
      <4> HIDE DEF rowKey
      <4>2. QED
        BY <3>1, <4>1 DEF HasRow
    <3>3. RowsAreReal'
      BY <1>26, <2>1, <2>2, <3>1 DEF Repair, BookInv, RowsAreReal, saleor
    <3>4. CompletedIsBooked'
      BY <2>5, <3>2 DEF BookInv, TypeInv, TypeOK, CompletedIsBooked, Save
    <3>5. AnswersOK'
      BY <1>26, <3>2 DEF Repair, BookInv, AnswersOK, request
    <3>6. QED
      BY <1>0, <2>3, <2>4, <3>3, <3>4, <3>5 DEF BookInv
  <2>6. CASE UNCHANGED <<rows, state, aged>>
    BY <1>26, <1>0, <2>1, <2>3, <2>4, <2>6 DEF Repair, BookInv, RowsAreReal,
      CompletedIsBooked, AnswersOK, HasRow, request, saleor
  <2>7. QED
    BY <1>26, <2>5, <2>6 DEF Repair
<1>27. ASSUME NEW x \in Reconcilers, PassDies(x) PROVE BookInv'
  BY <1>27, <1>0, PlacedSame DEF TypeInv, TypeOK, Working, HasCheckout, BookInv, RequestOK, CommittedIsMade, TodoIsPlaced,
  RowsAreReal, CompletedIsBooked, AnswersOK, Committed, HasRow,
  vars, request, journal, saleor, pass, Steps, Exits, States, PassDies, RGoto
<1>28. CASE UNCHANGED vars
  BY <1>28, <1>0, PlacedSame DEF TypeInv, TypeOK, Working, HasCheckout, BookInv, RequestOK, CommittedIsMade, TodoIsPlaced,
  RowsAreReal, CompletedIsBooked, AnswersOK, Committed, HasRow,
  vars, request, journal, saleor, pass, Steps, Exits, States
<1>29. QED
  BY <1>1, <1>2, <1>3, <1>4, <1>5, <1>6, <1>7, <1>8, <1>9, <1>10,
     <1>11, <1>12, <1>13, <1>14, <1>15, <1>16, <1>17, <1>18, <1>19, <1>20,
     <1>21, <1>22, <1>23, <1>24, <1>25, <1>26, <1>27, <1>28
  DEF Next, RequestStep, PassStep

LEMMA BookInit == Init => BookInv
BY TypeInit, NamesAreDistinct
DEF Init, BookInv, RequestOK, CommittedIsMade, TodoIsPlaced, RowsAreReal,
    CompletedIsBooked, AnswersOK, HasCheckout, Committed, Placed

LEMMA BookAlways == Spec => []BookInv
BY BookInit, BookStep, PTL DEF Spec

\* The order table, the journal, Saleor and the answers agree, also when leases
\* lapse and passes and requests book side by side.
THEOREM BooksAlwaysAgree == Spec => []BooksAgree
<1>1. BookInv => RowsAreReal /\ CompletedIsBooked
  BY DEF BookInv
<1>2. BookInv => AnswersAreTrue
  BY DEF BookInv, AnswersOK, AnswersAreTrue
<1>3. BookInv => BooksAgree
  BY <1>1, <1>2 DEF BooksAgree
<1>4. QED
  BY BookAlways, <1>3, PTL

-----------------------------------------------------------------------------
(* One order per key *)

LEMMA LeaseStep == ASSUME ~LeaseMayLapse, LeaseInv, [Next]_vars PROVE LeaseInv'
<1> USE NamesAreDistinct, ConstantsTyped
<1>0. BookInv'
  BY BookStep DEF LeaseInv
<1>1. ASSUME NEW r \in Requests, NEW k \in Keys, Enter(r, k) PROVE LeaseInv'
  BY <1>1, <1>0, PlacedSame DEF LeaseInv, LeaseHeld, JournalOK,
  CommittedIsJournalled, Committed, NoCheckoutYet, Journalled, HasCheckout,
  BookInv, TypeInv, TypeOK, Working, RequestOK, CommittedIsMade,
  vars, request, journal, saleor, pass, Steps, Exits, States, Enter
<1>2. ASSUME NEW r \in Requests, Look(r) PROVE LeaseInv'
  BY <1>2, <1>0, PlacedSame DEF LeaseInv, LeaseHeld, JournalOK,
  CommittedIsJournalled, Committed, NoCheckoutYet, Journalled, HasCheckout,
  BookInv, TypeInv, TypeOK, Working, RequestOK, CommittedIsMade,
  vars, request, journal, saleor, pass, Steps, Exits, States, Look, Goto, Answer
<1>3. ASSUME NEW r \in Requests, OpenAttempt(r) PROVE LeaseInv'
  BY <1>3, <1>0, PlacedSame DEF LeaseInv, LeaseHeld, JournalOK,
  CommittedIsJournalled, Committed, NoCheckoutYet, Journalled, HasCheckout,
  BookInv, TypeInv, TypeOK, Working, RequestOK, CommittedIsMade,
  vars, request, journal, saleor, pass, Steps, Exits, States, OpenAttempt, Goto, Answer, Save
<1>4. ASSUME NEW r \in Requests, Reopen(r) PROVE LeaseInv'
  BY <1>4, <1>0, PlacedSame DEF LeaseInv, LeaseHeld, JournalOK,
  CommittedIsJournalled, Committed, NoCheckoutYet, Journalled, HasCheckout,
  BookInv, TypeInv, TypeOK, Working, RequestOK, CommittedIsMade,
  vars, request, journal, saleor, pass, Steps, Exits, States, Reopen, Goto, Save
<1>5. ASSUME NEW r \in Requests, CreateCheckout(r) PROVE LeaseInv'
  BY <1>5, <1>0, PlacedSame DEF LeaseInv, LeaseHeld, JournalOK,
  CommittedIsJournalled, Committed, NoCheckoutYet, Journalled, HasCheckout,
  BookInv, TypeInv, TypeOK, Working, RequestOK, CommittedIsMade,
  vars, request, journal, saleor, pass, Steps, Exits, States, CreateCheckout, Goto, Created
<1>6. ASSUME NEW r \in Requests, SaveFailed(r) PROVE LeaseInv'
  BY <1>6, <1>0, PlacedSame DEF LeaseInv, LeaseHeld, JournalOK,
  CommittedIsJournalled, Committed, NoCheckoutYet, Journalled, HasCheckout,
  BookInv, TypeInv, TypeOK, Working, RequestOK, CommittedIsMade,
  vars, request, journal, saleor, pass, Steps, Exits, States, SaveFailed, Save, Answer
<1>7. ASSUME NEW r \in Requests, SaveCreated(r) PROVE LeaseInv'
  BY <1>7, <1>0, PlacedSame DEF LeaseInv, LeaseHeld, JournalOK,
  CommittedIsJournalled, Committed, NoCheckoutYet, Journalled, HasCheckout,
  BookInv, TypeInv, TypeOK, Working, RequestOK, CommittedIsMade,
  vars, request, journal, saleor, pass, Steps, Exits, States, SaveCreated, Save, Goto
<1>8. ASSUME NEW r \in Requests, SaveCompleting(r) PROVE LeaseInv'
  BY <1>8, <1>0, PlacedSame DEF LeaseInv, LeaseHeld, JournalOK,
  CommittedIsJournalled, Committed, NoCheckoutYet, Journalled, HasCheckout,
  BookInv, TypeInv, TypeOK, Working, RequestOK, CommittedIsMade,
  vars, request, journal, saleor, pass, Steps, Exits, States, SaveCompleting, Save, Goto
<1>9. ASSUME NEW r \in Requests, SendComplete(r) PROVE LeaseInv'
  BY <1>9, <1>0, PlacedSame DEF LeaseInv, LeaseHeld, JournalOK,
  CommittedIsJournalled, Committed, NoCheckoutYet, Journalled, HasCheckout,
  BookInv, TypeInv, TypeOK, Working, RequestOK, CommittedIsMade,
  vars, request, journal, saleor, pass, Steps, Exits, States, SendComplete, Goto
<1>10. ASSUME NEW r \in Requests, Completed(r) PROVE LeaseInv'
  BY <1>10, <1>0, PlacedSame DEF LeaseInv, LeaseHeld, JournalOK,
  CommittedIsJournalled, Committed, NoCheckoutYet, Journalled, HasCheckout,
  BookInv, TypeInv, TypeOK, Working, RequestOK, CommittedIsMade,
  vars, request, journal, saleor, pass, Steps, Exits, States, Completed, Goto
<1>11. ASSUME NEW r \in Requests, GiveUp(r) PROVE LeaseInv'
  BY <1>11, <1>0, PlacedSame DEF LeaseInv, LeaseHeld, JournalOK,
  CommittedIsJournalled, Committed, NoCheckoutYet, Journalled, HasCheckout,
  BookInv, TypeInv, TypeOK, Working, RequestOK, CommittedIsMade,
  vars, request, journal, saleor, pass, Steps, Exits, States, GiveUp, Goto
<1>12. ASSUME NEW r \in Requests, SaveUnknown(r) PROVE LeaseInv'
  BY <1>12, <1>0, PlacedSame DEF LeaseInv, LeaseHeld, JournalOK,
  CommittedIsJournalled, Committed, NoCheckoutYet, Journalled, HasCheckout,
  BookInv, TypeInv, TypeOK, Working, RequestOK, CommittedIsMade,
  vars, request, journal, saleor, pass, Steps, Exits, States, SaveUnknown, Save, Answer
<1>13. ASSUME NEW r \in Requests, Record(r) PROVE LeaseInv'
  BY <1>13, <1>0, PlacedSame DEF LeaseInv, LeaseHeld, JournalOK,
  CommittedIsJournalled, Committed, NoCheckoutYet, Journalled, HasCheckout,
  BookInv, TypeInv, TypeOK, Working, RequestOK, CommittedIsMade,
  vars, request, journal, saleor, pass, Steps, Exits, States, Record, Save, Answer, CanInsert
<1>14. ASSUME NEW r \in Requests, Release(r) PROVE LeaseInv'
  BY <1>14, <1>0, PlacedSame DEF LeaseInv, LeaseHeld, JournalOK,
  CommittedIsJournalled, Committed, NoCheckoutYet, Journalled, HasCheckout,
  BookInv, TypeInv, TypeOK, Working, RequestOK, CommittedIsMade,
  vars, request, journal, saleor, pass, Steps, Exits, States, Release, Goto
<1>15. ASSUME NEW r \in Requests, DeleteLease(r) PROVE LeaseInv'
  BY <1>15, <1>0, PlacedSame DEF LeaseInv, LeaseHeld, JournalOK,
  CommittedIsJournalled, Committed, NoCheckoutYet, Journalled, HasCheckout,
  BookInv, TypeInv, TypeOK, Working, RequestOK, CommittedIsMade,
  vars, request, journal, saleor, pass, Steps, Exits, States, DeleteLease, Goto
<1>16. ASSUME NEW r \in Requests, Crash(r) PROVE LeaseInv'
  BY <1>16, <1>0, PlacedSame DEF LeaseInv, LeaseHeld, JournalOK,
  CommittedIsJournalled, Committed, NoCheckoutYet, Journalled, HasCheckout,
  BookInv, TypeInv, TypeOK, Working, RequestOK, CommittedIsMade,
  vars, request, journal, saleor, pass, Steps, Exits, States, Crash, Abandoned
<1>17. ASSUME NEW r \in Requests, Raise(r) PROVE LeaseInv'
  BY <1>17, <1>0, PlacedSame DEF LeaseInv, LeaseHeld, JournalOK,
  CommittedIsJournalled, Committed, NoCheckoutYet, Journalled, HasCheckout,
  BookInv, TypeInv, TypeOK, Working, RequestOK, CommittedIsMade,
  vars, request, journal, saleor, pass, Steps, Exits, States, Raise, Answer
<1>18. ASSUME NEW u \in Users, Expire(u) PROVE LeaseInv'
  BY <1>18, <1>0, PlacedSame DEF LeaseInv, LeaseHeld, JournalOK,
  CommittedIsJournalled, Committed, NoCheckoutYet, Journalled, HasCheckout,
  BookInv, TypeInv, TypeOK, Working, RequestOK, CommittedIsMade,
  vars, request, journal, saleor, pass, Steps, Exits, States, Expire
<1>19. ASSUME NEW k \in Keys, Age(k) PROVE LeaseInv'
  BY <1>19, <1>0, PlacedSame DEF LeaseInv, LeaseHeld, JournalOK,
  CommittedIsJournalled, Committed, NoCheckoutYet, Journalled, HasCheckout,
  BookInv, TypeInv, TypeOK, Working, RequestOK, CommittedIsMade,
  vars, request, journal, saleor, pass, Steps, Exits, States, Age
<1>20. ASSUME NEW c \in Checkouts, SaleorCompletes(c) PROVE LeaseInv'
  BY <1>20, <1>0, PlacedGrows DEF LeaseInv, LeaseHeld, JournalOK,
  CommittedIsJournalled, Committed, NoCheckoutYet, Journalled, HasCheckout,
  BookInv, TypeInv, TypeOK, Working, RequestOK, CommittedIsMade,
  vars, request, journal, saleor, pass, Steps, Exits, States, SaleorCompletes
<1>21. ASSUME NEW c \in Checkouts, SaleorRefuses(c) PROVE LeaseInv'
  BY <1>21, <1>0, PlacedSame DEF LeaseInv, LeaseHeld, JournalOK,
  CommittedIsJournalled, Committed, NoCheckoutYet, Journalled, HasCheckout,
  BookInv, TypeInv, TypeOK, Working, RequestOK, CommittedIsMade,
  vars, request, journal, saleor, pass, Steps, Exits, States, SaleorRefuses
<1>22. ASSUME NEW c \in Checkouts, OutsideOrder(c) PROVE LeaseInv'
  BY <1>22, <1>0, PlacedGrows DEF LeaseInv, LeaseHeld, JournalOK,
  CommittedIsJournalled, Committed, NoCheckoutYet, Journalled, HasCheckout,
  BookInv, TypeInv, TypeOK, Working, RequestOK, CommittedIsMade,
  vars, request, journal, saleor, pass, Steps, Exits, States, OutsideOrder
<1>23. ASSUME NEW x \in Reconcilers, Fetch(x) PROVE LeaseInv'
  BY <1>23, <1>0, PlacedSame DEF LeaseInv, LeaseHeld, JournalOK,
  CommittedIsJournalled, Committed, NoCheckoutYet, Journalled, HasCheckout,
  BookInv, TypeInv, TypeOK, Working, RequestOK, CommittedIsMade,
  vars, request, journal, saleor, pass, Steps, Exits, States, Fetch, RGoto
<1>24. ASSUME NEW x \in Reconcilers, Diff(x) PROVE LeaseInv'
  BY <1>24, <1>0, PlacedSame DEF LeaseInv, LeaseHeld, JournalOK,
  CommittedIsJournalled, Committed, NoCheckoutYet, Journalled, HasCheckout,
  BookInv, TypeInv, TypeOK, Working, RequestOK, CommittedIsMade,
  vars, request, journal, saleor, pass, Steps, Exits, States, Diff, RGoto
<1>25. ASSUME NEW x \in Reconcilers, Sweep(x) PROVE LeaseInv'
  BY <1>25, <1>0, PlacedSame DEF LeaseInv, LeaseHeld, JournalOK,
  CommittedIsJournalled, Committed, NoCheckoutYet, Journalled, HasCheckout,
  BookInv, TypeInv, TypeOK, Working, RequestOK, CommittedIsMade,
  vars, request, journal, saleor, pass, Steps, Exits, States, Sweep, RGoto, InFlight
<1>26. ASSUME NEW x \in Reconcilers, NEW c \in Checkouts, Repair(x, c) PROVE LeaseInv'
  BY <1>26, <1>0, PlacedSame DEF LeaseInv, LeaseHeld, JournalOK,
  CommittedIsJournalled, Committed, NoCheckoutYet, Journalled, HasCheckout,
  BookInv, TypeInv, TypeOK, Working, RequestOK, CommittedIsMade,
  vars, request, journal, saleor, pass, Steps, Exits, States, Repair, RGoto, Handled, Save, CanInsert
<1>27. ASSUME NEW x \in Reconcilers, PassDies(x) PROVE LeaseInv'
  BY <1>27, <1>0, PlacedSame DEF LeaseInv, LeaseHeld, JournalOK,
  CommittedIsJournalled, Committed, NoCheckoutYet, Journalled, HasCheckout,
  BookInv, TypeInv, TypeOK, Working, RequestOK, CommittedIsMade,
  vars, request, journal, saleor, pass, Steps, Exits, States, PassDies, RGoto
<1>28. CASE UNCHANGED vars
  BY <1>28, <1>0, PlacedSame DEF LeaseInv, LeaseHeld, JournalOK,
  CommittedIsJournalled, Committed, NoCheckoutYet, Journalled, HasCheckout,
  BookInv, TypeInv, TypeOK, Working, RequestOK, CommittedIsMade,
  vars, request, journal, saleor, pass, Steps, Exits, States
<1>29. QED
  BY <1>1, <1>2, <1>3, <1>4, <1>5, <1>6, <1>7, <1>8, <1>9, <1>10,
     <1>11, <1>12, <1>13, <1>14, <1>15, <1>16, <1>17, <1>18, <1>19, <1>20,
     <1>21, <1>22, <1>23, <1>24, <1>25, <1>26, <1>27, <1>28
  DEF Next, RequestStep, PassStep

LEMMA LeaseInit == Init => LeaseInv
BY BookInit, NamesAreDistinct
DEF Init, LeaseInv, LeaseHeld, JournalOK, CommittedIsJournalled, Committed,
    NoCheckoutYet, Journalled, Placed

LEMMA LeaseAlways == ASSUME ~LeaseMayLapse PROVE Spec => []LeaseInv
<1>1. LeaseInv /\ [Next]_vars => LeaseInv'
  BY LeaseStep
<1>2. QED
  BY LeaseInit, <1>1, PTL DEF Spec

LEMMA LeaseInvGivesOneOrder == LeaseInv => OneOrderPerKey
BY DEF LeaseInv, CommittedIsJournalled, OneOrderPerKey

LEMMA LeaseInvGivesFailedSafely == LeaseInv => FailedSafely
BY NamesAreDistinct
DEF LeaseInv, CommittedIsJournalled, JournalOK, FailedSafely

LEMMA LeaseInvShowsMissing == LeaseInv => MissingOrdersAreShown
<1> SUFFICES ASSUME LeaseInv, NEW u \in Users, NEW c \in Placed,
                    made[c] \in Keys, OwnerOf[made[c]] = u, rows[c] = NoRow
             PROVE  ReconciliationPending(u)
  BY DEF MissingOrdersAreShown
<1> DEFINE k == made[c]
<1>1. c \in Checkouts /\ Committed(c)
  BY DEF LeaseInv, BookInv, TypeInv, TypeOK, Placed, Committed
<1>2. state[k] \in States \ {"absent", "failed"}
  BY <1>1, NamesAreDistinct
  DEF LeaseInv, BookInv, TypeInv, TypeOK, CommittedIsJournalled, JournalOK, CommittedIsMade
<1>3. state[k] # "completed"
  <2>1. SUFFICES ASSUME HasRow(k) PROVE FALSE
    BY DEF LeaseInv, BookInv, CompletedIsBooked
  <2>2. PICK d \in Checkouts : rows[d] = k
    BY <2>1 DEF HasRow
  <2>3. Committed(d) /\ made[d] = k
    BY <2>2 DEF LeaseInv, BookInv, RowsAreReal, Committed
  <2>4. d = c
    BY <1>1, <2>3, LeaseInvGivesOneOrder DEF OneOrderPerKey
  <2>5. QED
    BY <2>2, <2>4, NamesAreDistinct
<1>4. QED
  BY <1>2, <1>3 DEF ReconciliationPending, Uncertain, InFlight, States

\* While leases hold, Saleor never gets, and never completes, two checkouts of
\* one idempotency key, for any number of retries, crashes, lost answers and
\* reconciliation passes.
THEOREM OneOrderAlways == ASSUME ~LeaseMayLapse PROVE Spec => []OneOrderPerKey
BY LeaseAlways, LeaseInvGivesOneOrder, PTL

\* While leases hold, "failed" attempts really failed safely.
THEOREM FailedAlwaysSafely == ASSUME ~LeaseMayLapse PROVE Spec => []FailedSafely
BY LeaseAlways, LeaseInvGivesFailedSafely, PTL

\* While leases hold, an order that Saleor made for a user's key and the shop has
\* not booked shows in the user's payment history, whatever went wrong with it.
THEOREM MissingOrdersAlwaysShown ==
  ASSUME ~LeaseMayLapse PROVE Spec => []MissingOrdersAreShown
BY LeaseAlways, LeaseInvShowsMissing, PTL

\* While leases hold, a key whose Saleor checkout is journalled never gets
\* another one.
THEOREM JournalledIsFinal ==
  ASSUME ~LeaseMayLapse PROVE Spec => JournalledCheckoutIsFinal
<1> DEFINE Final == \A k \in Keys : ckout[k] # NoCheckout => ckout'[k] = ckout[k]
<1>1. LeaseInv /\ [Next]_vars => [Final]_vars
  <2> SUFFICES ASSUME LeaseInv, [Next]_vars PROVE Final
    OBVIOUS
  <2>1. CASE \E r \in Requests : SaveCreated(r)
    BY <2>1 DEF SaveCreated, LeaseInv, JournalOK, NoCheckoutYet,
      BookInv, TypeInv, TypeOK
  <2>2. CASE UNCHANGED ckout
    BY <2>2
  <2>3. QED
    BY <2>1, <2>2 DEF Next, RequestStep, PassStep, vars, request, journal, saleor,
      pass, Enter, Look, OpenAttempt, Reopen, CreateCheckout, SaveFailed,
      SaveCompleting, SendComplete, Completed, GiveUp, SaveUnknown, Record,
      Release, DeleteLease, Crash, Raise, Expire, Age, SaleorCompletes,
      SaleorRefuses, OutsideOrder, Fetch, Diff, Sweep, Repair, PassDies
<1>2. QED
  BY LeaseAlways, <1>1, PTL DEF Spec, JournalledCheckoutIsFinal

-----------------------------------------------------------------------------
(* Refinement of PurchaseOnce *)

LEMMA PromiseInit == Init => Promise!Init
<1> SUFFICES ASSUME Init PROVE Promise!Init
  OBVIOUS
<1>1. Placed = {}
  BY DEF Init, Placed
<1>2. \A k \in Keys : {c \in Checkouts : rows[c] = k} = {}
  BY NamesAreDistinct DEF Init
<1>3. QED
  BY <1>1, <1>2 DEF Promise!Init, bought, booked

LEMMA SameBooked == UNCHANGED rows => booked' = booked
BY DEF booked

LEMMA SameBought ==
  ASSUME Placed' = Placed, \A c \in Placed : made'[c] = made[c]
  PROVE  bought' = bought
BY DEF bought

\* Writing a row for a Saleor order is booking it.
LEMMA RowIsBooked ==
  ASSUME LeaseInv, NEW c \in Placed, NEW k \in Keys \cup {NoKey}, CanInsert(c, k),
         k \in Keys => made[c] = k,
         rows' = [rows EXCEPT ![c] = k], bought' = bought
  PROVE  (k \in Keys /\ Promise!Book(k, c)) \/ UNCHANGED <<bought, booked>>
<1> USE NamesAreDistinct
<1>0. c \in Checkouts
  BY DEF LeaseInv, BookInv, TypeInv, TypeOK, Placed
<1>1. /\ rows[c] = NoRow /\ rows'[c] = k
      /\ \A d \in Checkouts : d # c => rows'[d] = rows[d]
  BY <1>0 DEF CanInsert, LeaseInv, BookInv, TypeInv, TypeOK
<1>2. CASE k = NoKey
  <2>1. \A j \in Keys, d \in Checkouts : rows'[d] = j <=> rows[d] = j
    BY <1>1, <1>2
  <2>2. QED
    BY <2>1 DEF booked
<1>3. CASE k \in Keys
  <2>1. booked[k] = {}
    BY <1>3 DEF CanInsert, HasRow, booked
  <2>2. c \in bought[k]
    BY <1>3 DEF bought
  <2>3. booked' = [booked EXCEPT ![k] = {c}]
    <3>1. ASSUME NEW j \in Keys
          PROVE  {d \in Checkouts : rows'[d] = j} =
                 IF j = k THEN {c} ELSE {d \in Checkouts : rows[d] = j}
      <4>1. CASE j = k
        BY <4>1, <1>0, <1>1, <1>3 DEF CanInsert, HasRow
      <4>2. CASE j # k
        BY <4>2, <1>0, <1>1, <1>3
      <4>3. QED
        BY <4>1, <4>2
    <3>2. QED
      BY <3>1, <1>3 DEF booked
  <2>4. QED
    BY <1>3, <2>1, <2>2, <2>3 DEF Promise!Book
<1>4. QED
  BY <1>2, <1>3

LEMMA PromiseStep ==
  ASSUME LeaseInv, LeaseInv', [Next]_vars
  PROVE  [Promise!Next]_<<bought, booked>>
<1> USE NamesAreDistinct
<1>1. CASE \E r \in Requests : CreateCheckout(r)
  <2>1. \A c \in Placed : c \in Checkouts /\ made[c] # Unmade
    BY DEF LeaseInv, BookInv, TypeInv, TypeOK, CommittedIsMade, Committed, Placed
  <2>2. Placed' = Placed /\ \A c \in Placed : made'[c] = made[c]
    BY <1>1, <2>1, PlacedSame DEF CreateCheckout, LeaseInv, BookInv, TypeInv, TypeOK
  <2>3. QED
    BY <1>1, <2>2, SameBought, SameBooked DEF CreateCheckout
<1>2. ASSUME NEW r \in Requests, Record(r) PROVE [Promise!Next]_<<bought, booked>>
  <2>1. bought' = bought
    BY <1>2, PlacedSame, SameBought DEF Record, saleor
  <2>2. CASE UNCHANGED rows
    BY <2>1, <2>2, SameBooked
  <2>3. CASE CanInsert(co[r], key[r]) /\ rows' = [rows EXCEPT ![co[r]] = key[r]]
    <3>1. co[r] \in Placed /\ co[r] \in Checkouts /\ key[r] \in Keys /\ made[co[r]] = key[r]
      BY <1>2 DEF Record, LeaseInv, BookInv, TypeInv, Working, RequestOK, HasCheckout
    <3>2. QED
      BY <2>1, <2>3, <3>1, RowIsBooked DEF Promise!Next
  <2>4. QED
    BY <1>2, <2>2, <2>3 DEF Record
<1>3. ASSUME NEW c \in Checkouts, SaleorCompletes(c)
      PROVE  [Promise!Next]_<<bought, booked>>
  <2>1. Placed' = Placed \cup {c} /\ made' = made /\ booked' = booked
    BY <1>3, PlacedGrows, SameBooked
    DEF SaleorCompletes, LeaseInv, BookInv, TypeInv, TypeOK
  <2>2. CASE made[c] \notin Keys
    <3>1. bought' = bought
      BY <2>1, <2>2 DEF bought
    <3>2. QED
      BY <2>1, <3>1
  <2>3. CASE made[c] \in Keys
    <3>1. ASSUME NEW d \in Placed, made[d] = made[c] PROVE d = c
      BY <3>1, <1>3, <2>3 DEF SaleorCompletes, LeaseInv, CommittedIsJournalled,
        Committed, BookInv, TypeInv, TypeOK, Placed
    <3>2. CASE c \in Placed
      <4>1. bought' = bought
        BY <2>1, <3>2 DEF bought
      <4>2. QED
        BY <2>1, <4>1
    <3>3. CASE c \notin Placed
      <4>1. bought[made[c]] = {}
        BY <2>3, <3>1, <3>3 DEF bought
      <4>2. bought' = [bought EXCEPT ![made[c]] = {c}]
        BY <2>1, <2>3, <3>1, <3>3 DEF bought
      <4>3. QED
        BY <2>1, <2>3, <4>1, <4>2 DEF Promise!Next, Promise!Buy
    <3>4. QED
      BY <3>2, <3>3
  <2>4. QED
    BY <2>2, <2>3
<1>4. ASSUME NEW c \in Checkouts, OutsideOrder(c)
      PROVE  UNCHANGED <<bought, booked>>
  <2>1. Placed' = Placed \cup {c} /\ booked' = booked /\ c \notin Placed
    BY <1>4, PlacedGrows, SameBooked
    DEF OutsideOrder, LeaseInv, BookInv, TypeInv, TypeOK, CommittedIsMade, Committed
  <2>2. made'[c] = NoKey /\ \A d \in Placed : made'[d] = made[d]
    BY <1>4, <2>1 DEF OutsideOrder, LeaseInv, BookInv, TypeInv, TypeOK, Placed
  <2>3. ASSUME NEW k \in Keys
        PROVE  {d \in Placed' : made'[d] = k} = {d \in Placed : made[d] = k}
    BY <2>1, <2>2
  <2>4. QED
    BY <2>1, <2>3 DEF bought
<1>5. ASSUME NEW x \in Reconcilers, NEW c \in Checkouts, Repair(x, c)
      PROVE  [Promise!Next]_<<bought, booked>>
  <2> DEFINE rowKey == IF made[c] \in Keys /\ state[made[c]] # "absent"
                       THEN made[c] ELSE NoKey
  <2>1. bought' = bought
    BY <1>5, PlacedSame, SameBought DEF Repair, saleor
  <2>2. CASE UNCHANGED rows
    BY <2>1, <2>2, SameBooked
  <2>3. CASE CanInsert(c, rowKey) /\ rows' = [rows EXCEPT ![c] = rowKey]
    <3>1. c \in Placed
      BY <1>5 DEF Repair, IsNext, LeaseInv, BookInv, TodoIsPlaced
    <3>2. rowKey \in Keys \cup {NoKey} /\ (rowKey \in Keys => made[c] = rowKey)
      OBVIOUS
    <3> HIDE DEF rowKey
    <3>3. QED
      BY <2>1, <2>3, <3>1, <3>2, RowIsBooked DEF Promise!Next,
        LeaseInv, BookInv, TypeInv, TypeOK, Placed
  <2>4. QED
    BY <1>5, <2>2, <2>3 DEF Repair
<1>6. CASE UNCHANGED <<rows, made, placed>>
  BY <1>6, PlacedSame, SameBought, SameBooked
<1>7. QED
  BY <1>1, <1>2, <1>3, <1>4, <1>5, <1>6
  DEF Next, RequestStep, PassStep, vars, request, journal, saleor,
      pass, Enter, Look, OpenAttempt, Reopen, SaveFailed, SaveCreated,
      SaveCompleting, SendComplete, Completed, GiveUp, SaveUnknown,
      Release, DeleteLease, Crash, Raise, Expire, Age,
      SaleorRefuses, Fetch, Diff, Sweep, PassDies

\* While leases hold, checkout with its retries, crashes and repairs implements
\* PurchaseOnce: each key buys once and what it bought is booked under it.
THEOREM CheckoutKeepsPromise == ASSUME ~LeaseMayLapse PROVE Spec => KeepsPromise
<1>1. LeaseInv /\ LeaseInv' /\ [Next]_vars => [Promise!Next]_<<bought, booked>>
  BY PromiseStep
<1>2. QED
  BY LeaseAlways, PromiseInit, <1>1, PTL DEF Spec, KeepsPromise, Promise!Spec

=============================================================================
