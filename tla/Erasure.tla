------------------------------- MODULE Erasure --------------------------------
(***************************************************************************)
(* What Eve keeps about one user, and how it goes: purge_user and          *)
(* export_user (accounts/management/commands), contact_view, and the daily *)
(* retention pass, against requests the user has under way.                *)
(*                                                                         *)
(* PostgreSQL has the user, the rows that refer to it and the contact      *)
(* messages, which carry its address only; MongoDB has the cart.  "attempt"*)
(* stands for the checkout attempts and the refresh tokens: they refer to  *)
(* the user and cascade as the orders do, and export_user reads neither.   *)
(***************************************************************************)
EXTENDS Naturals

CONSTANTS
  Visits,      \* the requests of the user that are served at once
  MaxLosses    \* bound: commands, passes and requests that end half-way

ASSUME ErasureConstants == MaxLosses \in Nat

VARIABLES
  person,    \* "member" or "erased"
  records,   \* the kinds of rows that refer to the user
  cart,      \* "none", "fresh", or "old": past ABANDONED_CART_RETENTION_DAYS
  contact,   \* likewise the messages from the user's address
  auditLog,  \* PrivacyActionLog.action
  visit,     \* where each request is
  purge,     \* where purge_user is
  gathered,  \* the rows its transaction has deleted so far
  export,    \* where export_user is
  owed,      \* history: what has been there since it began, and it has not read
  pass,      \* where purge_expired_data is
  beside,    \* history: a request was under way when the cart was deleted
  losses

kept == <<person, records, cart, contact, auditLog>>
purging == <<purge, gathered, beside>>
exporting == <<export, owed>>
erasureVars == <<kept, visit, purging, exporting, pass, losses>>

Rows == {"profile", "order", "attempt"}
Ages == {"none", "fresh", "old"}

ErasureTypeOK ==
  /\ person \in {"member", "erased"} /\ records \subseteq Rows
  /\ cart \in Ages /\ contact \in Ages /\ auditLog \subseteq {"export", "delete"}
  /\ visit \in [Visits -> {"idle", "in", "create", "upsert", "with"}]
  /\ purge \in {"idle", "gather", "commit", "carts", "done", "failed"}
  /\ purge \in {"carts", "done", "failed"} <=> person = "erased"
  /\ gathered \subseteq Rows /\ beside \in BOOLEAN
  /\ export \in {"idle", "profile", "cart", "orders", "contact", "log", "done"}
  /\ owed \subseteq Rows \cup {"cart", "contact"}
  /\ pass \in {"messages", "carts"} /\ losses \in 0 .. MaxLosses

\* A registration that was cut short left no profile.
ErasureInit ==
  /\ person = "member" /\ records \in SUBSET {"profile"}
  /\ cart = "none" /\ contact = "none" /\ auditLog = {}
  /\ visit = [v \in Visits |-> "idle"]
  /\ purge = "idle" /\ gathered = {} /\ beside = FALSE
  /\ export = "idle" /\ owed = {}
  /\ pass = "messages" /\ losses = 0

-----------------------------------------------------------------------------

Held ==
  records \cup {x \in {"cart"} : cart # "none"} \cup {x \in {"contact"} : contact # "none"}

Lose == losses < MaxLosses /\ losses' = losses + 1

GoOn(v, next) == visit' = [visit EXCEPT ![v] = next]

OnlyVisit == UNCHANGED <<person, contact, auditLog, purging, export, pass, losses>>

-----------------------------------------------------------------------------
(* Requests of the user.  A request loads the user once, when it begins,    *)
(* and fetches the profile and the cart once.                               *)

Served(v) == visit[v] \in {"in", "with"}

Arrive(v) ==
  /\ visit[v] = "idle" /\ person = "member"
  /\ GoOn(v, "in") /\ UNCHANGED <<records, cart>> /\ OnlyVisit

Depart(v) ==
  /\ Served(v)
  /\ GoOn(v, "idle") /\ UNCHANGED <<records, cart>> /\ OnlyVisit

\* Profile.objects.get_or_create, when the get finds nothing.
MissProfile(v) ==
  /\ visit[v] = "in" /\ "profile" \notin records
  /\ GoOn(v, "create") /\ UNCHANGED <<records, cart>> /\ OnlyVisit

\* An insert that refers to an erased user is an IntegrityError, and the request
\* ends with 500.
InsertRow(v, kind) ==
  /\ \/ person = "member" /\ records' = records \cup {kind}
        /\ GoOn(v, IF visit[v] = "create" THEN "in" ELSE visit[v])
     \/ person = "erased" /\ GoOn(v, "idle") /\ UNCHANGED records
  /\ UNCHANGED cart /\ OnlyVisit

CreateProfile(v) == visit[v] = "create" /\ InsertRow(v, "profile")

\* A checkout, and a sign-in to the API.
AddRow(v) == Served(v) /\ \E kind \in {"order", "attempt"} : InsertRow(v, kind)

\* get_cart: find_one, and an upsert only where there is none.
FindCart(v) ==
  /\ visit[v] = "in"
  /\ GoOn(v, IF cart = "none" THEN "upsert" ELSE "with")
  /\ UNCHANGED <<records, cart>> /\ OnlyVisit

\* $setOnInsert: MongoDB knows no users.
UpsertCart(v) ==
  /\ visit[v] = "upsert"
  /\ cart' = IF cart = "none" THEN "fresh" ELSE cart
  /\ GoOn(v, "with") /\ UNCHANGED records /\ OnlyVisit

\* The updates, which set updated_at; clear_cart upserts.
TouchCart(v) ==
  /\ Served(v) /\ cart' = "fresh"
  /\ UNCHANGED <<records, visit>> /\ OnlyVisit

\* contact_view: anybody may write under the address.
WriteMessage ==
  /\ contact' = "fresh"
  /\ UNCHANGED <<person, records, cart, auditLog, visit, purging, export, pass, losses>>

-----------------------------------------------------------------------------
(* purge_user *)

Purging(from, to) == purge = from /\ purge' = to

OnlyPurge == UNCHANGED <<contact, visit, export, pass>>

\* User.objects.get; an erased user "does not exist", and the command ends there.
StartPurge ==
  /\ Purging("idle", "gather") /\ person = "member"
  /\ UNCHANGED <<kept, gathered, beside, losses>> /\ OnlyPurge

\* user.delete() deletes the rows it finds first, in its transaction.
Gather ==
  /\ Purging("gather", "commit") /\ gathered' = records
  /\ UNCHANGED <<kept, beside, losses>> /\ OnlyPurge

\* ... and then the user.  A row inserted in between makes that an
\* IntegrityError; the transaction is rolled back and the command can be repeated.
CommitPurge ==
  /\ \/ /\ Purging("commit", "carts") /\ records \subseteq gathered
        /\ person' = "erased" /\ records' = {} /\ auditLog' = auditLog \cup {"delete"}
     \/ /\ Purging("commit", "idle") /\ ~ records \subseteq gathered
        /\ UNCHANGED <<person, records, auditLog>>
  /\ gathered' = {} /\ UNCHANGED <<cart, beside, losses>> /\ OnlyPurge

\* Mutant of DropCarts: the cart has to be old.
DropOldCarts ==
  /\ Purging("carts", "done")
  /\ cart' = IF cart = "old" THEN "none" ELSE cart
  /\ beside' = \E v \in Visits : visit[v] # "idle"
  /\ UNCHANGED <<person, records, auditLog, gathered, losses>> /\ OnlyPurge

DropCarts ==
  /\ Purging("carts", "done") /\ cart' = "none"
  /\ beside' = \E v \in Visits : visit[v] # "idle"
  /\ UNCHANGED <<person, records, auditLog, gathered, losses>> /\ OnlyPurge

\* The command dies, or MongoDB does not answer.  Before the commit nothing has
\* happened; after it the command cannot be repeated.
PurgeDies ==
  /\ Lose
  /\ \/ purge \in {"gather", "commit"} /\ purge' = "idle"
     \/ Purging("carts", "failed")
  /\ gathered' = {} /\ UNCHANGED <<kept, beside>> /\ OnlyPurge

-----------------------------------------------------------------------------
(* export_user *)

OnlyExport == UNCHANGED <<person, records, cart, contact, visit, purging, pass, losses>>

StartExport ==
  /\ export = "idle" /\ person = "member"
  /\ export' = "profile" /\ owed' = Held /\ UNCHANGED auditLog /\ OnlyExport

\* One query of the command.
Take(from, things, to) ==
  /\ export = from /\ export' = to /\ owed' = owed \ things
  /\ UNCHANGED auditLog /\ OnlyExport

LogExport ==
  /\ export = "log" /\ export' = "done" /\ auditLog' = auditLog \cup {"export"}
  /\ owed' = {} /\ OnlyExport

ExportDies ==
  /\ export \notin {"idle", "done"} /\ export' = "idle" /\ owed' = {} /\ Lose
  /\ UNCHANGED <<kept, visit, purging, pass>>

-----------------------------------------------------------------------------
(* purge_expired_data, every day; time *)

OnlyPass == UNCHANGED <<person, records, auditLog, visit, purging, export>>

PurgeMessages ==
  /\ pass = "messages" /\ pass' = "carts"
  /\ contact' = IF contact = "old" THEN "none" ELSE contact
  /\ UNCHANGED <<cart, losses>> /\ OnlyPass

PurgeCarts ==
  /\ pass = "carts" /\ pass' = "messages"
  /\ cart' = IF cart = "old" THEN "none" ELSE cart
  /\ UNCHANGED <<contact, losses>> /\ OnlyPass

PassFails ==
  /\ pass = "carts" /\ pass' = "messages" /\ Lose
  /\ UNCHANGED <<cart, contact>> /\ OnlyPass

CartAges ==
  /\ cart = "fresh" /\ cart' = "old"
  /\ UNCHANGED <<contact, pass, losses>> /\ OnlyPass

MessageAges ==
  /\ contact = "fresh" /\ contact' = "old"
  /\ UNCHANGED <<cart, pass, losses>> /\ OnlyPass

-----------------------------------------------------------------------------

VisitStep(v) == CreateProfile(v) \/ UpsertCart(v) \/ Depart(v)

Request(v) ==
  Arrive(v) \/ MissProfile(v) \/ FindCart(v) \/ TouchCart(v) \/ AddRow(v) \/ VisitStep(v)

Purge == StartPurge \/ Gather \/ CommitPurge \/ DropCarts \/ PurgeDies

Export ==
  \/ StartExport
  \/ Take("profile", {"profile"}, "cart") \/ Take("cart", {"cart"}, "orders")
  \/ Take("orders", {"order"}, "contact") \/ Take("contact", {"contact"}, "log")
  \/ LogExport \/ ExportDies

Retention == PurgeMessages \/ PurgeCarts \/ PassFails

\* What goes meanwhile need not be in the export.
Observe == export' = export => owed' = owed \cap Held'

ErasureNext ==
  /\ \/ \E v \in Visits : Request(v)
     \/ WriteMessage \/ Purge \/ Export \/ Retention \/ CartAges \/ MessageAges
  /\ Observe

ErasureSpec == ErasureInit /\ [][ErasureNext]_erasureVars

-----------------------------------------------------------------------------
(* Properties *)

\* "the action is recorded in the privacy audit log": a user is never gone
\* without the entry, whenever the command dies.
ErasureIsLogged == person = "erased" => "delete" \in auditLog

\* "Erase a user's personal data everywhere": no row outlives its user, the action
\* is recorded, and a purge that ends well leaves no cart, unless a request was
\* being served when the carts were deleted.  A cart cannot come back once that
\* request is over.
PurgeLeavesNothing ==
  /\ ErasureIsLogged
  /\ person = "erased" => records = {}
  /\ purge = "done" /\ ~beside => cart = "none"

\* "outputs all held personal data (account, profile, orders, contact messages,
\* cart)": four queries at four moments, and what of these kinds was there all the
\* while is in the answer.  Attempts and tokens are data held of a user, too, and
\* are never in it.
ExportIsComplete == export = "log" => owed \subseteq {"attempt"}

\* purge_user and export_user do what they say, though they read and write two
\* databases while the user goes on using the site.
CommandsKeepTheirWord == PurgeLeavesNothing /\ ExportIsComplete

\* What a failed purge, or a request beside a good one, leaves behind in MongoDB
\* is gone for good in the end: retention gets to it.
LeftoversExpire == <>[](person = "erased" => cart = "none")

=============================================================================
