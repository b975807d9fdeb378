----------------------------- MODULE Registration -----------------------------
(***************************************************************************)
(* accounts/views.py, forms.py and tasks.py, and every view that fetches   *)
(* its user's profile: accounts that are registered under one address, the *)
(* profile each gets, and the mail that verifies the address.              *)
(*                                                                         *)
(* User and profile are separate statements, and a profile that is missing *)
(* is made by whoever needs it.  Addresses are compared without case, by   *)
(* the form and by the index; Names are the accounts somebody registers    *)
(* with some spelling of one address.  What a view does besides is left    *)
(* out, and so is the limit on asking for mail (rate_limit is in Login).   *)
(***************************************************************************)
EXTENDS Naturals, FiniteSets

CONSTANTS
  Names,       \* the user names
  Tabs,        \* the requests that are served at once
  MAX_RETRIES, \* of send_verification_email
  MaxTrouble   \* bound: requests killed, mails and tasks that fail, answers lost

ASSUME RegistrationConstants == MAX_RETRIES \in Nat /\ MaxTrouble \in Nat

VARIABLES
  registered, \* the names that have a user row
  profiles,   \* Profile: "none", "plain", or "verified"
  tab,        \* where each request is, what it is for and whose it is
  tries,      \* how often the task of a name may still run, 0 for no task
  link,       \* the names with a valid link in their mailbox
  trouble

registrationVars == <<registered, profiles, tab, tries, link, trouble>>

Kinds == {"register", "visit", "verify"}
Blank == [at |-> "idle"]
Tab(at, kind, n) == [at |-> at, kind |-> kind, name |-> n]

RegistrationTypeOK ==
  /\ registered \subseteq Names
  /\ profiles \in [Names -> {"none", "plain", "verified"}]
  /\ \A n \in Names : profiles[n] # "none" => n \in registered
  /\ tab \in [Tabs -> {Blank} \cup [at : {"insert", "profile", "make", "found"},
                                    kind : Kinds, name : Names]]
  /\ \A t \in Tabs : tab[t].at \notin {"idle", "insert"} => tab[t].name \in registered
  /\ tries \in [Names -> 0 .. MAX_RETRIES + 1] /\ link \subseteq Names
  /\ \A n \in Names : tries[n] > 0 \/ n \in link => n \in registered
  /\ trouble \in 0 .. MaxTrouble

RegistrationInit ==
  /\ registered = {} /\ profiles = [n \in Names |-> "none"]
  /\ tab = [t \in Tabs |-> Blank]
  /\ tries = [n \in Names |-> 0] /\ link = {} /\ trouble = 0

-----------------------------------------------------------------------------

Turn(t, at) == tab' = [tab EXCEPT ![t].at = at]
CloseTab(t) == tab' = [tab EXCEPT ![t] = Blank]

\* The index on LOWER(email), and clean_email.
Taken == registered # {}

\* register_view, a form that is valid now.
Submit(t, n) ==
  /\ tab[t] = Blank /\ registered = {}
  /\ tab' = [tab EXCEPT ![t] = Tab("insert", "register", n)]
  /\ UNCHANGED <<registered, profiles, tries, link, trouble>>

\* form.save().
Insert(t) ==
  /\ tab[t].at = "insert"
  /\ \/ Taken /\ CloseTab(t) /\ UNCHANGED registered
     \/ ~Taken /\ Turn(t, "profile") /\ registered' = registered \cup {tab[t].name}
  /\ UNCHANGED <<profiles, tries, link, trouble>>

\* A view of somebody who is logged in or comes with credentials, and the link.
OpenTab(t, kind, n) ==
  /\ tab[t] = Blank /\ n \in registered
  /\ kind # "register" /\ (kind = "verify" => n \in link)
  /\ tab' = [tab EXCEPT ![t] = Tab("profile", kind, n)]
  /\ UNCHANGED <<registered, profiles, tries, link, trouble>>

\* The get of get_or_create.
FindProfile(t) ==
  LET found == profiles[tab[t].name] IN
  /\ tab[t].at = "profile"
  /\ IF found = "none" THEN Turn(t, "make")
     ELSE IF found = "verified" /\ tab[t].kind # "register" THEN CloseTab(t) ELSE Turn(t, "found")
  /\ UNCHANGED <<registered, profiles, tries, link, trouble>>

\* Mutant of MakeProfile: whatever was made meanwhile is overwritten.
MakeProfileAnew(t) ==
  /\ tab[t].at = "make" /\ Turn(t, "found")
  /\ profiles' = [profiles EXCEPT ![tab[t].name] = "plain"]
  /\ UNCHANGED <<registered, tries, link, trouble>>

\* The create; an IntegrityError has it get what another request made.
MakeProfile(t) ==
  LET n == tab[t].name IN
  /\ tab[t].at = "make"
  /\ \/ profiles[n] = "none" /\ profiles' = [profiles EXCEPT ![n] = "plain"] /\ Turn(t, "found")
     \/ profiles[n] # "none" /\ Turn(t, "profile") /\ UNCHANGED profiles
  /\ UNCHANGED <<registered, tries, link, trouble>>

ShowProfile(t) ==
  /\ tab[t].at = "found" /\ tab[t].kind = "visit" /\ CloseTab(t)
  /\ UNCHANGED <<registered, profiles, tries, link, trouble>>

\* send_verification_email.delay; when the broker refuses, the view goes on.
Queue(n) ==
  \/ tries' = [tries EXCEPT ![n] = MAX_RETRIES + 1] /\ UNCHANGED trouble
  \/ trouble < MaxTrouble /\ trouble' = trouble + 1 /\ UNCHANGED tries

SendMail(t) ==
  /\ tab[t].at = "found" /\ tab[t].kind = "register" /\ CloseTab(t)
  /\ Queue(tab[t].name) /\ UNCHANGED <<registered, profiles, link>>

\* Mutant of Resend: the test is the wrong way round.
ResendVerified(n) ==
  /\ n \in registered /\ profiles[n] = "verified" /\ Queue(n)
  /\ UNCHANGED <<registered, profiles, tab, link>>

\* resend_verification_view, in one step: what it does to a missing profile, a
\* visit does in two.
Resend(n) ==
  /\ n \in registered /\ profiles[n] # "verified" /\ Queue(n)
  /\ profiles' = [profiles EXCEPT ![n] = "plain"]
  /\ UNCHANGED <<registered, tab, link>>

Verify(t) ==
  /\ tab[t].at = "found" /\ tab[t].kind = "verify" /\ CloseTab(t)
  /\ profiles' = [profiles EXCEPT ![tab[t].name] = "verified"]
  /\ UNCHANGED <<registered, tries, link, trouble>>

Kill(t) ==
  /\ tab[t] # Blank /\ CloseTab(t)
  /\ trouble < MaxTrouble /\ trouble' = trouble + 1
  /\ UNCHANGED <<registered, profiles, tries, link>>

-----------------------------------------------------------------------------
(* The worker, and time *)

\* The task is acknowledged late: it runs again when its worker is lost.
Mail(n) ==
  /\ tries[n] > 0 /\ link' = link \cup {n}
  /\ \/ tries' = [tries EXCEPT ![n] = 0] /\ UNCHANGED trouble
     \/ trouble < MaxTrouble /\ trouble' = trouble + 1 /\ UNCHANGED tries
  /\ UNCHANGED <<registered, profiles, tab>>

\* autoretry_for, up to max_retries; then the mail is lost.
MailFails(n) ==
  /\ tries[n] > 0 /\ tries' = [tries EXCEPT ![n] = @ - 1]
  /\ trouble < MaxTrouble /\ trouble' = trouble + 1
  /\ UNCHANGED <<registered, profiles, tab, link>>

\* EMAIL_TOKEN_MAX_AGE.
LinkExpires(n) ==
  /\ n \in link /\ link' = link \ {n}
  /\ UNCHANGED <<registered, profiles, tab, tries, trouble>>

-----------------------------------------------------------------------------

TabStep(t) ==
  Insert(t) \/ FindProfile(t) \/ MakeProfile(t) \/ ShowProfile(t) \/ SendMail(t) \/ Verify(t)

RegistrationNext ==
  \/ \E t \in Tabs :
       \/ TabStep(t) \/ Kill(t)
       \/ \E n \in Names : Submit(t, n) \/ \E kind \in Kinds : OpenTab(t, kind, n)
  \/ \E n \in Names : Resend(n) \/ Mail(n) \/ MailFails(n) \/ LinkExpires(n)

RegistrationSpec == RegistrationInit /\ [][RegistrationNext]_registrationVars

-----------------------------------------------------------------------------
(* Properties *)

\* forms.py: "One account per email address ... a DB unique index backs this check
\* against races".
OneAccountPerAddress == Cardinality(registered) <= 1

\* An address that was verified stays verified: no request that found no profile,
\* or found it unverified, puts an older state back.
VerifiedStays ==
  [][\A n \in Names : profiles[n] = "verified" => profiles'[n] = "verified"]_registrationVars

\* What is registered stands: one account, and its address stays verified.
AccountsStand == []OneAccountPerAddress /\ VerifiedStays

\* Registration survives everything that happens to its mail: an account whose
\* owner keeps asking is again and again with a link, until it is verified.
LinkArrives ==
  \A n \in Names : []<>(n \in registered => n \in link \/ profiles[n] = "verified")

=============================================================================
