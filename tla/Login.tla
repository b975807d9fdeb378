-------------------------------- MODULE Login --------------------------------
(***************************************************************************)
(* accounts/services/lockout.py around the two entry points that take a    *)
(* password, login_view and TokenView.post, for the attempts on one        *)
(* username that the limiter (module RateLimit) let through.  It counts in *)
(* the shared cache, one command at a time, and fails open without it.     *)
(*                                                                         *)
(* What authenticate, the one-time code and the verified address come to is*)
(* one verdict on the attempt: "right", "wrong", or "neither" when the     *)
(* token view refuses right credentials (otp_required,                     *)
(* email_not_verified), which it neither records nor clears.               *)
(***************************************************************************)
EXTENDS Naturals, FiniteSets

CONSTANTS
  Tries,                  \* the attempts that are made at once
  LOCKOUT_THRESHOLD,
  MaxLoginFaults          \* bound: outages, lost answers, attempts that die

ASSUME LoginConstants ==
  /\ IsFiniteSet(Tries)
  /\ LOCKOUT_THRESHOLD \in Nat \ {0} /\ MaxLoginFaults \in Nat

VARIABLES
  cacheAnswers, \* is the cache within reach?
  fails,      \* lockout:<username>, 0 when there is no such key
  step,       \* where each attempt is
  notices,    \* history: the notifications decided on since the key was made
  missed,     \* history: the one on the threshold was not
  blind,      \* history: an attempt passed the lockout without the cache
  faults

told == <<notices, missed>>
loginVars == <<cacheAnswers, fails, step, told, blind, faults>>

LoginSteps == {"idle", "locked?", "verdict", "add", "incr", "notify", "clear"}

\* The attempts whose credentials are under way and not counted yet.
Evaluated == {a \in Tries : step[a] \in {"verdict", "add", "incr"}}

LoginTypeOK ==
  /\ cacheAnswers \in BOOLEAN /\ faults \in 0 .. MaxLoginFaults
  /\ fails \in Nat /\ step \in [Tries -> LoginSteps] /\ notices \in Nat
  /\ missed \in BOOLEAN /\ blind \in BOOLEAN

LoginInit ==
  /\ cacheAnswers = TRUE /\ faults = 0
  /\ fails = 0 /\ step = [a \in Tries |-> "idle"]
  /\ notices = 0 /\ missed = FALSE /\ blind = FALSE

-----------------------------------------------------------------------------

Move(a, next) == step' = [step EXCEPT ![a] = next]

Answer(a) == Move(a, "idle")

\* From whatever address.
Try(a) ==
  /\ step[a] = "idle" /\ Move(a, "locked?")
  /\ UNCHANGED <<cacheAnswers, fails, told, blind, faults>>

\* Mutant of IsLocked: the attempt after the threshold is the first refused.
IsLockedLate == cacheAnswers /\ fails > LOCKOUT_THRESHOLD

IsLocked == cacheAnswers /\ fails >= LOCKOUT_THRESHOLD

\* Refused even with the right password.
CheckLock(a) ==
  /\ step[a] = "locked?"
  /\ IF IsLocked THEN Answer(a) ELSE Move(a, "verdict")
  /\ blind' = (blind \/ ~cacheAnswers)
  /\ UNCHANGED <<cacheAnswers, fails, told, faults>>

Verdict(a) ==
  /\ step[a] = "verdict"
  /\ Move(a, "clear") \/ Move(a, "add") \/ Answer(a)
  /\ UNCHANGED <<cacheAnswers, fails, told, blind, faults>>

\* Mutant of Counted: every failure from the threshold on notifies.
CountedAgain(a) ==
  IF fails' >= LOCKOUT_THRESHOLD
  THEN Move(a, "notify") /\ notices' = notices + 1
  ELSE Answer(a) /\ UNCHANGED notices

\* register_failure: told the new count, the attempt on the threshold notifies.
Counted(a) ==
  IF fails' = LOCKOUT_THRESHOLD
  THEN Move(a, "notify") /\ notices' = notices + 1
  ELSE Answer(a) /\ UNCHANGED notices

\* record_failure, cache.add: a key of its own, or there is one already.
Add(a) ==
  /\ step[a] = "add"
  /\ \/ cacheAnswers /\ fails = 0 /\ fails' = 1 /\ Counted(a)
     \/ cacheAnswers /\ fails > 0 /\ Move(a, "incr") /\ UNCHANGED <<fails, notices>>
     \/ ~cacheAnswers /\ Answer(a) /\ UNCHANGED <<fails, notices>>
  /\ UNCHANGED <<cacheAnswers, missed, blind, faults>>

\* cache.incr, atomic.  It raises when the key is gone or the cache is: the
\* failure stays unrecorded; and when the answer is lost after it was counted.
IncrementFails(a) ==
  /\ step[a] = "incr"
  /\ \/ cacheAnswers /\ fails > 0 /\ fails' = fails + 1 /\ Counted(a) /\ UNCHANGED <<missed, faults>>
     \/ (fails = 0 \/ ~cacheAnswers)
        /\ Answer(a) /\ UNCHANGED <<fails, notices, missed, faults>>
     \/ cacheAnswers /\ fails > 0 /\ faults < MaxLoginFaults
        /\ fails' = fails + 1 /\ missed' = (missed \/ fails' = LOCKOUT_THRESHOLD)
        /\ Answer(a) /\ faults' = faults + 1 /\ UNCHANGED notices
  /\ UNCHANGED <<cacheAnswers, blind>>

\* notify_lockout: whether the user exists and the queue takes the task, the
\* attempt is answered.
Notify(a) ==
  /\ step[a] = "notify" /\ Answer(a)
  /\ UNCHANGED <<cacheAnswers, fails, told, blind, faults>>

\* The key goes, and with it what is remembered of it.
Gone == fails' = 0 /\ notices' = 0 /\ missed' = FALSE

\* clear_failures after a sign-in.
ClearFailures(a) ==
  /\ step[a] = "clear" /\ Answer(a)
  /\ IF cacheAnswers THEN Gone ELSE UNCHANGED <<fails, told>>
  /\ UNCHANGED <<cacheAnswers, blind, faults>>

-----------------------------------------------------------------------------
(* Time and troubles *)

\* incr does not renew the 900 seconds of the key; a full Redis may evict it.
LockoutEnds ==
  /\ fails > 0 /\ Gone
  /\ UNCHANGED <<cacheAnswers, step, blind, faults>>

CacheFails ==
  /\ cacheAnswers /\ faults < MaxLoginFaults
  /\ cacheAnswers' = FALSE /\ faults' = faults + 1
  /\ UNCHANGED <<fails, step, told, blind>>

CacheReturns ==
  /\ ~cacheAnswers /\ cacheAnswers' = TRUE
  /\ UNCHANGED <<fails, step, told, blind, faults>>

\* The worker is killed.
Killed(a) ==
  /\ step[a] # "idle" /\ faults < MaxLoginFaults /\ faults' = faults + 1
  /\ Answer(a)
  /\ UNCHANGED <<cacheAnswers, fails, told, blind>>

-----------------------------------------------------------------------------

AttemptStep(a) ==
  CheckLock(a) \/ Verdict(a) \/ Add(a) \/ IncrementFails(a) \/ Notify(a) \/ ClearFailures(a)

LoginNext ==
  \/ \E a \in Tries : Try(a) \/ AttemptStep(a) \/ Killed(a)
  \/ LockoutEnds \/ CacheFails \/ CacheReturns

LoginSpec == LoginInit /\ [][LoginNext]_loginVars

-----------------------------------------------------------------------------
(* Properties *)

\* lockout.py: "exactly once per window".  However the failures of both entry
\* points interleave, no two of them cross the threshold, and an account that is
\* locked has had its notification decided on -- unless the cache lost the answer
\* to the failure that locked it.
NotifiedOnce ==
  /\ notices <= 1
  /\ fails >= LOCKOUT_THRESHOLD => notices = 1 \/ missed

\* From however many addresses they come, the attempts evaluated while the key
\* lives are bounded: the threshold, and those that passed the check before it
\* was reached.
GuessesBounded ==
  blind \/ fails + Cardinality(Evaluated) <= LOCKOUT_THRESHOLD - 1 + Cardinality(Tries)

=============================================================================
