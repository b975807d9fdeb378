----------------------------- MODULE SaleorClient -----------------------------
(***************************************************************************)
(* ecommerce/services/saleor_client.py: saleor_graphql, the one way to     *)
(* Saleor's API, with its retries and the circuit breaker that all workers *)
(* share through Redis.                                                    *)
(*                                                                         *)
(* A call is one execution of saleor_graphql at a time; the calls in Reads *)
(* are queries (retry=True), the others mutations.  SALEOR_GRAPHQL_URL is  *)
(* configured.                                                             *)
(***************************************************************************)
EXTENDS Naturals

CONSTANTS
  Calls, Reads,
  MaxAttempts,     \* of a read
  Threshold,       \* CIRCUIT_FAILURE_THRESHOLD
  MaxFaults,       \* bound: troubles of Saleor and of Redis
  Quiet            \* may the 600 seconds of the was-open mark pass?

ASSUME ClientConstants ==
  /\ Reads \subseteq Calls /\ MaxAttempts \in Nat \ {0} /\ Threshold \in Nat \ {0}
  /\ MaxFaults \in Nat /\ Quiet \in BOOLEAN

VARIABLES
  healthy,     \* does Saleor answer?
  cacheUp,     \* does Redis?
  failures,    \* saleor:circuit:failures, 0 when there is no such key
  open,        \* saleor:circuit:open
  wasOpen,     \* saleor:circuit:was-open
  at,          \* where each call is
  sent,        \* the requests it has sent
  applied,     \* history: how often Saleor has carried a mutation out
  outcome,     \* how the latest call ended
  streak,      \* history: failures counted since a success, up to Threshold
  stale,       \* history: has a success failed to delete the counter that is there?
  void,        \* history: calls about to open the circuit against a success, which
               \* came after their count or was kept out of it
  troubles

circuit == <<failures, open, wasOpen>>
call == <<at, sent, applied, outcome>>
world == <<healthy, cacheUp, troubles>>
recorded == <<streak, stale, void>>
clientVars == <<world, circuit, call, recorded>>

Steps == {"idle", "send", "wait", "failed", "incr", "trip", "mark",
          "reset", "ok", "recover", "close"}
Outcomes == {"none", "data", "incomplete", "circuit_open", "error"}

Attempts(c) == IF c \in Reads THEN MaxAttempts ELSE 1

ClientTypeOK ==
  /\ healthy \in BOOLEAN /\ cacheUp \in BOOLEAN /\ troubles \in 0 .. MaxFaults
  /\ failures \in Nat /\ open \in BOOLEAN /\ wasOpen \in BOOLEAN
  /\ at \in [Calls -> Steps] /\ sent \in [Calls -> 0 .. MaxAttempts] /\ applied \in [Calls -> Nat]
  /\ outcome \in [Calls -> Outcomes]
  /\ streak \in 0 .. Threshold /\ stale \in BOOLEAN /\ void \subseteq Calls

ClientInit ==
  /\ healthy = TRUE /\ cacheUp = TRUE /\ troubles = 0
  /\ failures = 0 /\ open = FALSE /\ wasOpen = FALSE
  /\ at = [c \in Calls |-> "idle"] /\ sent = [c \in Calls |-> 0]
  /\ applied = [c \in Calls |-> 0] /\ outcome = [c \in Calls |-> "none"]
  /\ streak = 0 /\ stale = FALSE /\ void = {}

-----------------------------------------------------------------------------
(* The request *)

Goto(c, step) == at' = [at EXCEPT ![c] = step] /\ UNCHANGED <<sent, applied, outcome>>

\* saleor_graphql returns or raises.
Return(c, how) ==
  /\ at' = [at EXCEPT ![c] = "idle"]
  /\ outcome' = [outcome EXCEPT ![c] = how]
  /\ UNCHANGED <<sent, applied>>

\* An unreachable cache counts as a closed circuit.
CircuitIsOpen == cacheUp /\ open

Begin(c) ==
  LET refused == CircuitIsOpen IN
  /\ at[c] = "idle"
  /\ at' = [at EXCEPT ![c] = IF refused THEN "idle" ELSE "send"]
  /\ outcome' = [outcome EXCEPT ![c] = IF refused THEN "circuit_open" ELSE "none"]
  /\ sent' = [sent EXCEPT ![c] = 0] /\ applied' = [applied EXCEPT ![c] = 0]
  /\ UNCHANGED <<world, circuit, recorded>>

Send(c) ==
  /\ at[c] = "send"
  /\ sent' = [sent EXCEPT ![c] = @ + 1]
  /\ at' = [at EXCEPT ![c] = "wait"]
  /\ UNCHANGED <<world, circuit, applied, outcome, recorded>>

\* What comes back: the data, an answer of another shape, an error that is
\* final, a status in RETRYABLE_STATUS, or nothing (requests.Timeout and
\* RequestException).
Replies == IF healthy THEN {"data"} ELSE {"shape", "error", "busy", "lost"}

\* Saleor has carried out the mutation it answers with data; one it never
\* answered, or answered with an error (a 502 of the proxy before it, say),
\* perhaps.
Carries(c, reply) ==
  IF c \in Reads THEN {0} ELSE IF reply \in {"data", "shape"} THEN {1} ELSE {0, 1}

\* What the caller gets in the end; data of another shape is a success for the
\* circuit before the fetch functions raise incomplete_response.
Outcome(reply) ==
  IF reply = "data" THEN "data" ELSE IF reply = "shape" THEN "incomplete" ELSE "error"

\* Mutant of MayRetry: mutations are retried as well.
MayRetryAll(c) == sent[c] < MaxAttempts

MayRetry(c) == sent[c] < Attempts(c)

\* A retryable reply leads to another attempt while one is left.
Receive(c) ==
  /\ at[c] = "wait"
  /\ \E reply \in Replies : \E n \in Carries(c, reply) :
       /\ applied' = [applied EXCEPT ![c] = @ + n]
       /\ outcome' = [outcome EXCEPT ![c] = Outcome(reply)]
       /\ at' = [at EXCEPT ![c] = IF reply \in {"data", "shape"} THEN "ok"
                                  ELSE IF reply \in {"busy", "lost"} /\ MayRetry(c) THEN "send"
                                  ELSE "failed"]
  /\ UNCHANGED <<world, circuit, sent, recorded>>

-----------------------------------------------------------------------------
(* _circuit_record_failure: one Redis command a step.  An unreachable Redis  *)
(* ends it where it is.                                                      *)

\* The failure is in the counter, which holds n failures now.
Record(c, n) ==
  /\ failures' = n
  /\ streak' = IF streak < Threshold THEN streak + 1 ELSE streak
  /\ IF n >= Threshold THEN Goto(c, "trip") ELSE Return(c, outcome[c])
  /\ void' = IF n >= Threshold /\ stale THEN void \union {c} ELSE void
  /\ UNCHANGED <<open, wasOpen, stale>>

\* The failure goes uncounted.
Uncounted(c) == Return(c, outcome[c]) /\ UNCHANGED <<circuit, recorded>>

\* add, which does nothing to a counter that is there.
Count(c) ==
  /\ at[c] = "failed"
  /\ \/ cacheUp /\ failures = 0 /\ Record(c, 1)
     \/ cacheUp /\ failures > 0 /\ Goto(c, "incr") /\ UNCHANGED <<circuit, recorded>>
     \/ ~cacheUp /\ Uncounted(c)
  /\ UNCHANGED world

\* incr, which raises ValueError for a counter deleted or lapsed meanwhile.
Incr(c) ==
  /\ at[c] = "incr"
  /\ \/ cacheUp /\ failures > 0 /\ Record(c, failures + 1)
     \/ (~cacheUp \/ failures = 0) /\ Uncounted(c)
  /\ UNCHANGED world

Trip(c) ==
  /\ at[c] = "trip"
  /\ IF cacheUp THEN open' = TRUE /\ Goto(c, "mark")
                ELSE UNCHANGED open /\ Return(c, outcome[c])
  /\ void' = void \ {c}
  /\ UNCHANGED <<world, failures, wasOpen, streak, stale>>

Mark(c) ==
  /\ at[c] = "mark"
  /\ IF cacheUp THEN wasOpen' = TRUE /\ Goto(c, "reset")
                ELSE UNCHANGED wasOpen /\ Return(c, outcome[c])
  /\ UNCHANGED <<world, failures, open, recorded>>

Reset(c) ==
  /\ at[c] = "reset"
  /\ failures' = IF cacheUp THEN 0 ELSE failures
  /\ stale' = (stale /\ ~cacheUp)
  /\ Return(c, outcome[c])
  /\ UNCHANGED <<world, open, wasOpen, streak, void>>

-----------------------------------------------------------------------------
(* _circuit_record_success, likewise. *)

\* A success ends the run of failures, whatever becomes of its delete; who has
\* counted up to the threshold opens the circuit all the same.
Succeeded ==
  /\ streak' = 0
  /\ stale' = (~cacheUp /\ failures > 0)
  /\ void' = void \union {c \in Calls : at[c] = "trip"}

\* Mutant of Clear: the failures before a success still count.
ClearNothing(c) ==
  /\ at[c] = "ok" /\ Succeeded
  /\ Goto(c, "recover")
  /\ UNCHANGED <<world, circuit>>

Clear(c) ==
  /\ at[c] = "ok" /\ Succeeded
  /\ failures' = IF cacheUp THEN 0 ELSE failures
  /\ IF cacheUp THEN Goto(c, "recover") ELSE Return(c, outcome[c])
  /\ UNCHANGED <<world, open, wasOpen>>

Recover(c) ==
  /\ at[c] = "recover"
  /\ IF cacheUp /\ wasOpen THEN Goto(c, "close") ELSE Return(c, outcome[c])
  /\ UNCHANGED <<world, circuit, recorded>>

Close(c) ==
  /\ at[c] = "close"
  /\ wasOpen' = (wasOpen /\ ~cacheUp)
  /\ Return(c, outcome[c])
  /\ UNCHANGED <<world, failures, open, recorded>>

-----------------------------------------------------------------------------
(* Timeouts of the keys, Saleor and Redis *)

CooldownEnds ==
  /\ open /\ open' = FALSE
  /\ UNCHANGED <<world, failures, wasOpen, call, recorded>>

FailuresLapse ==
  /\ failures > 0 /\ failures' = 0 /\ stale' = FALSE
  /\ UNCHANGED <<world, open, wasOpen, call, streak, void>>

\* Ten cooldowns without a success.
MarkLapses ==
  /\ Quiet /\ wasOpen /\ ~open /\ wasOpen' = FALSE
  /\ UNCHANGED <<world, failures, open, call, recorded>>

Trouble ==
  /\ troubles < MaxFaults /\ troubles' = troubles + 1
  /\ \/ healthy /\ healthy' = FALSE /\ UNCHANGED cacheUp
     \/ cacheUp /\ cacheUp' = FALSE /\ UNCHANGED healthy
  /\ UNCHANGED <<circuit, call, recorded>>

TroubleEnds ==
  /\ ~healthy \/ ~cacheUp
  /\ healthy' = TRUE /\ cacheUp' = TRUE
  /\ UNCHANGED <<troubles, circuit, call, recorded>>

-----------------------------------------------------------------------------

CallStep(c) ==
  \/ Send(c) \/ Receive(c)
  \/ Count(c) \/ Incr(c) \/ Trip(c) \/ Mark(c) \/ Reset(c)
  \/ Clear(c) \/ Recover(c) \/ Close(c)

ClientNext ==
  \/ \E c \in Calls : Begin(c) \/ CallStep(c)
  \/ CooldownEnds \/ FailuresLapse \/ MarkLapses
  \/ Trouble \/ TroubleEnds

ClientSpec == ClientInit /\ [][ClientNext]_clientVars

\* Calls go on and keep coming, the cooldown passes, troubles end.
ClientFairSpec ==
  /\ ClientSpec
  /\ \A c \in Calls : WF_clientVars(CallStep(c)) /\ WF_clientVars(Begin(c))
  /\ WF_clientVars(CooldownEnds) /\ WF_clientVars(TroubleEnds)

-----------------------------------------------------------------------------
(* Properties *)

\* saleor_client.py:192: "Mutations must pass retry=False -- a timed-out
\* mutation may have been applied."  Whatever is lost, one call has Saleor carry
\* out a mutation at most once; and a call the circuit refused sent nothing.
CarriedOutOnce ==
  \A c \in Calls : /\ c \notin Reads => applied[c] <= 1
                   /\ outcome[c] = "circuit_open" => sent[c] = 0 /\ applied[c] = 0

\* The log's "circuit opened after %d consecutive failures": whatever the order
\* of the workers' Redis commands, the circuit is set open only when that many
\* calls have failed, however many attempts each of them made, since one that
\* succeeded.  Two successes do not stop it: one recorded after the last failure
\* was counted and before the key is set, for nothing looks again, and one whose
\* delete did not reach Redis.
OpensOnConsecutiveFailures ==
  [][\A c \in Calls : at[c] = "trip" /\ at'[c] = "mark" /\ c \notin void
       => streak >= Threshold]_clientVars

\* No outage is remembered for ever: whoever keeps calling gets data again and
\* again.
OutagesPass == \A c \in Calls : []<>(at[c] = "ok" /\ outcome[c] = "data")

=============================================================================
