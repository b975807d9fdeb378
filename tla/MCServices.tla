------------------------------ MODULE MCServices ------------------------------
(***************************************************************************)
(* The services around the shop, on small instances: Saleor's API through  *)
(* the circuit breaker (SaleorClient, a query and a mutation at a time) and*)
(* its signing keys (Keyring, two workers); the windows of two addresses at*)
(* one view (RateLimit), the attempts to sign in (Login, two at once) and  *)
(* the API sessions (Sessions, two devices and two requests at once); the  *)
(* registration of two names under one address (Registration) by two       *)
(* requests at once, and what is kept about a user (Erasure) with one      *)
(* request of the user.  They share no variables, so a behaviour is about  *)
(* one of them: its part.                                                  *)
(***************************************************************************)
EXTENDS SaleorClient, Keyring, RateLimit, Login, Sessions, Registration, Erasure, TLC

CONSTANTS query, mutation, w1, w2, p1, p2, login, a1, a2, i1, i2, h1, d1, d2, r1, r2, n1, n2, t1, t2, v1

VARIABLE part

services ==
  <<clientVars, keyringVars, limiterVars, loginVars, sessionsVars, registrationVars, erasureVars,
    part>>

Init ==
  /\ ClientInit /\ KeyringInit /\ LimiterInit /\ LoginInit /\ SessionsInit
  /\ RegistrationInit /\ ErasureInit
  /\ part \in {"client", "keyring", "limiter", "login", "sessions", "registration", "erasure"}
  /\ part # "erasure" => records = {}

OfClient(A) ==
  /\ part = "client" /\ A
  /\ UNCHANGED <<keyringVars, limiterVars, loginVars, sessionsVars, registrationVars, erasureVars,
                 part>>
OfKeyring(A) ==
  /\ part = "keyring" /\ A
  /\ UNCHANGED <<clientVars, limiterVars, loginVars, sessionsVars, registrationVars, erasureVars,
                 part>>
OfLimiter(A) ==
  /\ part = "limiter" /\ A
  /\ UNCHANGED <<clientVars, keyringVars, loginVars, sessionsVars, registrationVars, erasureVars,
                 part>>
OfLogin(A) ==
  /\ part = "login" /\ A
  /\ UNCHANGED <<clientVars, keyringVars, limiterVars, sessionsVars, registrationVars, erasureVars,
                 part>>
OfSessions(A) ==
  /\ part = "sessions" /\ A
  /\ UNCHANGED <<clientVars, keyringVars, limiterVars, loginVars, registrationVars, erasureVars,
                 part>>
OfRegistration(A) ==
  /\ part = "registration" /\ A
  /\ UNCHANGED <<clientVars, keyringVars, limiterVars, loginVars, sessionsVars, erasureVars,
                 part>>
OfErasure(A) ==
  /\ part = "erasure" /\ A /\ Observe
  /\ UNCHANGED <<clientVars, keyringVars, limiterVars, loginVars, sessionsVars, registrationVars,
                 part>>

Next ==
  OfClient(ClientNext) \/ OfKeyring(KeyringNext) \/ OfLimiter(LimiterNext) \/ OfLogin(LoginNext)
  \/ OfSessions(SessionsNext) \/ OfRegistration(RegistrationNext) \/ OfErasure(ErasureNext)

\* The fairness of ClientFairSpec and of KeyringFairSpec; a request, a task, the
\* nightly pass and time go on, and who has no link keeps asking.
Spec ==
  /\ Init /\ [][Next]_services
  /\ \A c \in Calls : WF_clientVars(OfClient(CallStep(c) \/ Begin(c)))
  /\ WF_clientVars(OfClient(CooldownEnds)) /\ WF_clientVars(OfClient(TroubleEnds))
  /\ \A w \in Workers : WF_keyringVars(OfKeyring(WorkerStep(w) \/ Deliver(w)))
  /\ \A s \in Services : WF_keyringVars(OfKeyring(OutageEnds(s)))
  /\ WF_keyringVars(OfKeyring(LeaseLapses))
  /\ \A t \in Tabs : WF_registrationVars(OfRegistration(TabStep(t)))
  /\ \A n \in Names : /\ WF_registrationVars(OfRegistration(Mail(n)))
                      /\ WF_registrationVars(OfRegistration(Resend(n)))
  /\ \A v \in Visits : WF_erasureVars(OfErasure(VisitStep(v)))
  /\ WF_erasureVars(OfErasure(PurgeMessages)) /\ WF_erasureVars(OfErasure(PurgeCarts))
  /\ WF_erasureVars(OfErasure(CartAges))

\* OutagesPass and EventsGetIn for the part they are about.
CallersRecover ==
  \A c \in Calls : []<>(part = "client" => at[c] = "ok" /\ outcome[c] = "data")
DeliveriesGetIn ==
  \A w \in Workers : []<>(part = "keyring" => verdict[w] = "accepted")

\* No trouble is for ever.  Callers get through once the circuit has cooled down,
\* deliveries are accepted once the keys can be fetched (saleor_client.py:32,
\* saleor_webhooks.py:54), who keeps asking gets a link (accounts/views.py:112),
\* and retention removes what an erasure left (purge_expired_data.py:26).
TroublesPass == CallersRecover /\ DeliveriesGetIn /\ LinkArrives /\ LeftoversExpire

\* The type invariants of the seven parts.
ServicesTypeOK ==
  /\ ClientTypeOK /\ KeyringTypeOK /\ LimiterTypeOK /\ LoginTypeOK
  /\ SessionsTypeOK /\ RegistrationTypeOK /\ ErasureTypeOK

=============================================================================
