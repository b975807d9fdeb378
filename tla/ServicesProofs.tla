--------------------------- MODULE ServicesProofs ---------------------------
(* Proofs about the services together (MCServices): they are, each, what     *)
(* their own modules specify, whichever of them a behaviour is about, so     *)
(* what is proved of each of them holds of them together.                    *)
EXTENDS MCServices, ServicePartsProofs, SessionsProofs

\* The steps of one part are steps of its specification, the others stand still.
PartsStep ==
  /\ [ClientNext]_clientVars /\ [KeyringNext]_keyringVars
  /\ [LimiterNext]_limiterVars /\ [LoginNext]_loginVars
  /\ [SessionsNext]_sessionsVars /\ [RegistrationNext]_registrationVars
  /\ [ErasureNext]_erasureVars

LEMMA EveryStepIsOfItsPart == [Next]_services => PartsStep
BY DEF Next, OfClient, OfKeyring, OfLimiter, OfLogin, OfSessions, OfRegistration, OfErasure,
       services, PartsStep, ErasureNext

\* Seven specifications at once.
Parts ==
  /\ ClientSpec /\ KeyringSpec /\ LimiterSpec /\ LoginSpec
  /\ SessionsSpec /\ RegistrationSpec /\ ErasureSpec

\* The composition implements every part: nothing one of them does is a step of
\* another.
THEOREM ServicesAreTheirParts == Spec => Parts
<1>1. Init => /\ ClientInit /\ KeyringInit /\ LimiterInit /\ LoginInit
              /\ SessionsInit /\ RegistrationInit /\ ErasureInit
  BY DEF Init
<1>2. [Next]_services => /\ [ClientNext]_clientVars /\ [KeyringNext]_keyringVars
                         /\ [LimiterNext]_limiterVars /\ [LoginNext]_loginVars
                         /\ [SessionsNext]_sessionsVars
                         /\ [RegistrationNext]_registrationVars /\ [ErasureNext]_erasureVars
  BY EveryStepIsOfItsPart DEF PartsStep
<1>3. QED
  BY <1>1, <1>2, PTL DEF Spec, Parts, ClientSpec, KeyringSpec, LimiterSpec, LoginSpec,
     SessionsSpec, RegistrationSpec, ErasureSpec

\* The types of all seven, together.
THEOREM ServicesTypeCorrect == Spec => []ServicesTypeOK
<1>1. /\ ClientTypeOK /\ KeyringTypeOK /\ LimiterTypeOK /\ LoginTypeOK
      /\ SessionsTypeOK /\ RegistrationTypeOK /\ ErasureTypeOK
      => ServicesTypeOK
  BY DEF ServicesTypeOK
<1>2. QED
  BY <1>1, ServicesAreTheirParts, ClientTypeCorrect, KeyringTypeCorrect, LimiterTypeCorrect,
     LoginTypeCorrect, SessionsTypeCorrect, RegistrationTypeCorrect, ErasureTypeCorrect, PTL DEF Parts

\* Every invariant the run of the services checks, for any number of calls,
\* workers, posts, sign-ins, devices, names and visits.
THEOREM ServicesSafe ==
  Spec => /\ []CarriedOutOnce /\ []RefusedForAReason
          /\ []NotifiedOnce /\ []GuessesBounded /\ []AddressBounded
          /\ []GoodTokens /\ []CommandsKeepTheirWord
BY ServicesAreTheirParts, MutationsCarriedOutOnce, AlwaysRefusedForAReason,
   AlwaysNotifiedOnce, GuessesAlwaysBounded, AddressAlwaysBounded, TokensAlwaysGood,
   CommandsAlwaysKeepTheirWord, PTL DEF Parts

\* Every action property it checks.
THEOREM ServicesActRightly ==
  Spec => /\ OpensOnConsecutiveFailures /\ CacheNeverGoesBack
          /\ SessionsEnd /\ AccountsStand
BY ServicesAreTheirParts, OpensOnlyOnConsecutiveFailures, CacheNeverOlder,
   SessionsAlwaysEnd, AccountsAlwaysStand, PTL DEF Parts

=============================================================================
