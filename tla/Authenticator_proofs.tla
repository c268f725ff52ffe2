------------------------- MODULE Authenticator_proofs -------------------------
(***************************************************************************)
(* Whom authenticate accepts, for any users, any lifetime of nonces and    *)
(* any expiries whose HMAC begins with a digit.                            *)
(***************************************************************************)
EXTENDS Authenticator, FiniteSetTheorems, TLAPS

\* The checks end in a rejection or in an algorithm.
LEMMA OutcomeType ==
  ASSUME NEW r, NEW t
  PROVE  authenticate(r, t) \in Outcome
<1>1. Chosen(r) \in Algorithm \cup {"BadRequest"}
  BY DEF Chosen, Algorithm
<1>2. QED
  BY <1>1 DEF authenticate, Outcome, Algorithm

\* What a request must have to be accepted: none of the checks can be passed
\* by satisfying another one.
LEMMA AcceptedPassesAll ==
  ASSUME NEW r \in Request, NEW t, authenticate(r, t) \in Algorithm
  PROVE  /\ authenticate(r, t) = Chosen(r)
         /\ r.username \in config.users /\ r.realm = config.realm
         /\ validateMessageIntegrity(r, Chosen(r))
         /\ validateNonce(r.nonce, t)
  BY DEF authenticate, getPassword, Algorithm

\* A request as the challenge asks for it passes all checks but that of the
\* nonce.
LEMMA WellFormedOutcome ==
  ASSUME NEW r \in Request, NEW t, config \in Config, WellFormed(r)
  PROVE  /\ validateNonce(r.nonce, t) => authenticate(r, t) \in Algorithm
         /\ ~ validateNonce(r.nonce, t) => authenticate(r, t) \notin Algorithm
<1>1. r.key \in Algorithm /\ Chosen(r) = r.key
  <2>1. CASE {r.algorithm, r.algorithms} = {"none"} /\ r.key = "MD5"
    BY <2>1 DEF Chosen, Algorithm
  <2>2. CASE r.algorithm \in Algorithm /\ r.algorithms = "supported" /\ r.key = r.algorithm
    <3>1. {r.algorithm, r.algorithms} # {"none"}
      BY <2>2
    <3>2. hasPasswordAlgorithmsBit(r.nonce)
      BY DEF WellFormed, hasPasswordAlgorithmsBit
    <3>3. QED
      BY <2>2, <3>1, <3>2 DEF Chosen
  <2>3. QED
    BY <2>1, <2>2 DEF WellFormed
<1>2. Cardinality(r.integrity) = 1
  BY FS_Singleton DEF WellFormed
<1>3. r.username # "none" /\ r.realm = config.realm /\ r.nonce # NoNonce
  BY UserAssumption DEF WellFormed, NoNonce, Config
<1>4. getPassword(r.username) /\ validateMessageIntegrity(r, Chosen(r))
  BY <1>1 DEF WellFormed, getPassword, validateMessageIntegrity
<1>5. QED
  BY <1>1, <1>2, <1>3, <1>4 DEF authenticate, Algorithm

\* The inductive invariant.
IInv == TypeOK /\ AcceptedIsAuthentic /\ AnswerAcceptedUnlessDigit

\* No configuration file makes a configuration of another form.
LEMMA InitIInv == Init => IInv
<1> SUFFICES ASSUME Init PROVE IInv
  OBVIOUS
<1>1. config \in Config
  <2>1. PICK file \in File : config = loadConfig(file)
    BY DEF Init
  <2>2. QED
    BY <2>1 DEF loadConfig, Config, File, Realm
<1>2. TypeOK
  BY <1>1, MaxTimeAssumption DEF Init, TypeOK
<1>3. AcceptedIsAuthentic /\ AnswerAcceptedUnlessDigit
  BY DEF Init, Nothing, Accepted, Algorithm, AcceptedIsAuthentic,
      AnswerAcceptedUnlessDigit, AnsweredInTime
<1>4. QED
  BY <1>2, <1>3 DEF IInv

\* A request is judged by what holds when it comes.
LEMMA AuthenticateIInv ==
  ASSUME IInv, NEW r \in Request, Authenticate(r)
  PROVE  IInv'
<1> USE DEF IInv
<1> DEFINE outcome == authenticate(r, now)
<1>1. outcome \in Outcome
  BY OutcomeType
<1>2. /\ last' = [request |-> r, outcome |-> outcome]
      /\ config' = config /\ now' = now /\ issued \subseteq issued'
      /\ r.nonce.genuine => r.nonce.exp \in issued'
  BY DEF Authenticate
<1>3. TypeOK'
  <2>1. generateNonce(now).exp \in Expiry
    BY NonceLifetimeAssumption, MaxTimeAssumption DEF TypeOK, generateNonce, Expiry
  <2>2. issued' \in SUBSET Expiry
    BY <2>1 DEF Authenticate, TypeOK
  <2>3. QED
    BY <1>1, <1>2, <2>2 DEF TypeOK
<1> HIDE DEF outcome
<1>4. AcceptedIsAuthentic'
  <2> SUFFICES ASSUME outcome \in Algorithm
               PROVE  /\ r.username \in config.users /\ r.realm = config.realm
                      /\ r.key = outcome
                      /\ outcome = "SHA256" <=> r.integrity = {"SHA256"}
                      /\ outcome = IF r.nonce.cookie /\ r.algorithm # "none"
                                   THEN r.algorithm ELSE "MD5"
                      /\ r.nonce.genuine /\ r.nonce.exp \in issued'
                      /\ now <= r.nonce.exp
    BY <1>2 DEF AcceptedIsAuthentic, Accepted
  <2>1. /\ outcome = Chosen(r)
        /\ r.username \in config.users /\ r.realm = config.realm
        /\ validateMessageIntegrity(r, Chosen(r))
        /\ validateNonce(r.nonce, now)
    BY AcceptedPassesAll DEF outcome
  <2>2. outcome = IF r.nonce.cookie /\ r.algorithm # "none" THEN r.algorithm ELSE "MD5"
    <3>1. CASE ~ r.nonce.cookie \/ {r.algorithm, r.algorithms} = {"none"}
      BY <2>1, <3>1 DEF Chosen, hasPasswordAlgorithmsBit
    <3>2. CASE r.nonce.cookie /\ {r.algorithm, r.algorithms} # {"none"}
      <4>1. outcome = r.algorithm /\ r.algorithm \in Algorithm
        BY <2>1, <3>2 DEF Chosen, hasPasswordAlgorithmsBit, Algorithm
      <4>2. QED
        BY <3>2, <4>1 DEF Algorithm
    <3>3. QED
      BY <3>1, <3>2
  <2>3. QED
    BY <1>2, <2>1, <2>2 DEF validateMessageIntegrity, validateNonce, Algorithm
<1>5. AnswerAcceptedUnlessDigit'
  <2> SUFFICES ASSUME WellFormed(r), now <= r.nonce.exp
               PROVE  outcome \in Algorithm <=> r.nonce.exp \notin DigitLed
    BY <1>2 DEF AnswerAcceptedUnlessDigit, AnsweredInTime, Accepted, WellFormed
  <2>1. validateNonce(r.nonce, now) <=> r.nonce.exp \notin DigitLed
    BY DEF validateNonce, WellFormed
  <2>2. QED
    BY <2>1, WellFormedOutcome DEF outcome, TypeOK
<1>6. QED
  BY <1>3, <1>4, <1>5

\* The invariant is inductive: time passes and nonces are issued only between
\* requests.
THEOREM Inductive == Spec => []IInv
<1>1. ASSUME IInv, [Next]_vars
      PROVE  IInv'
  <2> USE <1>1
  <2>1. ASSUME NEW r \in Request, Authenticate(r)
        PROVE  IInv'
    BY <2>1, AuthenticateIInv
  <2>2. ASSUME last' = Nothing, TypeOK'
        PROVE  IInv'
    BY <2>2 DEF IInv, Nothing, Accepted, Algorithm, AcceptedIsAuthentic,
      AnswerAcceptedUnlessDigit, AnsweredInTime
  <2>3. CASE Finish
    BY <2>2, <2>3 DEF Finish, IInv, TypeOK
  <2>4. CASE Tick
    BY <2>2, <2>4, MaxTimeAssumption DEF Tick, IInv, TypeOK
  <2>5. CASE UNCHANGED vars
    BY <2>5 DEF vars, IInv, TypeOK, AcceptedIsAuthentic, AnswerAcceptedUnlessDigit, AnsweredInTime, Accepted, WellFormed
  <2>6. QED
    BY <2>1, <2>3, <2>4, <2>5 DEF Next
<1>2. QED
  BY <1>1, InitIInv, PTL DEF Spec

\* The configuration, the clock, the nonces and the outcomes have their types,
\* whatever the configuration file holds and whatever is sent.
THEOREM TypeCorrect == Spec => []TypeOK
<1>1. IInv => TypeOK
  BY DEF IInv
<1>2. QED
  BY <1>1, Inductive, PTL

\* Whoever is accepted has the password, has used the algorithm its request and
\* the cookie of its nonce come to, and has a nonce with the expiry and the HMAC
\* of one that was issued and is not over. The cookie itself may be any.
THEOREM OnlyAuthenticAccepted == Spec => []AcceptedIsAuthentic
<1>1. IInv => AcceptedIsAuthentic
  BY DEF IInv
<1>2. QED
  BY <1>1, Inductive, PTL

\* Which answers to a challenge validateNonce turns down: those of the expiries
\* whose HMAC begins with a digit.
THEOREM RoundTripUnlessDigit == Spec => []AnswerAcceptedUnlessDigit
<1>1. IInv => AnswerAcceptedUnlessDigit
  BY DEF IInv
<1>2. QED
  BY <1>1, Inductive, PTL
=============================================================================
