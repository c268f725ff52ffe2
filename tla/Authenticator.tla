----------------------------- MODULE Authenticator -----------------------------
(***************************************************************************)
(* Authentication of requests: the nonces of Authenticator and the         *)
(* decision of StunTurnProcessor::authenticate, with the realm and the     *)
(* users that loadConfig made of the configuration file.                   *)
(*                                                                         *)
(* A nonce is a cookie, an expiry time in decimal digits and the HMAC of   *)
(* those digits, one string. validateNonce takes for the expiry all the    *)
(* digits it finds, so that where the HMAC begins with a byte that is a    *)
(* digit it reads a longer number and a shorter HMAC. Of the HMAC the      *)
(* model keeps whether it is the one of the expiry, and the set DigitLed   *)
(* of the expiries whose HMAC begins with a digit.                         *)
(***************************************************************************)
EXTENDS Naturals, FiniteSets

CONSTANTS NonceLifetime,   \* 3600 seconds in the code, in ticks
          DigitLed,        \* expiries whose HMAC begins with an ASCII digit
          MaxTime,         \* bound: the last value of the clock
          User             \* usernames

ASSUME NonceLifetimeAssumption == NonceLifetime \in Nat
ASSUME MaxTimeAssumption == MaxTime \in Nat
\* "none" stands for a request without the attribute.
ASSUME UserAssumption == "none" \notin User

VARIABLES config,          \* config_->auth
          now,             \* currentUnixTS()
          issued,          \* expiries of the nonces generated so far
          last             \* the request just handled and its outcome

vars == <<config, now, issued, last>>

Expiry == NonceLifetime .. MaxTime + NonceLifetime

\* cookie: the nonce begins with the cookie of generateNonce, whose feature
\* bits say that password algorithms are supported. genuine: the HMAC is that
\* of the expiry under the server's key.
Nonce == [cookie : BOOLEAN, exp : Expiry, genuine : BOOLEAN]
NoNonce == [cookie |-> FALSE, exp |-> 0, genuine |-> FALSE]

Algorithm == {"MD5", "SHA256"}

Realm == {"example.com", "example.org"}

\* What loadConfig looks at: the key "realm", not the one of the section [auth],
\* and the section [users].
File == [readable : BOOLEAN, realm : Realm \cup {"none"}, users : SUBSET User]

Config == [realm : Realm, users : SUBSET User]

\* What authenticate looks at: which MESSAGE-INTEGRITY attributes there are
\* and with which key they were made, and the attributes it requires. A realm
\* that is missing and one that is not the server's have the same effect. The
\* key is that of the user's password, under an algorithm, or another one.
Request ==
  [integrity  : SUBSET {"SHA1", "SHA256"},
   key        : Algorithm \cup {"other"},
   username   : User \cup {"none"},
   realm      : Realm,
   nonce      : Nonce \cup {NoNonce},
   algorithm  : Algorithm \cup {"other", "none"},
   algorithms : {"supported", "other", "none"}]

Outcome == {"MD5", "SHA256", "Unauthenticated", "BadRequest", "StaleNonce"}

Nothing == [outcome |-> "none"]

TypeOK ==
  /\ config \in Config
  /\ now \in 0 .. MaxTime
  /\ issued \in SUBSET Expiry
  /\ last \in {Nothing} \cup [request : Request, outcome : Outcome]

\* Without the file, or without an entry, the defaults; no users by default.
loadConfig(file) ==
  [realm |-> IF file.readable /\ file.realm # "none" THEN file.realm ELSE "example.com",
   users |-> IF file.readable THEN file.users ELSE {}]

Init ==
  /\ config \in {loadConfig(file) : file \in File}
  /\ now = 0
  /\ issued = {}
  /\ last = Nothing
-----------------------------------------------------------------------------
\* Mutation: the lifetime is counted in the wrong unit.
MinutesForSeconds(t) == [cookie |-> TRUE, exp |-> t + 60 * NonceLifetime, genuine |-> TRUE]

generateNonce(t) == [cookie |-> TRUE, exp |-> t + NonceLifetime, genuine |-> TRUE]

\* Mutation: a nonce is over one second early.
ValidBefore(n, t) == t < n.exp /\ n.genuine /\ n.exp \notin DigitLed

\* The cookie is skipped: the HMAC is that of the expiry alone.
validateNonce(n, t) ==
  /\ t <= n.exp
  /\ n.genuine
  /\ n.exp \notin DigitLed

hasPasswordAlgorithmsBit(n) == n.cookie

\* The algorithm a request chooses, or "BadRequest".
Chosen(r) ==
  LET absent == {r.algorithm, r.algorithms} = {"none"}
  IN  IF ~ hasPasswordAlgorithmsBit(r.nonce) \/ absent THEN "MD5"
      ELSE IF r.algorithms = "supported" /\ r.algorithm \in Algorithm
           THEN r.algorithm
           ELSE "BadRequest"

\* Mutation: the attribute is looked for and its value not compared.
IntegrityOfSender(r, algorithm) ==
  r.integrity = {IF algorithm = "SHA256" THEN "SHA256" ELSE "SHA1"}

\* The MESSAGE-INTEGRITY attribute of the chosen algorithm is there, and was
\* made with the key derived from the password under that algorithm.
validateMessageIntegrity(r, algorithm) ==
  /\ r.integrity = {IF algorithm = "SHA256" THEN "SHA256" ELSE "SHA1"}
  /\ r.key = algorithm

\* The user has a password.
getPassword(username) == username \in config.users

\* The checks in the order in which they reject a request.
authenticate(r, t) ==
  IF Cardinality(r.integrity) # 1 THEN "Unauthenticated"
  ELSE IF r.username = "none" \/ r.realm # config.realm \/ r.nonce = NoNonce THEN "BadRequest"
  ELSE IF Chosen(r) = "BadRequest" THEN "BadRequest"
  ELSE IF ~ getPassword(r.username) THEN "Unauthenticated"
  ELSE IF ~ validateMessageIntegrity(r, Chosen(r)) THEN "Unauthenticated"
  ELSE IF ~ validateNonce(r.nonce, t) THEN "StaleNonce"
  ELSE Chosen(r)

\* sendErrorMessage gives a fresh nonce with these errors.
Challenges(outcome) == outcome \in {"Unauthenticated", "StaleNonce"}

\* A request comes in. The HMAC of an expiry is known only from a nonce the
\* server has issued.
Authenticate(r) ==
  LET outcome == authenticate(r, now)
  IN  /\ last = Nothing
      /\ r.nonce.genuine => r.nonce.exp \in issued
      /\ last' = [request |-> r, outcome |-> outcome]
      /\ issued' = IF Challenges(outcome)
                   THEN issued \cup {generateNonce(now).exp}
                   ELSE issued
      /\ UNCHANGED <<config, now>>

\* The handler is done with the request.
Finish ==
  /\ last # Nothing
  /\ last' = Nothing
  /\ UNCHANGED <<config, now, issued>>

\* Handling takes no time: the clock is read once.
Tick ==
  /\ last = Nothing
  /\ now < MaxTime
  /\ now' = now + 1
  /\ UNCHANGED <<config, issued, last>>

Next == (\E r \in Request : Authenticate(r)) \/ Finish \/ Tick

Spec == Init /\ [][Next]_vars
-----------------------------------------------------------------------------
Accepted == last.outcome \in Algorithm

(***************************************************************************)
(* A request is accepted only if it was made with the key of the password, *)
(* under the algorithm it chose, in one kind of MESSAGE-INTEGRITY, and     *)
(* with a nonce that has the expiry and the HMAC of one the server issued  *)
(* and was not over when the request came, whatever was issued and however *)
(* much time passed before. Nothing is said of the cookie of the nonce,    *)
(* which may be another than the server's (see OnlyIssuedNonces); it then  *)
(* takes the choice away and leaves MD5. About the checks of authenticate, *)
(* none of which may be passed by satisfying another one.                  *)
(***************************************************************************)
AcceptedIsAuthentic ==
  Accepted =>
    LET r == last.request
    IN  /\ r.username \in config.users /\ r.realm = config.realm
        /\ r.key = last.outcome
        /\ last.outcome = "SHA256" <=> r.integrity = {"SHA256"}
        /\ last.outcome = IF r.nonce.cookie /\ r.algorithm # "none" THEN r.algorithm ELSE "MD5"
        /\ r.nonce.genuine /\ r.nonce.exp \in issued
        /\ now <= r.nonce.exp

\* The nonces as the server sent them.
IssuedNonces == {n \in Nonce : n.cookie /\ n.genuine /\ n.exp \in issued}

(***************************************************************************)
(* A request is accepted only with a nonce exactly as the server sent it:  *)
(* one with a byte altered is refused (test/Authenticator_test.cpp,        *)
(* TamperedNonceFails, which alters a byte of the cookie). Violated:       *)
(* validateNonce does not look at the cookie, and the HMAC does not cover  *)
(* it, while hasPasswordAlgorithmsBit goes by it.                          *)
(***************************************************************************)
OnlyIssuedNonces == Accepted => last.request.nonce \in IssuedNonces

\* What a client sends that follows the challenge: the realm and the nonce as it
\* got them, and either no choice of algorithm or one of the list it was given.
WellFormed(r) ==
  /\ r.username \in config.users /\ r.realm = config.realm
  /\ r.nonce.genuine /\ r.nonce.cookie
  /\ \/ {r.algorithm, r.algorithms} = {"none"} /\ r.key = "MD5"
     \/ r.algorithm \in Algorithm /\ r.algorithms = "supported" /\ r.key = r.algorithm
  /\ r.integrity = {IF r.key = "SHA256" THEN "SHA256" ELSE "SHA1"}

AnsweredInTime ==
  last # Nothing /\ WellFormed(last.request) /\ now <= last.request.nonce.exp

(***************************************************************************)
(* A client that answers the challenge of the server with the right key    *)
(* while the nonce is not over is accepted: a nonce that was generated is  *)
(* valid (test/Authenticator_test.cpp, GenerateValidateRoundTrip).         *)
(* Violated when the HMAC of the nonce begins with a digit.                *)
(***************************************************************************)
AnswerAccepted == AnsweredInTime => Accepted

(***************************************************************************)
(* The round trip as it is: of the well-formed answers that come in time,  *)
(* up to the last second of the nonce, those are accepted whose expiry has *)
(* an HMAC that does not begin with a digit, and no others. About the      *)
(* digits validateNonce takes for the expiry.                              *)
(***************************************************************************)
AnswerAcceptedUnlessDigit ==
  AnsweredInTime => (Accepted <=> last.request.nonce.exp \notin DigitLed)
=============================================================================
