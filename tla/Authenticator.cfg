\* A nonce lives for one tick, the clock makes two steps: nonces are answered
\* in time, in the last moment and too late. The HMAC of the second nonce begins
\* with a digit, those of the others do not.
CONSTANTS
  NonceLifetime = 1
  DigitLed = {2}
  MaxTime = 2
  User = {"alice"}
SPECIFICATION Spec
INVARIANT TypeOK
INVARIANT AcceptedIsAuthentic
INVARIANT AnswerAcceptedUnlessDigit
