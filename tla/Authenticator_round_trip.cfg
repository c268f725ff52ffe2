\* The HMAC of the second nonce begins with a digit.
CONSTANTS
  NonceLifetime = 1
  DigitLed = {2}
  MaxTime = 2
  User = {"alice"}
SPECIFICATION Spec
INVARIANT AnswerAccepted
