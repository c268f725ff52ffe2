\* No HMAC begins with a digit: what is refused is refused for another reason.
CONSTANTS
  NonceLifetime = 1
  DigitLed = {}
  MaxTime = 2
  User = {"alice"}
SPECIFICATION Spec
INVARIANT OnlyIssuedNonces
