CONSTANTS
  Token = {k1, k2}
  Lifetime = 2
  MaxQueued = 2
SPECIFICATION Spec
PROPERTY LapsedReservationLeaves
