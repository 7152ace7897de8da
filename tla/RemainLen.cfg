SPECIFICATION Spec
CONSTANT Lens <- MCLensAll
INVARIANTS
  EncodedRight
  RoundTrip
CHECK_DEADLOCK FALSE
