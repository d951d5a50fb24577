CONSTANTS
  Chars <- MCChars
  Sizes <- MCSizes
  MaxLen = 3

SPECIFICATION Spec

INVARIANTS
  FingerprintIsFnv1a

\* The hash of one name ends when the fingerprint is returned.
CHECK_DEADLOCK FALSE
