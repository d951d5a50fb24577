CONSTANTS
  Chars <- MCChars
  Sizes <- MCSizes
  MaxLen = 3

SPECIFICATION Spec

INVARIANTS
  TypeOK
  HashLoopIsFnv1
  FingerprintMatchesReference

\* The hash of one name ends when the fingerprint is returned.
CHECK_DEADLOCK FALSE
