CONSTANTS
  Files <- MCShortFiles
  Bindings <- MCBindings
  MaxLines = 5

SPECIFICATION Spec

INVARIANT
  NoNameOnlyWithData

\* Every file is read to its end or rejected: the program stops.
CHECK_DEADLOCK FALSE
