CONSTANTS
  PadNames <- MCPadNames
  KeySeqs <- MCKeySeqs
  Actions <- MCActions
  WheelNums = {1, 2}
  MaxLines = 3

SPECIFICATION Spec

INVARIANTS
  TypeOK
  BindingsKeysPreserved
  AnalogLabelMerged
  OneMappingPerButton

\* The bindings of a game end after MaxLines lines, or at an error.
CHECK_DEADLOCK FALSE
