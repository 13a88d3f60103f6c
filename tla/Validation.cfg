CONSTANTS
  Keys <- MCKeys
  MaxLength <- MCMaxLength
SPECIFICATION Spec
CHECK_DEADLOCK FALSE
INVARIANTS
  SentTextsAreUsable
