CONSTANTS
  Docs = {profile}
  MaxReads = 3
  MaxVersion = 1
  MaxBreaks = 1
  MaxRefusals = 1
SPECIFICATION LiveSpec
CHECK_DEADLOCK FALSE
INVARIANTS
  StatesAreLegal
  AnsweredAtMostOnce
  FreshAnswers
  ListensAgree
PROPERTIES
  ReadsGoForward
  EveryReadIsAnswered
