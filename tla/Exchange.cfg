\* Two rounds of a conversation; answers of up to three parts and three fragments.
CONSTANTS
  MaxTurns = 3
  MaxParts = 3
  MaxFrags = 3
  PeekLimit = 4
  Overlap = {"openai", "responses"}
SPECIFICATION Spec
CHECK_DEADLOCK FALSE
INVARIANTS
  LegalStream
  Delivered
  Billed
  EndsOnce
  CleanFailover
  Recalled
  CallsAnswered
  ChoiceHasTools
