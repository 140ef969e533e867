SPECIFICATION LoopSpec
CONSTANTS
  Answer <- AllAnswers
  max_steps = 3
  max_attempts = 2
  MaxToolUses = 2
  TokenCounts = {0, 1}
INVARIANTS
  LoopInv
  ProposalIsSafe
  CostIsHonest
  ConversationIsLegal
  InvalidAnswerIsRepaired
PROPERTIES
  LoopEnds
CHECK_DEADLOCK FALSE
