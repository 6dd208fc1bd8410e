SPECIFICATION Spec
CONSTANTS
  primary = primary
  gemini = gemini
  Workers = {w1, w2}
  Accounts = {primary, gemini}
  OpenAI <- OneAccount
  Gemini <- GeminiAccount
  TaskRoute <- GeminiFirst
  Policy = "failover"
  Budget = 1
  Threshold = 2
  MaxRetries = 1
  MaxGenerations = 2
  MaxDisturbances = 1
INVARIANT UsageIsCharged
INVARIANT OvershootIsBounded
INVARIANT SecondAnswerNeedsRedisFailure
INVARIANT CounterForgets
PROPERTY GenerationEnds
CHECK_DEADLOCK FALSE
