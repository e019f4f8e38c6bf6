SPECIFICATION Spec
CONSTANTS
  Short = short
  Long = long
  Blank = blank
  None = none
  Text = {short, long, blank}
  Tokens <- Costs
  Limit = 3
  MaxAttempts = 3
  MaxCalls = 2
  Roles = {"writer", "summarizer", "interviewer", "evaluator", "token_counter", "embedding"}
  Provider = {"AccessDenied", "ResourceNotFound", "ValidationException", "Throttling", "ReadTimeout", "InternalServer", "NoStructure", "ContextOverflow", "Unrecognised"}
INVARIANTS  AcceptedIsVerified
PROPERTY PaidForOnce
CHECK_DEADLOCK FALSE
