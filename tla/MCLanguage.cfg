SPECIFICATION MCSpec
CONSTANTS
  Special = {"a", "'", "\"", "$"}
  MaxBody = 2
  MaxTokens = 2
  Raised = Raised
CHECK_DEADLOCK FALSE
INVARIANTS
  ParserRight
  
  
