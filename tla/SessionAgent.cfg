CONSTANTS
  Senders = {"prompt"}
  PromptCap = 1
SPECIFICATION FairSpec
INVARIANTS Inv NothingRunsOn
PROPERTIES RunReturns PromptsAreTaken
CHECK_DEADLOCK FALSE
