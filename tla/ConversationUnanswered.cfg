SPECIFICATION ConversationSpec
CONSTANTS
  Senders = {s1}
  MaxEpochs = 3
  MaxMessages = 3
  MaxCalls = 2
  MaxSlips = 0
INVARIANTS
  RequestIsAnswered
CHECK_DEADLOCK FALSE
