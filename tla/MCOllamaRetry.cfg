CONSTANTS
  Agents <- MCAgents
  Replies <- MCReplies
  Messages <- MCMessages
  Capacity = 2
  MaxChunks = 2
SPECIFICATION Spec
INVARIANT RetriesConnectionErrors
CHECK_DEADLOCK FALSE
