CONSTANTS
  Agents <- MCAgents
  Replies <- MCReplies
  Messages <- MCMessages
  Capacity = 2
  MaxChunks = 2
SPECIFICATION Spec
INVARIANTS
  VerdictHeeded
  StreamReadable
PROPERTIES
  ImplementsGatedReply
  Answered
CHECK_DEADLOCK FALSE
