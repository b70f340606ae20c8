SPECIFICATION ParserSpec
CONSTANTS
  Replies <- MCReplies
  Unlimited = 1000
  MaxRead = 6
INVARIANTS CutsDoNotMatter EventsAreThoseSent
CHECK_DEADLOCK FALSE
