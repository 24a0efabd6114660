SPECIFICATION FairSpec
CONSTANTS
  Conns = {c1, c2, c3}
  Nobody = Nobody
  Backlog = 2
  MaxAsk = 2
  NetLen = 2
INVARIANT AnswerIntact
PROPERTIES ServesAsPromised Released Answered
CHECK_DEADLOCK FALSE
