CONSTANTS
  Name = {n1}
  Token = {t1, t2, t3}
  NoName = NoName
  NoToken = NoToken
  ExpireLimit = 1
SPECIFICATION FairSpec
INVARIANTS Exclusive NoLostWakeup QueueMoves
PROPERTIES EntryLeavesSafely AcquireReturns IdleExpires ImplementsHandoverLock
