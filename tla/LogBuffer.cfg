\* Two streams over a ring of two and queues of one: laggards, browsers that
\* stall or leave, Clear, and Close at any moment.
SPECIFICATION FairSpec
CONSTANTS
  Streams = {s1, s2}
  BufferCapacity = 2
  subscriberQueue = 1
  MaxID = 4
CHECK_DEADLOCK FALSE
INVARIANTS
  LogInv
  NoPanic
  SubscribersMissNothing
PROPERTIES
  ImplementsEventLog
  StreamsEnd
