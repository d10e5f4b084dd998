SPECIFICATION FairSpec

CONSTANTS
  Subs = {s1, s2}
  Buffer = 2
  MaxEvents = 4
  DbFaults = TRUE

INVARIANT TypeOK
INVARIANT NoGaps
INVARIANT ClosedOnce
INVARIANT StreamNeverGoesBack
INVARIANT NoSubscriberLeaks
PROPERTY PublishReturns

\* Everything ends when all events are published and all streams are over.
CHECK_DEADLOCK FALSE
