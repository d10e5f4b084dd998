SPECIFICATION BSpec

CONSTANTS
  Subs = {s1, s2}
  Buffer = 2
  MaxEvents = 2

SYMMETRY Symmetry

INVARIANT NeverSendsOnClosed

\* Everything ends when all events are published and all streams are over.
CHECK_DEADLOCK FALSE
