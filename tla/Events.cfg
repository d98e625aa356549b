CONSTANTS
  Ranks = {1, 2, 3}
  Contexts = {"c1", "c2"}
  Forwarding = {"c1"}
  MaxTime = 2
SPECIFICATION MCSpec
INVARIANTS
  NothingCrosses
  EventsWhole
  DisagreementCaught
PROPERTY AllEventsHandled
