CONSTANTS
  e1 = e1
  e2 = e2
  Events <- MCEvents
  MaxStops = 2
SPECIFICATION FairDelivery
INVARIANT NothingForgotten
PROPERTIES EventuallySettled
