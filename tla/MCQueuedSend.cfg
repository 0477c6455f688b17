SPECIFICATION Spec
CONSTANTS
  m1 = m1
  m2 = m2
  m3 = m3
  review = review
  command = command
  Messages <- MCMessages
  Reviews <- MCReviews
  Commands <- MCCommands
  MaxSubmitted = 3
  MaxDisturbances = 1
SYMMETRY MessageSymmetry
INVARIANTS NothingLost DeliveredOnce ViewIsTrue SpinnerEnds QueueIsServed
PROPERTY OneAtATime
CHECK_DEADLOCK FALSE
