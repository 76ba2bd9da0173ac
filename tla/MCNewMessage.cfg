SPECIFICATION FairSpec
CONSTANTS
  al = al
  Al = Al
  bo = bo
  none = none
  Person = {1, 2, 3}
  Me = 1
  Text = {al, Al, bo, none}
  NoText = none
  lower <- Lower
  username <- Usernames
  fullname <- Fullnames
  NoView = NoView
  MaxScreens = 2
  MaxChats = 2
CHECK_DEADLOCK FALSE
INVARIANTS ChatWithTapped FoundByUsername Uncovered
PROPERTY IndicatorEnds
