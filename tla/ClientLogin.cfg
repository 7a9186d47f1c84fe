\* One logout and one stop at any moment of a login by phone number or token,
\* from a fresh session or one resumed in any state.
CONSTANTS
  MaxForeign = 1
SPECIFICATION FairSpec
INVARIANTS
  TypeOK
  LoginSound
  FollowsTdlib
PROPERTIES
  LoginEnds
  StopEndsRun
\* A login that waits for what never comes, or is over, stops.
CHECK_DEADLOCK FALSE
