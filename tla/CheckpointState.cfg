CONSTANTS
  Root = 5
  MaxClimb = 3
  MaxMoves = 2
SPECIFICATION Spec
INVARIANTS
  NeverMisreadEmpty
  FirstRunIsSeen
PROPERTY
  AnswersAsOneLook
