SPECIFICATION Spec
CONSTANTS
  Options = {"0", "1", "00"}
  Times = {1, 2, 3, 6, 13, 60}
  Unit = 5
  Interval = 2
  Word = 64
  MaxLag = 2
CHECK_DEADLOCK FALSE
INVARIANTS
  TypeOK
  NotLeftOn
PROPERTIES
  LightGoesOff
  BlinkingEnds
