SPECIFICATION Spec
CONSTANTS
  Lanes = {1, 2}
  Polls = {3}
  Entry = {"root", "profile"}
  MaxClicks = 2
  MaxElsewhere = 0
CHECK_DEADLOCK FALSE
PROPERTIES UnauthorizedMeansDead
