SPECIFICATION Spec
CONSTANTS
  Lanes = {1, 2}
  Polls = {3}
  Entry = {"root", "profile"}
  MaxClicks = 1
  MaxElsewhere = 2
CHECK_DEADLOCK FALSE
PROPERTIES LandsOnASection ShellLands DeadSessionNoticed
