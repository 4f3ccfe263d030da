SPECIFICATION FairSpec
CONSTANTS
  Commands = {"pwr_on", "pwr_off", "can"}
  DelayLoops = 2
  MaxOwed = 2
PROPERTIES
  EveryCommandAnswered
