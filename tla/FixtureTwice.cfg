SPECIFICATION Spec
CONSTANTS
  Commands = {"pwr_on", "pwr_off"}
  DelayLoops = 2
  MaxOwed = 2
INVARIANT
  NoReplyForgotten
