SPECIFICATION Spec
CONSTANTS
  Commands = {"measure", "pwr_on", "pwr_off", "barcode", "can", "motor", "hall", "temp", "force_pwr_on", "unknown"}
  DelayLoops = 2
  MaxOwed = 2
INVARIANTS
  TypeOK
  Supervised
  CanGoodIsFresh
  MagnetReleased
  GoodMeansAcked
  NoUnsolicitedReply
  RepliesAccounted
PROPERTY
  UsesDutPort
