SPECIFICATION Spec
CONSTANTS
  KeyDelay = 1
  FlashTime = 2
  BreathTime = 1
  FlashTimes = 1
  SettleTimes = 1
  Flash = 1
  Step = 4
  PWM_3 = 5
  PWM_2 = 6
  PWM_1 = 7
  MaxEdges = 6
INVARIANTS
  KeyBrightnessStays
