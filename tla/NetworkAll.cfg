SPECIFICATION Spec
CONSTANTS
  Nodes = 2
  AddrSpace = 5
  MaxFaults = 2
INVARIANTS
  TypeOK
  PoolSound
  RestsRegistered
PROPERTIES
  ImplementsAddressServer
VIEW MCView
CHECK_DEADLOCK FALSE
