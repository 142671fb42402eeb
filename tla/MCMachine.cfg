CONSTANTS
  NumHarts = 2
  Setups <- AllSetups
  MaxRequests = 2
SPECIFICATION MachineFairSpec
INVARIANTS
  StepInv
  HartsExist
PROPERTIES
  StepsHappen
  RebootHappens
  PlainStopEnds
