SPECIFICATION Spec
CONSTANTS
  fast = fast
  slow = slow
  Workers = {fast, slow}
  Leaving = {fast}
  Late = {slow}
  Classes <- MCClasses
  ClassOf <- MCClassOf
  Calibrated <- MCCalibratedSlow
  Speeds <- MCSpeeds
  SamplesPerStep = 8
  SamplesPerBucket = 400
  TotalBuckets = 20
  PassNum = 3
  PassDen = 2
  Overhead = 270
  MinUsableSec = 300
  ColdStart = 3
  FloorNum = 1
  FloorDen = 10
  SetupSec = 110
  MaxRoundSec = 1800
  Tick = 600
  TargetSteps = 600
  MinRoundSec = 600
  MaxOffers = 2
INVARIANTS TypeOK BudgetsFit MeasuredWorkFits
