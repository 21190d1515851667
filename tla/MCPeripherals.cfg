SPECIFICATION AllSpec
CONSTANTS
  NumPins = 2
  AppPin = {1}
  LedPin = 25
  VsysPin = 29
  Reading = {0, 3263, 3264, 65520}
  Sample <- MCSample
  Volts = {0, 203, 204, 4095}
  MaxLen = 2
  MaxSize = 37
  StrLen <- Lengths
  Serial = 3
  BufLen = 5
  MaxIndex = 9
  HidTotal = 3
INVARIANTS EdgesOK BoardOK DriversOK
PROPERTIES EdgesServed
