SPECIFICATION FairSpec
CONSTANTS
  Channel = {0, 1}
  dmachRx = 0
  dmachTx = 1
PROPERTIES
  ExtiReenabled
