SPECIFICATION FairSpec
CONSTANTS
  AP = {a1, a2, a3, a4}
  Rssi = {r1, r2}
  Grow = 1
INVARIANTS TableOK
PROPERTIES Reported
