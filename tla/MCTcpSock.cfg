SPECIFICATION FairSpec
CONSTANTS
  Host = {h1, h2}
  Port = {0, 1, 65536}
  Pcb = {b1, b2}
  Envs <- MCEnvs
  MaxEvents = 2
  MaxDepth = 2
INVARIANTS EventsOK OwnBlock NoUseAfterFree
PROPERTIES IsConnection Settles
