SPECIFICATION FairSpec
CONSTANTS
  Channel = {0, 1, 2}
  dmachRx = 0
  dmachTx = 1
INVARIANTS TypeOK DmaSlotFree ActivitiesExclusive BusDrivenOnlyInTx Consistent CompletionPending
PROPERTIES NoTruncation IsHalfDuplex TxCompletes HeardAgain
