SPECIFICATION Spec
CONSTANTS
  Channel = {0, 1, 2}
  dma_tx = 0
  dma_rx = 1
  dmachTx = 2
  DoneFn = {f1, f2}
  Mixes = {{"txrx"}}
  Controllers = {spi1}
  spi_default = spi0
  LogPins = {p1}
  MaxFrames = 2
  MaxLog = 2
INVARIANT SetsUpIdleChannels
