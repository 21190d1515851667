SPECIFICATION UsbSpec
CONSTANTS
  Latest = {"keyboard"}
  Report = {"released", "pressed"}
  Button = {b1, b2}
  Width = 5
  Step = {0, 1, 3}
  Packet = 2
  TxFifo = 4
  RxFifo = 3
  MaxBytes = 7
INVARIANTS HidOK CdcOK
PROPERTIES ReportsArrive SerialDrains
