--------------------------- MODULE MCPeripherals ---------------------------
\* Pins and small drivers for TLC: Exti, Board, Adc, I2c, Random and Descriptors.
\* They share no state, so a behaviour is one of a single driver: part tells
\* which, and the others stay in their initial states.
EXTENDS Exti

CONSTANTS AppPin, LedPin, VsysPin, Reading, Sample, Volts, MaxLen, MaxSize, StrLen, Serial,
          BufLen, MaxIndex, HidTotal

VARIABLES
  part,
  pad, led_type, booted, is_pico_w, use_pico_led, inited, is_on, chip, mode, asked,
  adc_inited, sensor, input, call,
  sda, scl, i2c_inst, held, last,
  size, i, drawn, buf,
  desc_str, serial_made, answer

boardVars  == <<pad, led_type, booted, is_pico_w, use_pico_led, inited, is_on, chip, mode, asked>>
adcVars    == <<adc_inited, sensor, input, call>>
i2cVars    == <<sda, scl, i2c_inst, held, last>>
randomVars == <<size, i, drawn, buf>>
descVars   == <<desc_str, serial_made, answer>>

B == INSTANCE Board
A == INSTANCE Adc
I == INSTANCE I2c
R == INSTANCE Random
D == INSTANCE Descriptors

ASSUME DriverAssumptions == B!BoardPins /\ A!Samples /\ R!SizeBound /\ D!StringTable

\* -30 to 120 degrees; the property's numbers leave TLC's range beyond them.
MCSample == 677 .. 998
\* Strings of all lengths around that of the buffer.
Lengths == <<3, 1, 5, 2, 4, 0, 6>>

PinsRun == part = "pins" /\ UNCHANGED <<part, boardVars, adcVars, i2cVars, randomVars, descVars>>

AllInit ==
  /\ part \in {"pins", "board", "adc", "i2c", "random", "strings"}
  /\ Init /\ B!Init /\ A!Init /\ R!Init /\ D!Init
  /\ part = "pins" \/ intr = [p \in Pin |-> {}]
  /\ part = "i2c" \/ (sda = 0 /\ scl = 0)
  /\ part = "board" \/ led_type = 0
  /\ I!Init

AllNext ==
  \/ PinsRun /\ Next
  \/ /\ part = "board" /\ B!Next
     /\ UNCHANGED <<part, vars, adcVars, i2cVars, randomVars, descVars>>
  \/ /\ part = "adc" /\ A!Next
     /\ UNCHANGED <<part, vars, boardVars, i2cVars, randomVars, descVars>>
  \/ /\ part = "i2c" /\ I!Next
     /\ UNCHANGED <<part, vars, boardVars, adcVars, randomVars, descVars>>
  \/ /\ part = "random" /\ R!Next
     /\ UNCHANGED <<part, vars, boardVars, adcVars, i2cVars, descVars>>
  \/ /\ part = "strings" /\ D!Next
     /\ UNCHANGED <<part, vars, boardVars, adcVars, i2cVars, randomVars>>

allVars == <<part, vars, boardVars, adcVars, i2cVars, randomVars, descVars>>

\* The fairness of Exti; the others have none.
AllSpec ==
  /\ AllInit /\ [][AllNext]_allVars
  /\ WF_allVars(PinsRun /\ Isr) /\ WF_allVars(PinsRun /\ (EnableAck \/ EnableSet \/ EnableNvic))

\* Pins and LED are what they were last told to be (pins.c:43-173,
\* platform.c:30-92, wifi_impl.c:162-172).
BoardOK == B!TypeOK /\ B!PadMatchesMode /\ B!LedFollows

\* The computed temperature is the datasheet's, up to a quarter of a degree and
\* the rounding (adc.c:37-39); the pins belong to the I2C instance that is used,
\* and the bus is kept only after a write that asked for it (i2c.c:24-33, 58-63);
\* a buffer is filled with random bytes, and nothing behind it (platform.c:182-187);
\* the host reads the string that it asked for (usb_descriptors.c:133-160).
DriversOK ==
  /\ A!TypeOK /\ A!TempIsClose
  /\ I!TypeOK /\ I!PinsServeInst /\ I!HeldOnRequest
  /\ R!TypeOK /\ R!Filled
  /\ D!TypeOK /\ D!StringIsWhole
=============================================================================
