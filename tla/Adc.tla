-------------------------------- MODULE Adc ---------------------------------
(***************************************************************************)
(* The analog inputs of adc.c: which pins have one, reading a pin, and the *)
(* temperature, which is computed in whole numbers with 12 bits of         *)
(* fraction.  The converter is external; a sample has 12 bits.             *)
(***************************************************************************)
EXTENDS Integers

CONSTANTS
  Sample,     \* samples of the temperature sensor
  Volts       \* samples of the pins

Samples == Sample \subseteq 0 .. 4095 /\ Volts \subseteq 0 .. 4095

VARIABLES
  adc_inited,
  sensor,     \* the temperature sensor is switched on
  input,      \* the selected input; 4 is the sensor
  call        \* history: the last call, its argument or sample, and its result

vars == <<adc_inited, sensor, input, call>>

get_adc_ch(pin) == IF pin - 26 < 0 \/ pin - 26 > 3 THEN -1 ELSE pin - 26

adc_can_read_pin(pin) == get_adc_ch(pin) # -1

\* The types: a pin is never read from the sensor's input.
TypeOK ==
  /\ adc_inited \in BOOLEAN /\ sensor \in BOOLEAN /\ input \in 0 .. 4
  /\ call \in [op: {"none", "pin", "temp"}, sample: 0 .. 4095, result: Int]
  /\ call.op # "none" => adc_inited /\ (input = 4 <=> call.op = "temp")

Init ==
  /\ adc_inited = FALSE /\ sensor = FALSE /\ input = 0
  /\ call = [op |-> "none", sample |-> 0, result |-> 0]

\* Pins that adc_can_read_pin accepts.  The sample is scaled to 16 bits.
adc_read_pin(pin, v) ==
  /\ adc_can_read_pin(pin)
  /\ adc_inited' = TRUE /\ input' = get_adc_ch(pin)
  /\ call' = [op |-> "pin", sample |-> v, result |-> v * 16]
  /\ UNCHANGED sensor

\* 27 degrees at 0.706V: (int)(4096 * 0.706 / 3.3); (int)(3.3 / 0.001721).
Offset == 876
Slope  == 1917

\* Variant: the slope is rounded to half a degree.
TempRough(adc) == (27 * 2 - (adc - Offset)) \div 2

\* The shift of a negative number rounds down, as \div does.
Temp(adc) == (27 * 4096 - (adc - Offset) * Slope) \div 4096

adc_read_temp(adc) ==
  /\ adc_inited' = TRUE /\ input' = 4 /\ sensor' = FALSE
  /\ call' = [op |-> "temp", sample |-> adc, result |-> Temp(adc)]

Next == \/ \E pin \in 24 .. 31, v \in Volts : adc_read_pin(pin, v)
        \/ \E adc \in Sample : adc_read_temp(adc)

Spec == Init /\ [][Next]_vars

-----------------------------------------------------------------------------
(* Properties. *)

\* The datasheet's 27 - (V - 0.706) / 0.001721 degrees, where V is 3.3 times
\* the sample over 4096, in units of 1 / (4096 * 1721) degrees.
Datasheet(adc) == 27 * 4096 * 1721 - (adc * 3300 - 706 * 4096) * 1000

\* The whole-number temperature is that rounded down, off by a quarter of a
\* degree at most (adc.c:37-39), for every sample.
TempIsClose ==
  call.op = "temp" =>
    LET e == call.result * 4096 * 1721 - Datasheet(call.sample)
        d == 4096 * 1721
    IN  -5 * d <= 4 * e /\ 4 * e <= d
=============================================================================
