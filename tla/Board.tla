-------------------------------- MODULE Board -------------------------------
(***************************************************************************)
(* The pads of the pins (pins.c), which of the two boards this is, and the *)
(* LED that is on a pin of the one and on the Wi-Fi chip of the other      *)
(* (platform.c, pico_w_set_led of wifi_impl.c).  All of it runs on the     *)
(* main loop.  A call with NO_PIN does nothing and is left out.            *)
(***************************************************************************)
EXTENDS Integers

CONSTANTS
  AppPin,      \* pins that the application configures
  LedPin,      \* the LED's pin on a Pico; the Wi-Fi chip's on a Pico W (25)
  VsysPin,     \* the pin whose voltage tells the boards apart (29)
  Reading      \* results of adc_read_pin

Pin == AppPin \cup {LedPin, VsysPin}

BoardPins ==
  /\ {LedPin, VsysPin} \cap AppPin = {} /\ LedPin # VsysPin /\ LedPin \in Nat \ {0}
  /\ Reading \subseteq Nat

VARIABLES
  pad,            \* the registers of each pin
  led_type,       \* the setting led.type: 100, or another kind of LED
  booted,         \* platform_init has run
  is_pico_w, use_pico_led,
  inited,         \* jd_wifi_init has run
  is_on,          \* static of pico_w_set_led
  chip,           \* the LED on the Wi-Fi chip
  mode,           \* history: what each pin was last set up for, if for something
  asked           \* history: the last colour set once the LED was there

led == <<led_type, is_pico_w, use_pico_led, inited, is_on, chip, asked>>
vars == <<pad, booted, led, mode>>

Colour == {0, 1} \X {0, 1} \X {0, 1}     \* off or not: r, g, b
Unset == <<>>
None == "none"
Mode == {None, "output", "input", "analog", "af", "pwm", "released"}
Pad == [fn: {"NULL", "SIO", "PWM", "AF"}, ie: BOOLEAN, oe: BOOLEAN, pull: {-1, 0, 1},
        out: {0, 1}]

\* After reset: nothing drives, the pull-down is on.
ResetPad == [fn |-> "NULL", ie |-> TRUE, oe |-> FALSE, pull |-> -1, out |-> 0]

Drives(p) == pad[p].fn = "SIO" /\ pad[p].oe

\* The types.  On a Pico W the chip's pin is not driven once the board is known:
\* "detect pico-W early - it messes with pins" (platform.c:73).
TypeOK ==
  /\ pad \in [Pin -> Pad] /\ mode \in [Pin -> Mode] /\ booted \in BOOLEAN
  /\ led_type \in {0, 100}
  /\ is_pico_w \in BOOLEAN /\ use_pico_led \in {0, LedPin} /\ inited \in BOOLEAN
  /\ is_on \in BOOLEAN /\ chip \in BOOLEAN /\ asked \in Colour \cup {Unset}
  /\ is_pico_w => ~Drives(LedPin)

Init ==
  /\ pad = [p \in Pin |-> ResetPad] /\ mode = [p \in Pin |-> None] /\ booted = FALSE
  /\ led_type \in {0, 100}
  /\ is_pico_w = FALSE /\ use_pico_led = 0 /\ inited = FALSE
  /\ is_on = FALSE /\ chip = FALSE /\ asked = Unset

-----------------------------------------------------------------------------
(* pins.c: the registers of a pin after each operation. *)

\* Variant: the input buffer is left as it is.
SetFunctionOnly(r, fn) == [r EXCEPT !.fn = fn]

gpio_set_function_(r, fn) == [r EXCEPT !.fn = fn, !.ie = TRUE]

gpio_init_(r) == gpio_set_function_([r EXCEPT !.oe = FALSE, !.out = 0], "SIO")
pin_set_pull(r, pull) == [r EXCEPT !.pull = pull]
pin_set(r, v) == [r EXCEPT !.out = v]
pin_setup_output(r) == gpio_set_function_([r EXCEPT !.oe = TRUE], "SIO")
pin_setup_input(r, pull) ==
  gpio_set_function_([pin_set_pull(r, pull) EXCEPT !.oe = FALSE], "SIO")
pin_setup_analog_input(r) ==
  [gpio_set_function_(pin_set_pull(r, 0), "NULL") EXCEPT !.oe = FALSE, !.ie = FALSE]
pin_setup_output_af(r) == gpio_set_function_(r, "AF")
jd_pwm_enable(r, on) == IF on THEN gpio_set_function_(r, "PWM") ELSE gpio_init_(r)

\* An operation leaves registers r and sets pin p up for m (or for nothing new).
Configure(p, r, m) ==
  /\ pad' = [pad EXCEPT ![p] = r] /\ mode' = [mode EXCEPT ![p] = m]
  /\ UNCHANGED <<booted, led>>

\* pin_pulse sets up an output and leaves it low; jd_pwm_init ends as
\* jd_pwm_enable does.
AppConfigures(p) ==
  LET r == pad[p]
  IN  \/ Configure(p, pin_setup_output(r), "output")
      \/ Configure(p, pin_set(pin_setup_output(r), 0), "output")
      \/ \E pull \in {-1, 0, 1} : Configure(p, pin_setup_input(r, pull), "input")
      \/ Configure(p, pin_setup_analog_input(r), "analog")
      \/ Configure(p, pin_setup_output_af(r), "af")
      \/ Configure(p, jd_pwm_enable(r, TRUE), "pwm")
      \/ mode[p] = "pwm" /\ Configure(p, jd_pwm_enable(r, FALSE), "released")
      \/ \E v \in {0, 1} : Configure(p, pin_set(r, v), mode[p])
      \/ mode[p] \in {"input", "output"}
         /\ \E pull \in {-1, 0, 1} : Configure(p, pin_set_pull(r, pull), mode[p])

-----------------------------------------------------------------------------
(* platform.c *)

Threshold == 3264

\* Measure; if that does not tell, measure with the LED's pin held low.
pico_w_init(first, second) ==
  LET vsys == pin_setup_analog_input(pad[VsysPin])
      led0 == pin_setup_output(pin_set(pad[LedPin], 0))
  IN  IF first < Threshold
      THEN is_pico_w' = TRUE /\ pad' = [pad EXCEPT ![VsysPin] = vsys]
      ELSE /\ is_pico_w' = (second < Threshold)
           /\ pad' = [pad EXCEPT ![VsysPin] = vsys,
                                 ![LedPin] = pin_setup_analog_input(led0)]

platform_init ==
  /\ ~booted /\ booted' = TRUE
  /\ \/ led_type = 100 /\ \E first, second \in Reading : pico_w_init(first, second)
     \/ led_type # 100 /\ UNCHANGED <<pad, is_pico_w>>
  /\ UNCHANGED <<mode, led_type, use_pico_led, inited, is_on, chip, asked>>

\* Variant: the LED's pin is an output on either board.
RgbextInitAlways ==
  /\ booted /\ led_type = 100
  /\ use_pico_led' = LedPin
  /\ pad' = [pad EXCEPT ![LedPin] = pin_setup_output(@)]
  /\ UNCHANGED <<booted, led_type, is_pico_w, inited, is_on, chip, asked, mode>>

\* Called with led.type as well.
jd_rgbext_init ==
  /\ booted /\ led_type = 100
  /\ use_pico_led' = LedPin
  /\ pad' = IF is_pico_w THEN pad ELSE [pad EXCEPT ![LedPin] = pin_setup_output(@)]
  /\ UNCHANGED <<booted, led_type, is_pico_w, inited, is_on, chip, asked, mode>>

jd_wifi_init ==
  /\ is_pico_w /\ inited' = TRUE
  /\ UNCHANGED <<pad, booted, led_type, is_pico_w, use_pico_led, is_on, chip, asked, mode>>

Lit(c) == c[1] > 0 \/ c[2] > 0 \/ c[3] > 0

\* Variant: the state is noted before the chip is there to be told.
SetLedNotesFirst(c) ==
  /\ is_on' = Lit(c)
  /\ IF ~inited THEN UNCHANGED <<chip, asked>>
     ELSE chip' = (IF is_on # Lit(c) THEN Lit(c) ELSE chip) /\ asked' = c

\* The chip is told of changes only.
pico_w_set_led(c) ==
  IF ~inited THEN UNCHANGED <<is_on, chip, asked>>
  ELSE /\ is_on' = Lit(c) /\ asked' = c
       /\ chip' = IF is_on # Lit(c) THEN Lit(c) ELSE chip

jd_rgbext_set(c) ==
  /\ use_pico_led # 0
  /\ IF is_pico_w THEN pico_w_set_led(c) /\ UNCHANGED pad
     ELSE /\ pad' = [pad EXCEPT ![LedPin] = pin_set(@, IF Lit(c) THEN 1 ELSE 0)]
          /\ asked' = c /\ UNCHANGED <<is_on, chip>>
  /\ UNCHANGED <<booted, led_type, is_pico_w, use_pico_led, inited, mode>>

Next ==
  \/ platform_init \/ jd_rgbext_init \/ jd_wifi_init
  \/ \E c \in Colour : jd_rgbext_set(c)
  \/ booted /\ \E p \in AppPin : AppConfigures(p)

Spec == Init /\ [][Next]_vars

-----------------------------------------------------------------------------
(* Properties. *)

\* A pin does what it was last set up for, whatever it was before: an input
\* is read, an analog pin neither drives nor pulls, ... (pins.c:43-67, 102-173)
PadMatchesMode ==
  \A p \in Pin : LET r == pad[p] IN
    /\ mode[p] = "output" => Drives(p)
    /\ mode[p] \in {"input", "released"} => ~Drives(p) /\ r.fn = "SIO" /\ r.ie
    /\ mode[p] = "analog" => r.fn = "NULL" /\ ~r.ie /\ r.pull = 0
    /\ mode[p] = "pwm" => r.fn = "PWM" /\ r.ie
    /\ mode[p] = "af" => r.fn = "AF" /\ r.ie

\* The LED shows the last colour set since it was there, on either board; a
\* colour set before the chip is initialised is dropped, not remembered as
\* shown (wifi_impl.c:162-172, platform.c:58-68).
LedFollows ==
  asked # Unset =>
    Lit(asked) = IF is_pico_w THEN chip ELSE Drives(LedPin) /\ pad[LedPin].out = 1
=============================================================================
