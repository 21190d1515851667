-------------------------------- MODULE I2c ---------------------------------
(***************************************************************************)
(* The I2C master of i2c.c.  i2c_init_ takes the pins from the settings    *)
(* and refuses pairs the hardware cannot serve; a write may keep the bus   *)
(* (no stop condition) for the read that follows.  The SDK is external: a  *)
(* transfer that fails ends with a stop condition.                         *)
(***************************************************************************)
EXTENDS Integers

CONSTANTS MaxLen     \* bound on the length of a write

NoPin == 255
Pin == 0 .. 29 \cup {NoPin}
NoInst == -1

VARIABLES
  sda, scl,     \* the settings i2c.pinSDA and i2c.pinSCL
  i2c_inst,     \* 0, 1 or NoInst
  held,         \* the bus is kept: no stop condition was sent
  last          \* history: the last call and whether it succeeded

vars == <<sda, scl, i2c_inst, held, last>>

Call == [op: {"none", "write", "read"}, repeated: BOOLEAN, ok: BOOLEAN]

TypeOK ==
  /\ {sda, scl} \subseteq Pin /\ i2c_inst \in {NoInst, 0, 1}
  /\ held \in BOOLEAN /\ last \in Call
  /\ last.ok => i2c_inst # NoInst

Init ==
  /\ sda \in Pin /\ scl \in Pin /\ i2c_inst = NoInst /\ held = FALSE
  /\ last = [op |-> "none", repeated |-> FALSE, ok |-> FALSE]

I2C_INST(pin) == (pin \div 2) % 2

\* Variant: only the instances are compared.
PinsSameInst == sda # NoPin /\ scl # NoPin /\ I2C_INST(sda) = I2C_INST(scl)

PinsValid ==
  /\ sda # NoPin /\ scl # NoPin
  /\ I2C_INST(sda) = I2C_INST(scl)
  /\ sda % 2 = 0 /\ scl % 2 = 1

i2c_init_ ==
  /\ i2c_inst = NoInst /\ PinsValid
  /\ i2c_inst' = I2C_INST(sda)
  /\ UNCHANGED <<sda, scl, held, last>>

Ready == i2c_inst # NoInst

i2c_read_ex ==
  \E ok \in BOOLEAN :
    /\ held' = IF Ready THEN FALSE ELSE held
    /\ last' = [op |-> "read", repeated |-> FALSE, ok |-> Ready /\ ok]
    /\ UNCHANGED <<sda, scl, i2c_inst>>

\* Variant: the first part always keeps the bus.
KeepAlways(len2, repeated) == TRUE

\* Whether the first part of a write keeps the bus.
Keep(len2, repeated) == repeated \/ len2 > 0

\* One part of the write, or two; a part that fails is the last.
i2c_write_ex2(len2, repeated) ==
  \E ok1, ok2 \in BOOLEAN :
    LET parts == IF len2 > 0 THEN ok1 /\ ok2 ELSE ok1
    IN  /\ last' = [op |-> "write", repeated |-> repeated, ok |-> Ready /\ parts]
        /\ held' = IF ~Ready THEN held
                   ELSE parts /\ IF len2 > 0 THEN repeated ELSE Keep(len2, repeated)
        /\ UNCHANGED <<sda, scl, i2c_inst>>

Next == \/ i2c_init_ \/ i2c_read_ex
        \/ \E len2 \in 0 .. MaxLen, repeated \in BOOLEAN : i2c_write_ex2(len2, repeated)

Spec == Init /\ [][Next]_vars

-----------------------------------------------------------------------------
(* Properties. *)

\* The RP2040's table of pin functions: GPIO 0 to 3 are SDA0, SCL0, SDA1, SCL1,
\* and so on.
Function(pin) == <<IF pin % 4 \in {0, 2} THEN "SDA" ELSE "SCL", IF pin % 4 < 2 THEN 0 ELSE 1>>

\* Once initialised, the pins are the data and clock lines of the instance
\* that is used (i2c.c:24-33).
PinsServeInst ==
  i2c_inst # NoInst =>
    Function(sda) = <<"SDA", i2c_inst>> /\ Function(scl) = <<"SCL", i2c_inst>>

\* The bus is kept only after a write that was told to, and that succeeded, in
\* one part or in two (i2c.c:58-63).
HeldOnRequest == held <=> last.op = "write" /\ last.repeated /\ last.ok
=============================================================================
