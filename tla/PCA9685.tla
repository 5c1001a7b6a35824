------------------------------ MODULE PCA9685 ------------------------------
(***************************************************************************)
(* actuators/PCA9685: the PWM chip behind the I2C bus.  Its registers      *)
(* outlive the program and every attempt to initialise it.  A bus call may *)
(* fail, and its write may or may not have reached the chip; nothing else  *)
(* changes a register.                                                     *)
(***************************************************************************)
EXTENDS Integers, Sequences

CONSTANTS Ticks,        \* counts of one PWM period (4096 in the chip)
          Period        \* length of the period, in the unit of the pulses

ASSUME PwmAssumption == Ticks \in Nat \ {0} /\ Period \in Nat \ {0}

VARIABLES chip,         \* the registers MODE1, MODE2 and PRESCALE
          level         \* the off-count of each channel

chipVars == <<chip, level>>

(* prescaled: PRESCALE holds the value of the configured frequency.        *)
Chips == [totemPole : BOOLEAN, mode1 : SUBSET {"AI", "SLEEP"},
          prescaled : BOOLEAN]

(* The chip outputs the pulses it is told.                                 *)
Ready(c) ==
  /\ c.totemPole
  /\ c.prescaled
  /\ c.mode1 = {"AI"}

(* Mutant: MODE1 is read and restored but not written first.               *)
InitWritesTrustingMode1(c) ==
  LET drive   == [c EXCEPT !.totemPole = TRUE]
      old     == drive.mode1
      asleep  == [drive EXCEPT !.mode1 = old \cup {"SLEEP"}]
      scaled  == [asleep EXCEPT !.prescaled = TRUE]
      woken   == [scaled EXCEPT !.mode1 = old]
  IN  <<c, drive, drive, asleep, scaled, woken, woken>>

(* The registers after each write of init() and set_pwm_freq(): MODE2,     *)
(* MODE1, then MODE1 is read, sleep, PRESCALE (which the chip takes only   *)
(* when asleep), MODE1 as it was read, and that again with RESTART.        *)
InitWrites(c) ==
  LET drive   == [c EXCEPT !.totemPole = TRUE]
      awake   == [drive EXCEPT !.mode1 = {"AI"}]
      old     == awake.mode1
      asleep  == [awake EXCEPT !.mode1 = old \cup {"SLEEP"}]
      scaled  == [asleep EXCEPT !.prescaled = @ \/ "SLEEP" \in asleep.mode1]
      woken   == [scaled EXCEPT !.mode1 = old]
      restart == [woken EXCEPT !.mode1 = old]
  IN  <<c, drive, awake, asleep, scaled, woken, restart>>

(* init() either makes all of its bus calls or stops at the first failure. *)
ChipInitialised == chip' = InitWrites(chip)[7]
ChipInitFails   == \E n \in 1 .. 7 : chip' = InitWrites(chip)[n]

(* round(ticks of pulse / per) in the register's width.                    *)
Counts(pulse, per) == ((2 * Ticks * pulse + per) \div (2 * per)) % Ticks
=============================================================================
