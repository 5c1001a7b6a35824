------------------------- MODULE ServoDriverProofs -------------------------
(***************************************************************************)
(* Theorems about the actuator chain, for every number of channels, all    *)
(* limits and calibrations, and every pattern of bus failures.             *)
(***************************************************************************)
EXTENDS ServoDriver, TLAPS

(* Clamping yields a value of the range.                                   *)
LEMMA ClampInRange ==
  ASSUME NEW x \in Int, NEW lo \in Int, NEW hi \in Int, lo <= hi
  PROVE  Clamp(x, lo, hi) \in lo .. hi
BY DEF Clamp

(* The slew limiter stays within a step of the last output and between it  *)
(* and what is desired.                                                    *)
LEMMA LimitedStep ==
  ASSUME NEW lo \in Int, NEW hi \in Int, NEW prev \in lo .. hi,
         NEW desired \in lo .. hi, NEW step \in Nat
  PROVE  /\ Limited(prev, desired, step) \in Within(prev, step)
         /\ Limited(prev, desired, step) \in lo .. hi
BY DEF Limited, Within

(* An output is in its channel's range, and within a step of the last one  *)
(* if there is a last one.                                                 *)
LEMMA OutputSafe ==
  ASSUME TypeOK, NEW ch \in Channels, NEW target \in Int
  PROVE  /\ SafeOutput(ch, target) \in MinOut[ch] .. MaxOut[ch]
         /\ hasLast => SafeOutput(ch, target) \in Within(lastOut[ch], MaxStep[ch])
<1> DEFINE desired == Clamp(target, MinOut[ch], MaxOut[ch])
<1>1. /\ MinOut[ch] \in Int /\ MaxOut[ch] \in Int /\ MinOut[ch] <= MaxOut[ch]
      /\ MaxStep[ch] \in Nat
  BY LimitsAssumption
<1>2. desired \in MinOut[ch] .. MaxOut[ch]
  BY <1>1, ClampInRange
<1>3. CASE hasLast
  <2>1. lastOut[ch] \in MinOut[ch] .. MaxOut[ch]
    BY <1>3 DEF TypeOK
  <2>2. SafeOutput(ch, target) = Limited(lastOut[ch], desired, MaxStep[ch])
    BY <1>3 DEF SafeOutput
  <2> QED
    BY <1>1, <1>2, <2>1, <2>2, LimitedStep
<1>4. CASE ~hasLast
  BY <1>2, <1>4 DEF SafeOutput
<1> QED
  BY <1>3, <1>4

-----------------------------------------------------------------------------
(* The arithmetic of a pulse.                                              *)

(* A positive factor on both sides can be left out.                        *)
LEMMA Cancel ==
  ASSUME NEW s \in Int, s > 0, NEW a \in Int, NEW b \in Int, s * a <= s * b
  PROVE  a <= b
<1>1. ASSUME b < a PROVE FALSE
  <2>1. a - b - 1 \in Nat /\ s * (a - b - 1) >= 0
    BY <1>1
  <2>2. s * (a - b - 1) = s * a - s * b - s
    OBVIOUS
  <2> QED
    BY <2>1, <2>2
<1> QED
  BY <1>1

(* What is left of a division is less than the divisor.                    *)
LEMMA Rounded ==
  ASSUME NEW x \in Int, NEW d \in Int, d > 0
  PROVE  /\ x \div d \in Int
         /\ d * (x \div d) <= x
         /\ x < d * (x \div d) + d
OBVIOUS

(* A pulse that is t of span parts of the way from lo to hi is between     *)
(* them.                                                                   *)
LEMMA PulseBounds ==
  ASSUME NEW span \in Int, span > 0, NEW t \in 0 .. span,
         NEW lo \in Nat, NEW hi \in Nat, lo <= hi
  PROVE  /\ lo * span + t * (hi - lo) \in Int
         /\ lo * span <= lo * span + t * (hi - lo)
         /\ lo * span + t * (hi - lo) <= hi * span
<1>1. t * (hi - lo) >= 0
  OBVIOUS
<1>2. (span - t) * (hi - lo) >= 0
  OBVIOUS
<1>3. hi * span = lo * span + t * (hi - lo) + (span - t) * (hi - lo)
  OBVIOUS
<1> QED
  BY <1>1, <1>2, <1>3

(* The count of a pulse between lo and hi, in a period of P and T counts,  *)
(* is theirs but for half a count.                                         *)
LEMMA CountBounds ==
  ASSUME NEW T \in Nat, NEW P \in Nat, NEW s \in Nat, s > 0, P > 0, T > 0,
         NEW lo \in Nat, NEW hi \in Nat, NEW pulse \in Int,
         lo * s <= pulse, pulse <= hi * s
  PROVE  LET v == (2 * T * pulse + P * s) \div (2 * (P * s))
         IN  /\ v \in Nat
             /\ 2 * P * v >= 2 * T * lo - P
             /\ 2 * P * v <= 2 * T * hi + P
<1> DEFINE per == P * s
           x == 2 * T * pulse + per
           v == x \div (2 * per)
<1>1. per \in Int /\ per > 0 /\ pulse >= 0
  <2>1. lo * s >= 0
    OBVIOUS
  <2> QED
   BY <2>1
<1>2. 2 * T * pulse \in Int /\ 2 * T * pulse >= 0
  BY <1>1
<1>3. x \in Int /\ x >= 0
  BY <1>1, <1>2
<1>4. v \in Int /\ 2 * per * v <= x /\ x < 2 * per * v + 2 * per
  <2> HIDE DEF per, x
  <2>1. 2 * per \in Int /\ 2 * per > 0
   BY <1>1
  <2> QED
   BY <1>3, <2>1, Rounded
<1>5. v >= 0
  <2> HIDE DEF per, x
  <2> QED
    BY <1>1, <1>3
<1>6. 2 * per * v = s * (2 * P * v)
  <2> HIDE DEF v
  <2> QED
    BY <1>4
<1>7. 2 * T * pulse <= s * (2 * T * hi)
  <2>1. T * pulse <= T * (hi * s)
    OBVIOUS
  <2> QED
    BY <2>1
<1>8. 2 * T * pulse >= s * (2 * T * lo)
  <2>1. T * pulse >= T * (lo * s)
    OBVIOUS
  <2> QED
    BY <2>1
<1>9. 2 * P * v <= 2 * T * hi + P
  <2>1. s * (2 * P * v) <= s * (2 * T * hi + P)
    <3>1. s * (2 * T * hi + P) = s * (2 * T * hi) + P * s
      OBVIOUS
    <3> HIDE DEF v
    <3> QED
    BY <1>4, <1>6, <1>7, <3>1
  <2> HIDE DEF v
  <2>2. 2 * P * v \in Int /\ 2 * T * hi + P \in Int
    BY <1>4
  <2> QED
    BY <2>1, <2>2, Cancel
<1>10. 2 * P * v >= 2 * T * lo - P
  <2>1. s * (2 * T * lo - P) <= s * (2 * P * v)
    <3>1. s * (2 * T * lo - P) = s * (2 * T * lo) - P * s
      OBVIOUS
    <3> HIDE DEF v
    <3> QED
    BY <1>4, <1>6, <1>8, <3>1
  <2> HIDE DEF v
  <2>2. 2 * P * v \in Int /\ 2 * T * lo - P \in Int
    BY <1>4
  <2> QED
    BY <2>1, <2>2, Cancel
<1> QED
  BY <1>4, <1>5, <1>9, <1>10

(* The count of any angle is that of a pulse of the servo, but for half a  *)
(* count, and no register overflows.                                       *)
LEMMA LevelInRange ==
  ASSUME NEW ch \in Channels, NEW deg \in Int
  PROVE  /\ Level(ch, deg) \in 0 .. Ticks - 1
         /\ 2 * Period * Level(ch, deg) >= 2 * Ticks * MinPulse - Period
         /\ 2 * Period * Level(ch, deg) <= 2 * Ticks * MaxPulse + Period
<1> DEFINE lo    == MinDeg[ch]
           hi    == MaxDeg[ch]
           span  == hi - lo
           up    == Clamp(deg, lo, hi) - lo
           t     == IF ch \in Inverted THEN span - up ELSE up
           pulse == MinPulse * span + t * (MaxPulse - MinPulse)
           v     == (2 * Ticks * pulse + Period * span) \div (2 * (Period * span))
<1>1. /\ lo \in Int /\ hi \in Int /\ lo < hi
      /\ MinPulse \in Nat /\ MaxPulse \in Nat /\ MinPulse <= MaxPulse
      /\ Period \in Nat /\ Period > 0 /\ Ticks \in Nat /\ Ticks > 0
      /\ Period < 2 * Ticks * (Period - MaxPulse)
  BY ServoAssumption, PwmAssumption
<1>2. span \in Nat /\ span > 0 /\ t \in 0 .. span
  <2>1. Clamp(deg, lo, hi) \in lo .. hi
    <3> HIDE DEF lo, hi
    <3> QED
      BY <1>1, ClampInRange
  <2> HIDE DEF lo, hi
  <2> QED
    BY <1>1, <2>1
<1>3. pulse \in Int /\ MinPulse * span <= pulse /\ pulse <= MaxPulse * span
  <2> HIDE DEF span, t
  <2> QED
    BY <1>1, <1>2, PulseBounds
<1>4. /\ v \in Nat
      /\ 2 * Period * v >= 2 * Ticks * MinPulse - Period
      /\ 2 * Period * v <= 2 * Ticks * MaxPulse + Period
  <2> HIDE DEF span, pulse
  <2> QED
    BY <1>1, <1>2, <1>3, CountBounds
<1>5. v < Ticks
  <2> HIDE DEF v
  <2>1. 2 * Ticks * MaxPulse + Period < 2 * Period * Ticks
    BY <1>1
  <2>2. (2 * Period) * v < (2 * Period) * Ticks
    BY <1>1, <1>4, <2>1
  <2>3. ASSUME Ticks <= v PROVE FALSE
    <3>1. (2 * Period) * (v - Ticks) >= 0
      BY <1>1, <1>4, <2>3
    <3> QED
      BY <1>1, <1>4, <2>2, <3>1
  <2> QED
    BY <1>1, <1>4, <2>3
<1>6. Level(ch, deg) = v % Ticks
  BY DEF Level, Counts
<1>7. Level(ch, deg) = v
  <2> HIDE DEF v
  <2> QED
    BY <1>1, <1>4, <1>5, <1>6
<1> HIDE DEF v
<1> QED
  BY <1>1, <1>4, <1>5, <1>7

-----------------------------------------------------------------------------
(* The inductive invariant: the types and ranges, what each mode promises  *)
(* of the chip, the lag, and where a parked servo is.                      *)
Parked ==
  \A ch \in Channels :
    shown[ch] = "park" => level[ch] = Level(ch, Neutral[ch])

IInv == TypeOK /\ HardwareReady /\ LagBounded /\ Parked

(* What one round of bus writes does to the levels and their history.      *)
LEMMA WriteEffect ==
  ASSUME TypeOK, NEW angles \in [Channels -> Int],
         NEW from \in {"park", "command"}, NEW m, NEW held,
         Write(angles, from, m, held)
  PROVE  /\ level' \in [Channels -> 0 .. Ticks - 1]
         /\ shown' \in [Channels -> {"nothing", "park", "command"}]
         /\ missed' \in [Channels -> Nat]
         /\ \A ch \in Channels :
              \/ /\ level'[ch] = Level(ch, angles[ch])
                 /\ shown'[ch] = from
                 /\ missed'[ch] = 0
              \/ /\ level'[ch] = level[ch]
                 /\ shown'[ch] = shown[ch]
                 /\ missed'[ch] = missed[ch] + 1
<1>1. \A ch \in Channels : Level(ch, angles[ch]) \in 0 .. Ticks - 1
  BY LevelInRange
<1> QED
  BY <1>1 DEF Write, TypeOK

(* Parking leaves the types alone and every channel parked or as it was.   *)
LEMMA ParkEffect ==
  ASSUME TypeOK, NEW wanted, NEW m, NEW held, Park(wanted, m, held)
  PROVE  /\ level' \in [Channels -> 0 .. Ticks - 1]
         /\ shown' \in [Channels -> {"nothing", "park", "command"}]
         /\ missed' \in [Channels -> Nat]
         /\ \A ch \in Channels :
              shown'[ch] = "command" =>
                /\ level'[ch] = level[ch]
                /\ shown[ch] = "command"
                /\ missed'[ch] \in {missed[ch], missed[ch] + 1}
         /\ \A ch \in Channels :
              shown'[ch] = "park" =>
                \/ level'[ch] = Level(ch, Neutral[ch])
                \/ level'[ch] = level[ch] /\ shown[ch] = "park"
<1>1. CASE wanted /\ m = "Hardware"
  <2>1. Neutral \in [Channels -> Int] /\ Write(Neutral, "park", m, held)
    BY <1>1, ServoAssumption DEF Park
  <2>2. "park" \in {"park", "command"}
    OBVIOUS
  <2> QED
    BY <2>1, <2>2, WriteEffect
<1>2. CASE ~(wanted /\ m = "Hardware")
  BY <1>2 DEF Park, NoWrite, TypeOK
<1> QED
  BY <1>1, <1>2

(* A channel that misses an output of the same manager state lags within   *)
(* its bound still.                                                        *)
LEMMA LagKept ==
  ASSUME IInv, TypeOK', lastOut' = lastOut, hasLast' = hasLast,
         \A ch \in Channels :
           shown'[ch] = "command" =>
             /\ level'[ch] = level[ch]
             /\ shown[ch] = "command"
             /\ missed'[ch] \in {missed[ch], missed[ch] + 1}
  PROVE  LagBounded'
<1> SUFFICES ASSUME NEW ch \in Channels, shown'[ch] = "command"
             PROVE  /\ hasLast'
                    /\ \E deg \in MinOut[ch] .. MaxOut[ch] :
                         /\ deg \in Within(lastOut'[ch],
                                          missed'[ch] * MaxStep[ch])
                         /\ level'[ch] = Level(ch, deg)
  BY DEF LagBounded
<1>1. hasLast
  BY DEF IInv, LagBounded
<1>2. PICK deg \in MinOut[ch] .. MaxOut[ch] :
        /\ deg \in Within(lastOut[ch], missed[ch] * MaxStep[ch])
        /\ level[ch] = Level(ch, deg)
  BY DEF IInv, LagBounded
<1>3. /\ missed[ch] \in Nat /\ MaxStep[ch] \in Nat /\ lastOut[ch] \in Int
      /\ deg \in Int
  BY LimitsAssumption DEF IInv, TypeOK
<1>4. /\ missed[ch] * MaxStep[ch] \in Int
      /\ missed'[ch] * MaxStep[ch] \in Int
      /\ missed'[ch] * MaxStep[ch] >= missed[ch] * MaxStep[ch]
  BY <1>3, (missed[ch] + 1) * MaxStep[ch] = missed[ch] * MaxStep[ch] + MaxStep[ch]
<1>5. deg \in Within(lastOut'[ch], missed'[ch] * MaxStep[ch])
  BY <1>2, <1>3, <1>4 DEF Within
<1> QED
  BY <1>1, <1>2, <1>5

(* The chip is ready after all writes of init(), and its registers keep    *)
(* their type after any number of them.                                    *)
LEMMA InitWritesChip ==
  ASSUME NEW c \in Chips
  PROVE  /\ Ready(InitWrites(c)[7])
         /\ \A n \in 1 .. 7 : InitWrites(c)[n] \in Chips
<1>1. Ready(InitWrites(c)[7])
  BY DEF Ready, InitWrites, Chips
<1>2. \A n \in 1 .. 7 : n \in {1, 2, 3, 4, 5, 6, 7}
  OBVIOUS
<1>3. \A n \in {1, 2, 3, 4, 5, 6, 7} : InitWrites(c)[n] \in Chips
  <2>1. /\ InitWrites(c)[1] \in Chips /\ InitWrites(c)[2] \in Chips
        /\ InitWrites(c)[3] \in Chips /\ InitWrites(c)[4] \in Chips
    BY DEF InitWrites, Chips
  <2>2. /\ InitWrites(c)[5] \in Chips /\ InitWrites(c)[6] \in Chips
        /\ InitWrites(c)[7] \in Chips
    BY DEF InitWrites, Chips
  <2> QED
    BY <2>1, <2>2
<1> QED
  BY <1>1, <1>2, <1>3

(* A driver that was never started keeps every part.                       *)
LEMMA InitIInv == Init => IInv
<1> SUFFICES ASSUME Init PROVE IInv
  OBVIOUS
<1>1. TypeOK
  <2>1. 0 \in 0 .. Ticks - 1
    BY PwmAssumption
  <2>2. level \in [Channels -> 0 .. Ticks - 1]
    BY <2>1 DEF Init
  <2>3. FALSE \in BOOLEAN /\ 0 \in Int /\ 0 \in Nat
    OBVIOUS
  <2> QED
    BY <2>2, <2>3 DEF Init, ManagerInit, TypeOK
<1> QED
  BY <1>1 DEF Init, IInv, HardwareReady, LagBounded, Parked

(* start() with hardware keeps it, whichever call of the bus fails.        *)
LEMMA StartHardwareKeeps ==
  ASSUME IInv, StartHardware
  PROVE  IInv'
<1> USE DEF StartHardware
<1>1. chip' \in Chips /\ Ready(chip')
  BY InitWritesChip DEF IInv, TypeOK, ChipInitialised
<1>2. TypeOK'
  BY <1>1, ParkEffect DEF IInv, TypeOK, managerVars
<1>3. HardwareReady'
  BY <1>1 DEF HardwareReady, Ready
<1>4. LagBounded'
  BY <1>2, ParkEffect, LagKept DEF IInv, managerVars
<1>5. Parked'
  BY ParkEffect DEF IInv, Parked
<1> QED
  BY <1>2, <1>3, <1>4, <1>5 DEF IInv

(* start() that falls back on a log, or refuses, keeps it.                 *)
LEMMA StartWithoutHardwareKeeps ==
  ASSUME IInv, StartWithoutHardware
  PROVE  IInv'
<1> USE DEF StartWithoutHardware
<1>1. chip' \in Chips
  BY InitWritesChip DEF IInv, TypeOK, ChipInitFails
<1>2. running' \in BOOLEAN /\ mode' \in {"Stopped", "LogOnly"}
  <2>1. config.policy = "RequireHardware" \/ config.policy # "RequireHardware"
    OBVIOUS
  <2> QED
    BY <2>1
<1>3. TypeOK'
  BY <1>1, <1>2, ParkEffect DEF IInv, TypeOK, managerVars
<1>4. HardwareReady'
  BY DEF HardwareReady
<1>5. LagBounded'
  BY <1>3, ParkEffect, LagKept DEF IInv, managerVars
<1>6. Parked'
  BY ParkEffect DEF IInv, Parked
<1> QED
  BY <1>3, <1>4, <1>5, <1>6 DEF IInv

(* stop() keeps it, whichever servo could not be parked.                   *)
LEMMA StopKeeps ==
  ASSUME IInv, Stop
  PROVE  IInv'
<1> USE DEF Stop
<1>1. TypeOK'
  BY ParkEffect DEF IInv, TypeOK, managerVars
<1>2. HardwareReady'
  BY DEF HardwareReady
<1>3. LagBounded'
  BY <1>1, ParkEffect, LagKept DEF IInv, managerVars
<1>4. Parked'
  BY ParkEffect DEF IInv, Parked
<1> QED
  BY <1>1, <1>2, <1>3, <1>4 DEF IInv

(* A command: a channel that takes it holds the new output, one that does  *)
(* not falls behind by one more step.                                      *)
LEMMA CommandKeeps ==
  ASSUME IInv, Command
  PROVE  IInv'
<1> DEFINE m == IF running THEN mode ELSE "Stopped"
<1>1. PICK target \in [Channels -> Targets] :
        /\ OnCommand(target)
        /\ Write(lastOut', "command", m, device)
        /\ UNCHANGED <<chip, driverVars>>
  BY DEF Command
<1>2. /\ \A ch \in Channels :
           /\ lastOut'[ch] \in MinOut[ch] .. MaxOut[ch]
           /\ hasLast => lastOut'[ch] \in Within(lastOut[ch], MaxStep[ch])
      /\ hasLast' = TRUE
  BY <1>1, OutputSafe, ServoAssumption DEF IInv, OnCommand
<1>3. lastOut' \in [Channels -> Int]
  <2>1. \A ch \in Channels : lastOut'[ch] \in Int
    BY <1>2, LimitsAssumption
  <2>2. lastOut' = [ch \in Channels |-> lastOut'[ch]]
    BY <1>1 DEF OnCommand
  <2> QED
    BY <2>1, <2>2
<1>4. /\ level' \in [Channels -> 0 .. Ticks - 1]
      /\ shown' \in [Channels -> {"nothing", "park", "command"}]
      /\ missed' \in [Channels -> Nat]
      /\ \A ch \in Channels :
           \/ /\ level'[ch] = Level(ch, lastOut'[ch])
              /\ shown'[ch] = "command"
              /\ missed'[ch] = 0
           \/ /\ level'[ch] = level[ch]
              /\ shown'[ch] = shown[ch]
              /\ missed'[ch] = missed[ch] + 1
  <2>1. Write(lastOut', "command", m, device)
    BY <1>1
  <2>2. TypeOK /\ "command" \in {"park", "command"}
    BY DEF IInv
  <2> HIDE DEF m
  <2> QED
    BY <1>3, <2>1, <2>2, WriteEffect
<1>5. TypeOK'
  BY <1>1, <1>2, <1>3, <1>4 DEF IInv, TypeOK, driverVars
<1>6. HardwareReady'
  BY <1>1 DEF IInv, HardwareReady, driverVars
<1>7. LagBounded'
  <2> SUFFICES ASSUME NEW ch \in Channels, shown'[ch] = "command"
               PROVE  \E deg \in MinOut[ch] .. MaxOut[ch] :
                        /\ deg \in Within(lastOut'[ch],
                                         missed'[ch] * MaxStep[ch])
                        /\ level'[ch] = Level(ch, deg)
    BY <1>2 DEF LagBounded
  <2>1. /\ MaxStep[ch] \in Nat /\ missed[ch] \in Nat
        /\ lastOut[ch] \in Int /\ lastOut'[ch] \in Int
    BY <1>3, LimitsAssumption DEF IInv, TypeOK
  <2>2. CASE level'[ch] = Level(ch, lastOut'[ch]) /\ missed'[ch] = 0
    <3>1. lastOut'[ch] \in Within(lastOut'[ch], missed'[ch] * MaxStep[ch])
      BY <2>1, <2>2 DEF Within
    <3> QED
      BY <1>2, <2>2, <3>1
  <2>3. CASE /\ level'[ch] = level[ch]
             /\ shown'[ch] = shown[ch]
             /\ missed'[ch] = missed[ch] + 1
    <3>1. hasLast
      BY <2>3 DEF IInv, LagBounded
    <3>2. PICK deg \in MinOut[ch] .. MaxOut[ch] :
            /\ deg \in Within(lastOut[ch], missed[ch] * MaxStep[ch])
            /\ level[ch] = Level(ch, deg)
      BY <2>3 DEF IInv, LagBounded
    <3>3. lastOut'[ch] \in Within(lastOut[ch], MaxStep[ch])
      BY <1>2, <3>1
    <3>4. /\ missed[ch] * MaxStep[ch] \in Int
          /\ missed'[ch] * MaxStep[ch] = missed[ch] * MaxStep[ch] + MaxStep[ch]
      <4>1. /\ missed[ch] * MaxStep[ch] \in Int
            /\ (missed[ch] + 1) * MaxStep[ch]
                 = missed[ch] * MaxStep[ch] + MaxStep[ch]
        BY <2>1
      <4> QED
        BY <2>3, <4>1
    <3>5. deg \in Within(lastOut'[ch], missed'[ch] * MaxStep[ch])
      BY <2>1, <3>2, <3>3, <3>4, LimitsAssumption DEF Within
    <3> QED
      BY <2>3, <3>2, <3>5
  <2> QED
    BY <1>4, <2>2, <2>3
<1>8. Parked'
  BY <1>4 DEF IInv, Parked
<1> QED
  BY <1>5, <1>6, <1>7, <1>8 DEF IInv

(* Where a servo is that a command has moved, and how far the next output  *)
(* may be from there.                                                      *)
LEMMA NextOutputNear ==
  ASSUME IInv, NEW ch \in Channels, shown[ch] = "command"
  PROVE  \E before \in MinOut[ch] .. MaxOut[ch] :
           /\ level[ch] = Level(ch, before)
           /\ before \in Within(before, (missed[ch] + 1) * MaxStep[ch])
           /\ \A out \in Within(lastOut[ch], MaxStep[ch]) :
                out \in Within(before, (missed[ch] + 1) * MaxStep[ch])
<1>1. PICK before \in MinOut[ch] .. MaxOut[ch] :
        /\ before \in Within(lastOut[ch], missed[ch] * MaxStep[ch])
        /\ level[ch] = Level(ch, before)
  BY DEF IInv, LagBounded
<1>2. /\ missed[ch] \in Nat /\ MaxStep[ch] \in Nat /\ lastOut[ch] \in Int
      /\ before \in Int
  BY LimitsAssumption DEF IInv, TypeOK
<1>3. /\ missed[ch] * MaxStep[ch] \in Nat
      /\ (missed[ch] + 1) * MaxStep[ch] = missed[ch] * MaxStep[ch] + MaxStep[ch]
  BY <1>2
<1> QED
  BY <1>1, <1>2, <1>3 DEF Within

(* The motion of one step: a park is no command, and a command's output is *)
(* near where the servo was.                                               *)
LEMMA MotionStep ==
  ASSUME IInv, Next, NEW ch \in Channels,
         shown[ch] = "command", shown'[ch] = "command"
  PROVE  \E before, after \in MinOut[ch] .. MaxOut[ch] :
           /\ level[ch] = Level(ch, before) /\ level'[ch] = Level(ch, after)
           /\ after \in Within(before, (missed[ch] + 1) * MaxStep[ch])
<1>1. PICK before \in MinOut[ch] .. MaxOut[ch] :
        /\ level[ch] = Level(ch, before)
        /\ before \in Within(before, (missed[ch] + 1) * MaxStep[ch])
        /\ \A out \in Within(lastOut[ch], MaxStep[ch]) :
             out \in Within(before, (missed[ch] + 1) * MaxStep[ch])
  BY NextOutputNear
<1>2. CASE level'[ch] = level[ch]
  BY <1>1, <1>2
<1>3. CASE \/ StartHardware \/ StartWithoutHardware \/ Stop
  <2>1. level'[ch] = level[ch]
    BY <1>3, ParkEffect DEF IInv, StartHardware, StartWithoutHardware, Stop
  <2> QED
    BY <1>2, <2>1
<1>4. CASE Command
  <2>1. PICK target \in [Channels -> Targets] :
          /\ OnCommand(target)
          /\ \/ level'[ch] = Level(ch, lastOut'[ch])
             \/ level'[ch] = level[ch]
    BY <1>4 DEF Command, Write
  <2>2. hasLast
    BY DEF IInv, LagBounded
  <2>3. /\ lastOut'[ch] \in MinOut[ch] .. MaxOut[ch]
        /\ lastOut'[ch] \in Within(lastOut[ch], MaxStep[ch])
    BY <2>1, <2>2, OutputSafe, ServoAssumption DEF IInv, OnCommand
  <2> QED
    BY <1>1, <1>2, <2>1, <2>3
<1> QED
  BY <1>3, <1>4 DEF Next

-----------------------------------------------------------------------------
(* The inductive invariant holds in every behaviour of the chain.          *)
THEOREM InvHolds == Spec => []IInv
<1>1. IInv /\ [Next]_vars => IInv'
  <2> SUFFICES ASSUME IInv, [Next]_vars PROVE IInv'
    OBVIOUS
  <2>1. CASE StartHardware
    BY <2>1, StartHardwareKeeps
  <2>2. CASE StartWithoutHardware
    BY <2>2, StartWithoutHardwareKeeps
  <2>3. CASE Stop
    BY <2>3, StopKeeps
  <2>4. CASE Command
    BY <2>4, CommandKeeps
  <2>5. CASE UNCHANGED vars
    BY <2>5 DEF vars, managerVars, chipVars, driverVars, history, IInv,
                TypeOK, HardwareReady, LagBounded, Parked
  <2> QED
    BY <2>1, <2>2, <2>3, <2>4, <2>5 DEF Next
<1> QED
  BY InitIInv, <1>1, PTL DEF Spec

(* Every variable keeps its type, and no output of the manager leaves its  *)
(* channel's range.                                                        *)
THEOREM TypeCorrect == Spec => []TypeOK
BY InvHolds, PTL DEF IInv

(* Hardware mode means an initialised chip, whatever failed before.        *)
THEOREM HardwareIsReady == Spec => []HardwareReady
BY InvHolds, PTL DEF IInv

(* The servos lag behind the slew limiter by a step per missed output.     *)
THEOREM LagIsBounded == Spec => []LagBounded
BY InvHolds, PTL DEF IInv

(* A servo moves by a step for every command and for every one it missed.  *)
THEOREM MotionIsLimited == Spec => MotionLimited
<1>1. IInv /\ [Next]_vars =>
        [ \A ch \in Channels :
            shown[ch] = "command" /\ shown'[ch] = "command" =>
              \E before, after \in MinOut[ch] .. MaxOut[ch] :
                /\ level[ch] = Level(ch, before) /\ level'[ch] = Level(ch, after)
                /\ after \in Within(before, (missed[ch] + 1) * MaxStep[ch])
        ]_vars
  BY MotionStep
<1> QED
  BY <1>1, InvHolds, PTL DEF Spec, MotionLimited

(* No servo is ever told a pulse outside its range, for any calibration    *)
(* whose longest pulse ends half a count before the period: it would wrap  *)
(* around to none.                                                         *)
THEOREM PulsesStayInRange == Spec => []PulsesInRange
<1>1. IInv => PulsesInRange
  <2> SUFFICES ASSUME IInv, NEW ch \in Channels, shown[ch] # "nothing"
               PROVE  \E deg \in Int : level[ch] = Level(ch, deg)
    BY LevelInRange DEF PulsesInRange
  <2>1. CASE shown[ch] = "park"
    BY <2>1, ServoAssumption DEF IInv, Parked
  <2>2. CASE shown[ch] = "command"
    BY <2>2, LimitsAssumption DEF IInv, LagBounded
  <2> QED
    BY <2>1, <2>2 DEF IInv, TypeOK
<1> QED
  BY <1>1, InvHolds, PTL

(* stop() of a driver in hardware mode parks every servo that answers.     *)
THEOREM StopAlwaysParks == Spec => StopParks
<1> DEFINE Parks ==
             mode = "Hardware" /\ mode' = "Stopped" /\ config.parkOnStop =>
               \A ch \in Channels : missed'[ch] = 0 =>
                 /\ shown'[ch] = "park"
                 /\ level'[ch] = Level(ch, Neutral[ch])
<1>1. ASSUME IInv, [Next]_vars PROVE [Parks]_vars
  <2> SUFFICES ASSUME Next, mode = "Hardware", mode' = "Stopped",
                      config.parkOnStop,
                      NEW ch \in Channels, missed'[ch] = 0
               PROVE  shown'[ch] = "park" /\ level'[ch] = Level(ch, Neutral[ch])
    BY <1>1
  <2>1. running
    BY <1>1 DEF IInv, HardwareReady
  <2>2. Stop
    BY <2>1 DEF Next, StartHardware, StartWithoutHardware, Command, driverVars
  <2>3. Write(Neutral, "park", mode, device)
    BY <2>2 DEF Stop, Park
  <2>4. missed[ch] + 1 # 0
    BY <1>1 DEF IInv, TypeOK
  <2> QED
    BY <2>3, <2>4 DEF Write
<1> QED
  BY <1>1, InvHolds, PTL DEF Spec, StopParks
=============================================================================
