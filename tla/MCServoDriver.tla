--------------------------- MODULE MCServoDriver ---------------------------
(* Values for the constants: two servos, the second mirrored and with a    *)
(* narrower range than the manager's; angles in units of 30 degrees,       *)
(* pulses in units of 100 microseconds at 50 Hz.                           *)
EXTENDS ServoDriver

MCChannels == {1, 2}
MCMinOut   == [ch \in MCChannels |-> 0]
MCMaxOut   == [ch \in MCChannels |-> 6]
MCMaxStep  == [ch \in MCChannels |-> IF ch = 1 THEN 2 ELSE 3]
MCTargets  == {-1, 0, 3, 7}
MCMinDeg   == [ch \in MCChannels |-> IF ch = 1 THEN 0 ELSE 1]
MCMaxDeg   == [ch \in MCChannels |-> IF ch = 1 THEN 6 ELSE 5]
MCNeutral  == [ch \in MCChannels |-> 1]

=============================================================================
