--------------------------- MODULE SimulatedFrame ---------------------------
(***************************************************************************)
(* The picture SimulatedPublisher draws: a bright disc on a dark ground,   *)
(* cut at the edges, and noise on every pixel.  The phase of the moving    *)
(* disc is left out: its middle is any pixel of the box that the cosine    *)
(* and the sine reach.                                                     *)
(***************************************************************************)
EXTENDS Integers

CONSTANTS SpotRadius,       \* Config::spot_radius
          Background,       \* Config::background
          SpotValue,        \* Config::spot_value
          Noises            \* what the noise may add to a pixel

ASSUME SpotAssumption ==
  /\ SpotRadius \in Int
  /\ Background \in 0 .. 255 /\ SpotValue \in 0 .. 255
  /\ Noises \subseteq Int

(* Where the middle may be, rounded: a quarter of the width and a fifth of *)
(* the height from the middle of the picture.                              *)
Middles(w, h) ==
  ((w + 2) \div 4 .. (3 * w + 2) \div 4)
    \X ((3 * h + 5) \div 10 .. (7 * h + 5) \div 10)

Radius == IF SpotRadius < 1 THEN 1 ELSE SpotRadius

InSpot(m, x, y) ==
  (x - m[1]) * (x - m[1]) + (y - m[2]) * (y - m[2]) <= Radius * Radius

Byte(v) == IF v < 0 THEN 0 ELSE IF v > 255 THEN 255 ELSE v

(* generateFrame_(): packed rows of one byte for each pixel.               *)
GenerateFrame(w, h, m, noise) ==
  [format |-> "Gray8", width |-> w, height |-> h, stride |-> w,
   data |-> [i \in 1 .. w * h |->
               Byte(noise[i] + IF InSpot(m, (i - 1) % w, (i - 1) \div w)
                               THEN SpotValue ELSE Background)]]

(* What the simulated camera may deliver in one size.                      *)
SimulatedFrames(w, h) ==
  {GenerateFrame(w, h, m, noise) :
     m \in Middles(w, h), noise \in [1 .. w * h -> Noises]}
=============================================================================
