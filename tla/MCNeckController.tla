---------------------------- MODULE MCNeckController ----------------------------
(***************************************************************************)
(* A small neck: two axes with different rates and intervals, a pan centre *)
(* outside the pan interval (the configuration checks allow it), a tilt    *)
(* gain that reverses the axis, and an initial target away from both.      *)
(***************************************************************************)
EXTENDS NeckController

MCAxis == {"pan", "tilt"}

Facing(pan, tilt) == [a \in MCAxis |-> IF a = "pan" THEN pan ELSE tilt]

(* Heads turned to the left and to the right of the seam at 180 degrees,   *)
(* raised a little, and bent over backwards.                               *)
MCOrientation == {"ahead", "left", "right", "up", "over"}

(* What _relative_angles_degrees returns for them, in whole degrees: a row *)
(* per reference, a column per orientation.                                *)
MCRelative ==
    LET Row(ahead, left, right, up, over) ==
          [ahead |-> ahead, left |-> left, right |-> right, up |-> up, over |-> over]
    IN  [ ahead |-> Row(Facing(0, 0), Facing(170, 0), Facing(-170, 0), Facing(0, 2), Facing(-180, 10)),
          left  |-> Row(Facing(-170, 0), Facing(0, 0), Facing(20, 0), Facing(-170, 2), Facing(10, 10)),
          right |-> Row(Facing(170, 0), Facing(-20, 0), Facing(0, 0), Facing(170, 2), Facing(-10, 10)),
          up    |-> Row(Facing(0, -2), Facing(170, 2), Facing(-170, 2), Facing(0, 0), Facing(-180, 12)),
          over  |-> Row(Facing(-180, -10), Facing(10, 10), Facing(-10, 10), Facing(-180, -12), Facing(0, 0)) ]

MCCenter == Facing(5, 0)
MCInitial == Facing(-1, 1)
MCGain == Facing(1, -1)
MCMaxRate == Facing(2, 1)
MCMinimum == Facing(-3, -1)
MCMaximum == Facing(4, 2)
================================================================================
