----------------------------- MODULE InputSource -----------------------------
(***************************************************************************)
(* What a joystick promises to the controller that reads it: while the     *)
(* device is there the outputs follow it, and when it is lost they become  *)
(* neutral at once and stay so for good.  The robot's reader and the       *)
(* simulator's implement this.                                             *)
(***************************************************************************)
EXTENDS Integers

CONSTANT Limit \* the largest deflection of an axis

InputAssumption == Limit \in Nat \ {0}

VARIABLES
    out, \* the stick and the button of the UnitreeJoystick
    lost

Deflections == -Limit .. Limit
Inputs == [axis : Deflections, button : BOOLEAN]
Neutral == [axis |-> 0, button |-> FALSE]

\* An axis moves a part of the way to its new value: here, one step.
Smoothed(old, new) ==
    IF old < new THEN old + 1 ELSE IF old > new THEN old - 1 ELSE old

Followed(input) ==
    [axis |-> Smoothed(out.axis, input.axis), button |-> input.button]

SourceInit == out = Neutral /\ lost = FALSE

Follow(input) ==
    /\ ~lost
    /\ out' = Followed(input)
    /\ lost' = FALSE

Lose ==
    /\ ~lost
    /\ out' = Neutral
    /\ lost' = TRUE

SourceNext == Lose \/ \E input \in Inputs : Follow(input)

SourceSpec == SourceInit /\ [][SourceNext]_<<out, lost>>
=============================================================================
