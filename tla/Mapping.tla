-------------------------------- MODULE Mapping --------------------------------
(***************************************************************************)
(* The two ways a profile is made, in one run: the quick mapping, and the  *)
(* guided calibration.  A server runs a session of one or of the other, so *)
(* one of them moves in a behaviour.                                       *)
(***************************************************************************)
EXTENDS Integers

CONSTANTS
    Quicks,    \* the controls of the quick mapping
    Guides,    \* those of the guided calibration
    Axes,
    Buttons,
    Lowest,
    Highest,
    QuickPositions, StartDelta, MinimumPeak, Recenter,       \* QuickMapping
    CaptureTime, MaxEvents,
    Positions, Rests, MinExcursion, FullRange,               \* Calibration
    StableCount, StableTime,
    Nil

VARIABLES
    moving,                                        \* the way that moves
    device, drained, batch, connected, quickAxes,  \* QuickMapping
    quickButtons, bindings, armed, window, status, replaced, pressed, atArm,
    settled, reach, struck,
    state, template, draft, control, engaged,      \* Calibration
    candidate, centers, noise, base, rawAxes, rawButtons, least, most,
    changed, stable, count, age, visited

quickVars == <<device, drained, batch, connected, quickAxes, quickButtons,
               bindings, armed, window, status, replaced, pressed, atArm,
               settled, reach, struck>>
guidedVars == <<state, template, draft, control, engaged, candidate, centers,
                noise, base, rawAxes, rawButtons, least, most, changed, stable,
                count, age, visited>>

Quick == INSTANCE QuickMapping WITH
    Controls <- Quicks, Positions <- QuickPositions, None <- Nil,
    axes <- quickAxes, buttons <- quickButtons

Guided == INSTANCE Calibration WITH
    Controls <- Guides, None <- Nil, active <- engaged, bindings <- draft,
    axes <- rawAxes, buttons <- rawButtons

ASSUME MappingAssumption ==
    /\ Quick!ProfileAssumption /\ Quick!QuickAssumption
    /\ Guided!ProfileAssumption /\ Guided!CalibrationAssumption
    /\ Nil \notin Quick!Batches /\ Nil \notin Quick!Windows
    /\ Nil \notin Guided!Sources /\ Nil \notin Guided!Offers

MappingInit ==
    /\ moving \in {"quick", "guided"}
    /\ Quick!Init /\ Guided!Init
    /\ moving # "quick" => device = Quick!Zeros
    /\ moving # "guided" => ~template

MappingNext ==
    \/ moving = "quick" /\ Quick!Next /\ UNCHANGED <<moving, guidedVars>>
    \/ moving = "guided" /\ Guided!Next /\ UNCHANGED <<moving, quickVars>>

MappingSpec == MappingInit /\ [][MappingNext]_<<moving, quickVars, guidedVars>>

\* Either way's draft is well formed and can be saved as soon as nothing is
\* missing, and the calibration's session names the control its engine will bind.
DraftsAreUsable ==
    /\ Quick!TypeOK /\ Guided!TypeOK
    /\ Quick!DraftConflictFree
    /\ Guided!CompleteDraftIsUsable /\ Guided!SessionFollowsEngine

\* The calibration offers what is held now, with the direction of its farthest
\* excursion in this step.
OfferIsHeld == Guided!OfferIsHeld

\* Either way binds what the operator moved and nothing that rivals it: the
\* quick mapping what moved since its control was armed, the calibration what
\* nothing else of this step came near.
BindsTheGesture == Quick!CapturesTheGesture /\ Guided!ConfirmedIsUnrivalled

=============================================================================
