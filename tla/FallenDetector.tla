--------------------------- MODULE FallenDetector ---------------------------
(***************************************************************************)
(* The FallenDetector as the Velocity state drives it: its first check     *)
(* samples the torso tilt every tick, and clears the detector when the     *)
(* robot's state messages have timed out.  While another state is current  *)
(* nobody calls it, and nothing clears it when Velocity is entered again:  *)
(* the gap between samples is then as long as the absence.                 *)
(***************************************************************************)
EXTENDS GetUpControl

VARIABLES
    detector,  \* the detector State_RLBase's constructor allocates
    detectorFired,     \* what the check last returned
    detectorWatch      \* auxiliary, [fallen, span]: the last sample was fallen; how long
               \* samples have been fallen, none more than DetectorGap apart

detectorVars == <<detector, detectorFired, detectorWatch>>

TypeOKDetector ==
    /\ detector \in DetectorTypes
    /\ detectorFired \in BOOLEAN
    /\ detectorWatch \in [fallen: BOOLEAN, span: 0 .. ConfirmTime]

NoFallSeen == [fallen |-> FALSE, span |-> 0]

InitDetector ==
    /\ detector = DetectorInit
    /\ detectorFired = FALSE
    /\ detectorWatch = NoFallSeen

\* update(tilt, now), d ticks after the previous sample.
UpdateDetector(d, tilt) ==
    LET r == Later(detector, d, DetectorGap)
    IN  /\ detectorFired' = DetectorFires(r, tilt)
        /\ detector' = DetectorNext(r, tilt)
        /\ detectorWatch' = [fallen |-> tilt = "fallen",
                     span |-> IF tilt = "fallen" /\ detectorWatch.fallen /\ d <= DetectorGap
                              THEN Saturate(detectorWatch.span + d, ConfirmTime) ELSE 0]

\* lowstate->isTimeout(): the check resets the detector and returns false.
TimedOut ==
    /\ detector' = DetectorInit
    /\ detectorFired' = FALSE
    /\ detectorWatch' = NoFallSeen

NextDetector ==
    \/ \E d \in 1 .. DetectorGap + 1, tilt \in Tilts : UpdateDetector(d, tilt)
    \/ TimedOut

SpecDetector == InitDetector /\ [][NextDetector]_detectorVars

-----------------------------------------------------------------------------
\* A fall is confirmed only after every sample of the last ConfirmTime was
\* fallen and none of them came late, whatever happened before: an earlier
\* visit to Velocity, a data timeout or a degenerate quaternion lends nothing.
ConfirmsOnlyObservedFall == detectorFired => detectorWatch.fallen /\ detectorWatch.span >= ConfirmTime

\* A fall that has been observed for ConfirmTime is reported at that sample.
ObservedFallConfirmed == detectorWatch.span >= ConfirmTime => detectorFired

\* The detector reports exactly the falls it observed for ConfirmTime without
\* a gap, at the sample that completes them.
ConfirmationsAreExact == ConfirmsOnlyObservedFall /\ ObservedFallConfirmed
=============================================================================
