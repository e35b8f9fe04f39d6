----------------------------- MODULE RequestGate -----------------------------
(***************************************************************************)
(* The GetUpRequestGate driven by its callers: the GetUp check of a        *)
(* state, the pre_run of every state while A is up, and Fallen::enter,     *)
(* which demands a release.  `gateWatch' is an auxiliary record of what the    *)
(* operator really did, kept without looking at the gate.                  *)
(***************************************************************************)
EXTENDS GetUpControl

VARIABLES
    gate,   \* the GetUpRequestGate
    gateFired,  \* what the last update() returned
    gateWatch   \* [held, span, released]: the last sample had A down on a fallen
            \* robot; for how long samples have been so, none more than GateGap
            \* apart (saturating at HoldTime); A was seen up since the last
            \* firing or demand for release

gateVars == <<gate, gateFired, gateWatch>>

TypeOKGate ==
    /\ gate \in GateTypes
    /\ gateFired \in BOOLEAN
    /\ gateWatch \in [held: BOOLEAN, span: 0 .. HoldTime, released: BOOLEAN]

InitGate ==
    /\ gate = GateInit
    /\ gateFired = FALSE
    /\ gateWatch = [held |-> FALSE, span |-> 0, released |-> TRUE]

GateWatched(d, requested, tilt, fires) ==
    LET holding == requested /\ tilt = "fallen"
    IN  [held |-> holding,
         span |-> IF holding /\ gateWatch.held /\ d <= GateGap
                  THEN Saturate(gateWatch.span + d, HoldTime) ELSE 0,
         released |-> (gateWatch.released \/ (~requested /\ tilt # "invalid")) /\ ~fires]

\* update(requested, tilt, now), d ticks after the previous sample.
UpdateGate(d, requested, tilt) ==
    LET g == Later(gate, d, GateGap)
    IN  /\ gateFired' = GateFires(g, requested, tilt)
        /\ gate' = GateNext(g, requested, tilt)
        /\ gateWatch' = GateWatched(d, requested, tilt, gateFired')

\* require_release(), called when the robot enters Fallen.
RequireRelease ==
    /\ gate' = GateRequireRelease(gate)
    /\ gateFired' = FALSE
    /\ gateWatch' = [gateWatch EXCEPT !.released = FALSE]

NextGate ==
    \/ \E d \in 1 .. GateGap + 1, requested \in BOOLEAN, tilt \in Tilts :
          UpdateGate(d, requested, tilt)
    \/ RequireRelease

SpecGate == InitGate /\ [][NextGate]_gateVars

-----------------------------------------------------------------------------
\* A GetUp request means A was held on a fallen robot for HoldTime, every
\* sample seen, none further apart than GateGap.
FiresOnlyAfterHold == gateFired => gateWatch.held /\ gateWatch.span >= HoldTime

\* One press gives at most one request, and a press that began before the
\* robot entered Fallen gives none: A was seen up since.
FiresOnlyAfterRelease == [][gateFired' => gateWatch.released]_gateVars

\* The gate never swallows a request: an operator who released A and then held
\* it for HoldTime on a fallen robot is answered at that very sample.
HeldRequestFires == gateWatch.released => gateWatch.span < HoldTime

\* The gate answers exactly the holds it should: what it answers was such a
\* hold, and such a hold is answered at the sample that completes it.
RequestsAreExact == FiresOnlyAfterHold /\ HeldRequestFires
=============================================================================
