----------------------------- MODULE SingleStep -----------------------------
(***************************************************************************)
(* The single-step velocity control of deploy/include/isaaclab: a D-pad    *)
(* press in the Velocity state becomes a velocity command that starts at   *)
(* the next half cycle of the gait and lasts for one phase advance.        *)
(*                                                                         *)
(* One Step is ManagerBasedRLEnv::step() up to the observations: the       *)
(* selectors and the controller are updated with the gait phase of the     *)
(* previous step, then the gait_phase observation advances it.  All of it  *)
(* runs in Velocity's policy thread, but for Stop, which runs after that   *)
(* thread is joined.  Time is counted in policy steps and the gait phase   *)
(* in the steps since its cycle began.  The code adds up binary fractions  *)
(* and the sum may miss phase_advance by a rounding error: whether a sum   *)
(* of exactly Advance steps reaches it is a choice.                        *)
(***************************************************************************)
EXTENDS Integers

CONSTANTS
    Half,           \* steps in half a gait cycle
    Advance,        \* SingleStepConfig::phase_advance, in steps
    ArmedTimeout,   \* SingleStepConfig::armed_timeout_s, in steps
    ActiveTimeout,  \* SingleStepConfig::active_timeout_s, in steps
    Dpads           \* the sets of directions the operator may hold together

Directions == {"up", "down", "left", "right"}

\* validate_config(), and a gait slower than the policy.
ASSUME SingleStepAssumption ==
    /\ Half \in Nat \ {0, 1} /\ Advance \in 1 .. 2 * Half
    /\ ArmedTimeout \in Nat \ {0} /\ ActiveTimeout \in Nat \ {0}
    /\ Dpads \subseteq SUBSET Directions /\ Dpads # {}

Phases == 0 .. 2 * Half - 1
HalfOf(p) == IF p < Half THEN "first" ELSE "second"

States == {"idle", "armed", "active", "wait_release", "aborted"}
AbortReasons == {"none", "armed_timeout", "active_timeout", "external_stop"}
Levels == {"low", "medium", "high"}

\* The linear part of a command: the left stick's, nothing, or a step's.
Linear == {"stick", "zero"} \cup Directions
Yaws == {"none", "left", "right"}

\* Where a stick axis is with respect to the four thresholds of a selector.
Zones == {"min", "lower", "centre", "upper", "max", "invalid"}

VARIABLES
    on,        \* Velocity's policy thread runs its loop
    phase,     \* global_phase
    ctl,       \* the SingleStepVelocityController
    level,     \* the StepHeightSelector's level_
    snapshot,  \* external_velocity_command_snapshot_, as [linear, yaw]
    asked,     \* auxiliary: what the operator asked for when a step was armed
    released,  \* auxiliary: the D-pad was seen released since a step was armed
               \* or aborted, or the session began
    burst      \* auxiliary: policy steps the present step command has lasted

vars == <<on, phase, ctl, level, snapshot, asked, released, burst>>

NoRequest == [direction |-> "none", level |-> "medium"]
Requests == [direction: Directions \cup {"none"}, level: Levels]

Controllers ==
    [state: States, reason: AbortReasons, timer: Nat, progress: Nat,
     half: {"first", "second"}, phase: Phases, dpad: SUBSET Directions,
     latched: Requests, command: Linear]

TypeOK ==
    /\ on \in BOOLEAN /\ released \in BOOLEAN
    /\ phase \in Phases /\ level \in Levels
    /\ ctl \in Controllers
    /\ snapshot \in [linear: Linear, yaw: Yaws]
    /\ asked \in Requests /\ burst \in Nat

Zero == [linear |-> "zero", yaw |-> "none"]

\* After the constructor: no session has begun, and Reset sets everything else.
Init ==
    /\ on = FALSE /\ phase = 0 /\ level = "medium" /\ snapshot = Zero
    /\ ctl = [state |-> "idle", reason |-> "none", timer |-> 0, progress |-> 0,
              half |-> "first", phase |-> 0, dpad |-> {},
              latched |-> NoRequest, command |-> "zero"]
    /\ asked = NoRequest /\ released = FALSE /\ burst = 0

-----------------------------------------------------------------------------
(* The height selector, and the shoulder buttons' yaw *)

\* StepHeightSelector::update(logical_right_y); the length selector is alike.
Selected(l, zone) ==
    CASE zone = "invalid" -> "medium"
      [] l = "medium" /\ zone = "max" -> "high"
      [] l = "medium" /\ zone = "min" -> "low"
      [] l = "high" /\ zone \in {"min", "lower", "centre"} -> "medium"
      [] l = "low" /\ zone \in {"centre", "upper", "max"} -> "medium"
      [] OTHER -> l

\* with_shoulder_yaw(): `yaw' is what LB and RB ask for, "none" if both or none.
WithYaw(c, yaw) ==
    [linear |-> c.command, yaw |-> IF c.state = "aborted" THEN "none" ELSE yaw]

-----------------------------------------------------------------------------
(* SingleStepVelocityController *)

Abort(c, reason) ==
    [c EXCEPT !.state = "aborted", !.reason = reason, !.timer = 0, !.progress = 0,
              !.half = "first", !.latched = NoRequest, !.command = "zero"]

ResetTo(d) ==
    [state |-> IF d = {} THEN "idle" ELSE "wait_release", reason |-> "none",
     timer |-> 0, progress |-> 0, half |-> "first", phase |-> 0, dpad |-> d,
     latched |-> NoRequest, command |-> "zero"]

\* A direction was pressed on its own and was up in the sample before.
Pressed(c, dpad, direction) == dpad = {direction} /\ direction \notin c.dpad

\* Slip: the height is latched whatever the direction.
ArmWithHeight(c, direction, l) ==
    [c EXCEPT !.state = "armed", !.timer = 0, !.progress = 0, !.command = "zero",
              !.latched = [direction |-> direction, level |-> l]]

Arm(c, direction, l) ==
    [c EXCEPT !.state = "armed", !.timer = 0, !.progress = 0, !.command = "zero",
              !.latched = [direction |-> direction,
                           level |-> IF direction = "up" THEN l ELSE "medium"]]

FromIdle(c, dpad, l) ==
    IF \E d \in Directions : Pressed(c, dpad, d)
    THEN Arm(c, CHOOSE d \in Directions : Pressed(c, dpad, d), l)
    ELSE [c EXCEPT !.command = "stick"]

\* Slip: the step starts at once.
StartAtOnce(c, p) ==
    [c EXCEPT !.state = "active", !.progress = 0, !.timer = 0,
              !.half = HalfOf(p), !.command = c.latched.direction]
FromArmed(c, p) ==
    CASE HalfOf(c.phase) # HalfOf(p) ->
            [c EXCEPT !.state = "active", !.progress = 0, !.timer = 0,
                      !.half = HalfOf(p), !.command = c.latched.direction]
      [] HalfOf(c.phase) = HalfOf(p) /\ c.timer + 1 >= ArmedTimeout ->
            Abort(c, "armed_timeout")
      [] OTHER -> [c EXCEPT !.timer = c.timer + 1, !.command = "zero"]

\* wrapped_phase_delta()
Passed(from, to) == IF to >= from THEN to - from ELSE to + 2 * Half - from

Reaches(progress, rounded) ==
    progress > Advance \/ (progress = Advance /\ ~rounded)

FromActive(c, p, rounded) ==
    LET moved == [c EXCEPT !.progress = c.progress + Passed(c.phase, p)]
    IN  CASE Reaches(moved.progress, rounded) ->
                [moved EXCEPT !.state = "wait_release", !.timer = 0, !.command = "zero"]
          [] ~Reaches(moved.progress, rounded) /\ c.timer + 1 >= ActiveTimeout ->
                Abort(moved, "active_timeout")
          [] OTHER -> [moved EXCEPT !.timer = c.timer + 1]

\* Slip: waiting ends only at the edge of a release.
ReleaseEdge(c, dpad) ==
    IF dpad = {} /\ c.dpad # {}
    THEN [c EXCEPT !.state = "idle", !.reason = "none", !.latched = NoRequest,
                   !.command = "stick"]
    ELSE [c EXCEPT !.command = "zero"]
NoWait(c, dpad) ==
    [c EXCEPT !.state = "idle", !.reason = "none", !.latched = NoRequest,
              !.command = "zero"]
\* WaitRelease and Aborted both wait for a D-pad with nothing pressed.
FromWaiting(c, dpad) ==
    IF dpad = {}
    THEN [c EXCEPT !.state = "idle", !.reason = "none", !.latched = NoRequest,
                   !.command = "stick"]
    ELSE [c EXCEPT !.command = "zero"]

\* update() with a finite phase and a positive dt, which is all step() passes.
Update(c, dpad, p, l, rounded) ==
    LET next == CASE c.state = "idle" -> FromIdle(c, dpad, l)
                  [] c.state = "armed" -> FromArmed(c, p)
                  [] c.state = "active" -> FromActive(c, p, rounded)
                  [] OTHER -> FromWaiting(c, dpad)
    IN  [next EXCEPT !.phase = p, !.dpad = dpad]

-----------------------------------------------------------------------------
(* The environment *)

\* The gait_phase observation: one more step, modulo the cycle.
AdvancedPhase(p) == IF p + 1 < 2 * Half THEN p + 1 ELSE 0

\* reset(): the observation manager's reset computes every observation once,
\* and so advances the gait phase.
Reset(dpad) ==
    /\ ~on /\ on' = TRUE
    /\ level' = "medium"
    /\ ctl' = ResetTo(dpad)
    /\ snapshot' = Zero
    /\ phase' = 1
    /\ released' = (dpad = {}) /\ burst' = 0 /\ UNCHANGED asked

\* step(): the input is read from a joystick the FSM thread may be updating.
Step(dpad, zone, yaw, rounded) ==
    /\ on /\ UNCHANGED on
    /\ level' = Selected(level, zone)
    /\ ctl' = Update(ctl, dpad, phase, level', rounded)
    /\ snapshot' = WithYaw(ctl', yaw)
    /\ phase' = AdvancedPhase(phase)
    /\ LET arms == ctl.state = "idle" /\ ctl'.state = "armed"
           aborts == ctl.state # "aborted" /\ ctl'.state = "aborted"
       IN  /\ asked' = IF arms THEN [direction |-> CHOOSE d \in dpad : TRUE,
                                     level |-> level'] ELSE asked
           /\ released' = (~arms /\ ~aborts /\ (released \/ dpad = {}))
    /\ burst' = IF ctl'.command \in Directions THEN burst + 1 ELSE 0

\* stop_external_velocity_command(), when Velocity is left.
Stop ==
    /\ on /\ on' = FALSE
    /\ ctl' = Abort(ctl, "external_stop")
    /\ snapshot' = Zero
    /\ burst' = 0 /\ released' = FALSE
    /\ UNCHANGED <<phase, level, asked>>

StepTick ==
    \E dpad \in Dpads, zone \in Zones, yaw \in Yaws, rounded \in BOOLEAN :
        Step(dpad, zone, yaw, rounded)

Next == StepTick \/ Stop \/ \E dpad \in Dpads : Reset(dpad)

Spec == Init /\ [][Next]_vars

\* The policy thread steps as long as its session lasts.
FairSpec == Spec /\ WF_vars(StepTick)

-----------------------------------------------------------------------------
\* A step is only armed after the whole D-pad was seen released since the last
\* step was armed, a step was aborted or the session began.
StepNeedsRelease ==
    [][ctl.state = "idle" /\ ctl'.state = "armed" => released]_vars

\* The left stick moves the robot only after such a release too, and while a
\* step is aborted nothing does.  (The shoulder buttons turn the robot in every
\* other state, while a release is awaited included: apply_shoulder_yaw()
\* holds them back in kAborted alone.)
StickWaits ==
    /\ snapshot.linear = "stick" => released
    /\ ctl.state = "aborted" => snapshot = Zero

\* A step lasts one phase advance, or a policy step more if the sum of the
\* phase misses it, unless it is aborted; and never longer than its timeout.
StepLastsOneAdvance ==
    [][ /\ burst' <= Advance + 1 /\ burst' <= ActiveTimeout
        /\ burst > 0 /\ burst' = 0 /\ ctl'.state # "aborted" => burst >= Advance ]_vars

\* A step begins with a half cycle of the gait, however late it was asked for.
StepsStartWithAHalfCycle ==
    [][burst = 0 /\ burst' > 0 => phase \in {0, Half}]_vars

\* The command of a step, and the height latched for it, are what the operator
\* asked for when it was armed, whatever is pressed meanwhile.
StepIsTheOneAsked ==
    ctl.command \in Directions =>
        /\ ctl.command = asked.direction
        /\ ctl.latched.level = IF asked.direction = "up" THEN asked.level ELSE "medium"

\* With timeouts longer than half a cycle and than one advance, as the shipped
\* configuration has them, no step is aborted by a timeout.
TimeoutsAreSpare ==
    /\ ArmedTimeout >= Half => ctl.reason # "armed_timeout"
    /\ ActiveTimeout > Advance => ctl.reason # "active_timeout"

\* The stick does not move the robot, and no second step is armed, before the
\* release; an aborted robot stands still.
StickAndStepWait ==
    [][ /\ StickWaits'
        /\ ctl.state = "idle" /\ ctl'.state = "armed" => released ]_vars

\* A step takes its half cycle of the gait and nothing more.
StepsKeepTheGait == StepsStartWithAHalfCycle /\ StepLastsOneAdvance

\* An operator who lets go of the D-pad for good gets the stick back for good.
StickTakesOver == <>[](on /\ ctl.dpad = {}) => <>[](snapshot.linear = "stick")
=============================================================================
