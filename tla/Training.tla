------------------------------- MODULE Training -------------------------------
(***************************************************************************)
(* The stateful parts of training in one run: the layers of a              *)
(* configuration, the landing rewards of one foot and the failure counts   *)
(* of the motion command.  They share no state, so it is enough to let one *)
(* of them move in a behaviour.                                            *)
(***************************************************************************)
EXTENDS TrainConfig

CONSTANTS
    Levels, Heights, Knees, Window, MaxAir, MaxCalls, MaxResamples,  \* SwingRewards
    NoCost,
    Envs, Frames, Bins                                               \* MotionSampling

VARIABLES
    moving,                                       \* the part that moves
    sensor, command, knee, foot, cost, episode,   \* SwingRewards
    time_steps, charged, step                     \* MotionSampling

swingVars == <<sensor, command, knee, foot, cost, episode>>
motionVars == <<time_steps, charged, step>>

Swing == INSTANCE SwingRewards
Motion == INSTANCE MotionSampling

ASSUME TrainingAssumption == Swing!SwingAssumption /\ Motion!MotionAssumption

TrainingInit ==
    /\ moving \in {"config", "swing", "motion"}
    /\ Init
    /\ Swing!Init /\ Motion!Init
    /\ moving # "swing" => command = CHOOSE c \in Swing!Commands : c.drive = "walk"

TrainingNext ==
    \/ moving = "config" /\ Next /\ UNCHANGED <<moving, swingVars, motionVars>>
    \/ moving = "swing" /\ Swing!Next /\ UNCHANGED <<moving, vars, motionVars>>
    \/ moving = "motion" /\ Motion!Next /\ UNCHANGED <<moving, vars, swingVars>>

TrainingSpec ==
    TrainingInit /\ [][TrainingNext]_<<moving, vars, swingVars, motionVars>>

\* A landing is charged for its own swing.
LandingsAreCharged == Swing!TypeOK /\ Swing!LandingsAreCharged

\* A failure is counted once, where it happened.
FailsWhereItFell == Motion!TypeOK /\ Motion!FailsWhereItFell

=============================================================================
