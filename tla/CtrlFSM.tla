------------------------------ MODULE CtrlFSM ------------------------------
(***************************************************************************)
(* The controller process g1_ctrl: the FSM thread that every millisecond   *)
(* samples its inputs, runs the current state, publishes the motor command *)
(* and evaluates the state's checks, and the policy threads the Velocity,  *)
(* Mimic and GetUp states start when they are entered and join when they   *)
(* are left.                                                               *)
(*                                                                         *)
(* A tick of the FSM thread is two steps, Run and Check, and a change of   *)
(* state two more, Join and Enter.  Between them the policy threads step.  *)
(* Run and Check read what another thread writes at most once each, or     *)
(* make their second read a choice, so they may be atomic.                 *)
(***************************************************************************)
EXTENDS GetUpControl

CONSTANTS
    Presses,     \* the sets of buttons the operator may hold together
    MotionSteps  \* policy steps that fit into the Mimic motion's time range

Buttons == {"A", "B", "start", "LT", "RT", "RB"}

ASSUME CtrlAssumption ==
    Presses \subseteq SUBSET Buttons /\ Presses # {} /\ MotionSteps \in Nat

Modes == {"Passive", "FixStand", "Velocity", "GetUp", "Mimic", "Fallen"}
PolicyModes == {"Velocity", "Mimic", "GetUp"}

\* Where the joint targets of a command come from: nothing written yet, the
\* measured joint positions, FixStand's interpolation, or a policy state; and of
\* a policy state's targets, whether they are its session's own, the joint
\* positions it was entered with, a previous session's, the zeros of an action
\* term that has processed nothing, or read while they were being written.
Ages == {"fresh", "held", "old", "zero", "torn"}
Targets == [by: {"nothing", "measured", "posture"} \cup PolicyModes, age: Ages]
Gains == {"damping", "posture"} \cup PolicyModes
Commands == [gains: Gains, q: Targets]

From(source) == [by |-> source, age |-> "fresh"]

VARIABLES
    alive,     \* the process has not died of an uncaught exception
    mode,      \* currentState
    stage,     \* where the FSM thread is: "run", "check", "exit" or "enter"
    target,    \* nextStateMode, while the state changes
    pad,       \* lowstate->joystick: [down, edge], levels and on_pressed edges
    upSeen,    \* auxiliary: A was sampled up since the state was entered
    timedOut,  \* lowstate->isTimeout()
    gate,      \* the one GetUpRequestGate of all states
    detector,  \* Velocity's FallenDetector
    cmd,       \* lowcmd->msg_, which Run publishes as it leaves it
    thread,    \* the program counter of each state's policy thread
    running,   \* policy_thread_running of each
    actions,   \* what Velocity's and Mimic's processed_actions() hold
    episode,   \* Mimic's env->episode_length, saturating
    ready,     \* State_GetUp::env_ has been set
    latest,    \* State_GetUp::latest_targets_, "none" while empty
    monitor,   \* State_GetUp::recovery_monitor_
    outcome    \* State_GetUp::outcome_; failure_reason_ is only logged

fsmVars == <<mode, stage, target, pad, upSeen, gate, detector, cmd>>
getUpVars == <<ready, latest, monitor, outcome>>
envVars == <<actions, episode>>
vars == <<alive, timedOut, fsmVars, thread, running, envVars, getUpVars>>

Stages == {"run", "check", "exit", "enter"}
ThreadStages ==
    {"none", "reset", "loop", "step", "write", "healthy", "unhealthy",
     "report", "stop", "done"}

TypeOK ==
    /\ alive \in BOOLEAN /\ timedOut \in BOOLEAN /\ ready \in BOOLEAN
    /\ upSeen \in BOOLEAN
    /\ mode \in Modes /\ target \in Modes /\ stage \in Stages
    /\ pad \in [down: SUBSET Buttons, edge: SUBSET Buttons]
    /\ gate \in GateTypes /\ detector \in DetectorTypes
    /\ cmd \in Commands
    /\ thread \in [PolicyModes -> ThreadStages]
    /\ running \in [PolicyModes -> BOOLEAN]
    /\ actions \in [{"Velocity", "Mimic"} -> Ages]
    /\ episode \in 0 .. MotionSteps + 1
    /\ latest \in Ages \cup {"none"}
    /\ monitor \in MonitorTypes /\ outcome \in Outcomes

NoCommand == [gains |-> "damping", q |-> From("nothing")]

\* The constructor, and start(): currentState = states[0], which is Passive.
Init ==
    /\ alive = TRUE /\ timedOut = FALSE
    /\ mode = "Passive" /\ target = "Passive" /\ stage = "run"
    /\ pad = [down |-> {}, edge |-> {}] /\ upSeen = FALSE
    /\ gate = GateInit /\ detector = DetectorInit
    /\ cmd = NoCommand
    /\ thread = [m \in PolicyModes |-> "none"]
    /\ running = [m \in PolicyModes |-> FALSE]
    /\ actions = [m \in {"Velocity", "Mimic"} |-> "zero"]
    /\ episode = 0
    /\ ready = FALSE /\ latest = "none"
    /\ monitor = MonitorInit /\ outcome = "running"

-----------------------------------------------------------------------------
(* The FSM thread: pre_run, run and post_run of the current state *)

\* pre_run(): the joystick is sampled and, while A is up, so is the gate.  The
\* code creates the gate at its first use; a gate that exists earlier has only
\* seen A up, which leaves it as good as new.
PreRun(d, pressed) ==
    /\ pad' = [down |-> pressed, edge |-> pressed \ pad.down]
    /\ upSeen' = (upSeen \/ "A" \notin pressed)
    /\ gate' = LET g == Later(gate, d, GateGap)
               IN  IF "A" \in pressed THEN g ELSE GateNext(g, FALSE, "upright")
    /\ detector' = Later(detector, d, DetectorGap)

\* The joint targets run() leaves in the command.
RunTargets ==
    CASE mode \in {"Passive", "Fallen"} -> From("measured")
      [] mode = "FixStand" -> From("posture")
      [] mode \in {"Velocity", "Mimic"} ->
            [by |-> mode,
             age |-> IF thread[mode] = "write" THEN "torn" ELSE actions[mode]]
      [] mode = "GetUp" /\ ready /\ latest # "none" ->
            [by |-> "GetUp", age |-> latest]
      [] OTHER -> cmd.q

\* State_GetUp::run() finds latest_targets_ unusable: set_terminal_outcome.
NoTargets == mode = "GetUp" /\ ready /\ latest = "none"

Run(d, pressed) ==
    /\ alive /\ stage = "run"
    /\ PreRun(d, pressed)
    /\ cmd' = [cmd EXCEPT !.q = RunTargets]
    /\ IF NoTargets
       THEN /\ outcome' = "failed"
            /\ running' = [running EXCEPT !["GetUp"] = FALSE]
       ELSE UNCHANGED <<outcome, running>>
    /\ stage' = "check"
    /\ UNCHANGED <<alive, timedOut, mode, target, thread, envVars,
                   ready, latest, monitor>>

-----------------------------------------------------------------------------
(* The FSM thread: the registered checks, the first that holds wins *)

Stand == "start" \in pad.edge                        \* start.on_pressed
Stop == "LT" \in pad.down /\ "B" \in pad.edge        \* LT + B.on_pressed
Drive == "RT" \in pad.down /\ "A" \in pad.edge       \* RT + A.on_pressed
Dance == "RB" \in pad.down /\ "A" \in pad.edge       \* RB + A.on_pressed
Requested == "A" \in pad.down                        \* the condition of GetUp

MotionOver == episode > MotionSteps
BadOrientation == FALSE  \* bad_orientation() returns false whatever the tilt

\* Slip: only the states that drive the robot look at its messages.
ChosenWithoutLink(tilt, early) ==
    CASE mode = "Passive" /\ Stand -> "FixStand"
      [] mode = "FixStand" /\ Drive -> "Velocity"
      [] mode \in {"Passive", "FixStand", "Fallen"}
           /\ GateFires(gate, Requested, tilt) -> "GetUp"
      [] mode = "Velocity" /\ ~early /\ DetectorFires(detector, tilt) -> "Fallen"
      [] mode \in {"Velocity", "GetUp", "Mimic"} /\ timedOut -> "Passive"
      [] OTHER -> mode

\* The state the checks of the current one choose, itself if none holds.
\* `early' is what isTimeout() told the fall check, before the common check.
Chosen(tilt, early) ==
    CASE mode = "Passive" ->
            IF Stand THEN "FixStand"
            ELSE IF GateFires(gate, Requested, tilt) THEN "GetUp"
            ELSE "Passive"
      [] mode = "FixStand" ->
            IF GateFires(gate, Requested, tilt) THEN "GetUp"
            ELSE IF Stop THEN "Passive"
            ELSE IF Drive THEN "Velocity"
            ELSE IF timedOut THEN "Passive" ELSE "FixStand"
      [] mode = "Velocity" ->
            IF ~early /\ DetectorFires(detector, tilt) THEN "Fallen"
            ELSE IF Dance THEN "Mimic"
            ELSE IF Stop \/ timedOut THEN "Passive" ELSE "Velocity"
      [] mode = "Fallen" ->
            IF GateFires(gate, Requested, tilt) THEN "GetUp"
            ELSE IF Stop \/ timedOut THEN "Passive" ELSE "Fallen"
      [] mode = "GetUp" ->
            IF Stop \/ timedOut THEN "Passive"
            ELSE IF outcome = "succeeded" THEN "Velocity"
            ELSE IF outcome = "failed" THEN "Fallen" ELSE "GetUp"
      [] mode = "Mimic" ->
            IF Stop THEN "Passive"
            ELSE IF Drive THEN "Velocity"
            ELSE IF timedOut THEN "Passive"
            ELSE IF MotionOver THEN "Velocity"
            ELSE IF BadOrientation THEN "Passive" ELSE "Mimic"

\* The GetUp check of the state was evaluated, whether it held or not.
GateAsked == mode \in {"FixStand", "Fallen"} \/ (mode = "Passive" /\ ~Stand)

\* The checks of one tick; if they choose another state its predecessor's
\* exit() begins by telling the policy thread to stop.
Check(tilt, early) ==
    /\ alive /\ stage = "check"
    /\ gate' = IF GateAsked THEN GateNext(gate, Requested, tilt) ELSE gate
    /\ detector' = IF mode # "Velocity" THEN detector
                   ELSE IF early THEN DetectorInit ELSE DetectorNext(detector, tilt)
    /\ target' = Chosen(tilt, early)
    /\ IF target' = mode
       THEN stage' = "run" /\ UNCHANGED running
       ELSE /\ stage' = "exit"
            /\ running' = [m \in PolicyModes |-> running[m] /\ m # mode]
    /\ pad' = [pad EXCEPT !.edge = {}]  \* no one reads them before the next sample
    /\ UNCHANGED <<alive, timedOut, mode, upSeen, cmd, thread, envVars, getUpVars>>

\* Slip: exit() stops the policy thread without joining it.
LeaveThread ==
    /\ alive /\ stage = "exit"
    /\ mode' = target /\ stage' = "enter"
    /\ UNCHANGED <<alive, timedOut, target, pad, upSeen, gate, detector, cmd,
                   thread, running, envVars, getUpVars>>

\* exit() joins the policy thread, if there is one, and the state changes.
Join ==
    /\ alive /\ stage = "exit"
    /\ mode \in PolicyModes => thread[mode] \in {"none", "done"}
    /\ thread' = [m \in PolicyModes |-> IF m = mode THEN "none" ELSE thread[m]]
    /\ mode' = target /\ stage' = "enter"
    /\ UNCHANGED <<alive, timedOut, target, pad, upSeen, gate, detector, cmd,
                   running, envVars, getUpVars>>

-----------------------------------------------------------------------------
(* The FSM thread: enter() of the new state.  The command it prepares is     *)
(* published after the state's first run().                                  *)

EnterStage ==
    /\ alive /\ stage = "enter" /\ stage' = "run" /\ upSeen' = FALSE
    /\ UNCHANGED <<alive, timedOut, mode, target, pad, detector>>

\* Slip: the gains of the state that was left stay in the command.
KeepGains ==
    /\ mode \in {"Passive", "Fallen"} /\ EnterStage
    /\ gate' = IF mode = "Fallen" THEN GateRequireRelease(gate) ELSE gate
    /\ UNCHANGED <<cmd, thread, running, envVars, getUpVars>>

EnterPassive ==
    /\ mode \in {"Passive", "Fallen"} /\ EnterStage
    /\ cmd' = [cmd EXCEPT !.gains = "damping"]
    /\ gate' = IF mode = "Fallen" THEN GateRequireRelease(gate) ELSE gate
    /\ UNCHANGED <<thread, running, envVars, getUpVars>>

EnterFixStand ==
    /\ mode = "FixStand" /\ EnterStage
    /\ cmd' = [cmd EXCEPT !.gains = "posture"]
    /\ UNCHANGED <<gate, thread, running, envVars, getUpVars>>

\* What a session finds of an earlier one: env->reset() clears the raw actions
\* only, so the processed ones survive it.
Aged(age) == IF age = "zero" THEN "zero" ELSE "old"

\* The policy thread of m starts with the gains of m in the command.
StartPolicy(m) ==
    /\ cmd' = [cmd EXCEPT !.gains = m]
    /\ thread' = [thread EXCEPT ![m] = "reset"]
    /\ running' = [running EXCEPT ![m] = TRUE]
    /\ actions' = [actions EXCEPT ![m] = Aged(actions[m])]
    /\ UNCHANGED <<gate, getUpVars>>

EnterVelocity ==
    /\ mode = "Velocity" /\ EnterStage
    /\ StartPolicy("Velocity") /\ UNCHANGED episode

\* Mimic resets its environment in enter() already.
EnterMimic ==
    /\ mode = "Mimic" /\ EnterStage
    /\ StartPolicy("Mimic") /\ episode' = 0

\* Slips: enter() keeps the outcome, or the targets, of the previous recovery.
StartRecovery ==
    /\ mode = "GetUp" /\ EnterStage
    /\ ready' = TRUE /\ monitor' = MonitorInit
    /\ cmd' = [gains |-> "GetUp", q |-> [by |-> "GetUp", age |-> "held"]]
    /\ thread' = [thread EXCEPT !["GetUp"] = "reset"]
    /\ running' = [running EXCEPT !["GetUp"] = TRUE]
    /\ UNCHANGED <<gate, envVars>>
KeepOutcome == StartRecovery /\ latest' = "held" /\ UNCHANGED outcome
KeepTargets ==
    /\ StartRecovery /\ outcome' = "running"
    /\ latest' = IF latest = "none" THEN "held" ELSE "old"

\* The lazy model load and the validation of the robot state both succeed.
EnterGetUp ==
    /\ mode = "GetUp" /\ EnterStage
    /\ ready' = TRUE /\ latest' = "held"
    /\ cmd' = [gains |-> "GetUp", q |-> [by |-> "GetUp", age |-> "held"]]
    /\ thread' = [thread EXCEPT !["GetUp"] = "reset"]
    /\ running' = [running EXCEPT !["GetUp"] = TRUE]
    /\ outcome' = "running" /\ monitor' = MonitorInit
    /\ UNCHANGED <<gate, envVars>>

\* One of them throws: no thread, the command and latest_targets_ stay.  A
\* missing model is only found while env_ is unset.
EnterGetUpFails(loaded) ==
    /\ mode = "GetUp" /\ EnterStage
    /\ ready => loaded
    /\ ready' = loaded
    /\ latest' = IF latest = "none" THEN "none" ELSE "old"
    /\ running' = [running EXCEPT !["GetUp"] = FALSE]
    /\ outcome' = "failed" /\ monitor' = MonitorInit
    /\ UNCHANGED <<cmd, gate, thread, envVars>>

Enter ==
    \/ EnterPassive \/ EnterFixStand \/ EnterVelocity \/ EnterMimic
    \/ EnterGetUp \/ \E loaded \in BOOLEAN : EnterGetUpFails(loaded)

-----------------------------------------------------------------------------
(* The policy threads *)

ThreadStep(m, from, to) ==
    /\ alive /\ thread[m] = from
    /\ thread' = [thread EXCEPT ![m] = to]
    /\ UNCHANGED <<timedOut, fsmVars>>

\* Slip: the loop does not ask whether it is to go on.
LoopForever(m) ==
    ThreadStep(m, "loop", "step") /\ UNCHANGED <<alive, running, envVars, getUpVars>>

\* Slip: every iteration begins with a cleared action term.
LoopClears(m) ==
    /\ ThreadStep(m, "loop", IF running[m] THEN "step" ELSE "done")
    /\ actions' = IF m = "GetUp" THEN actions ELSE [actions EXCEPT ![m] = "zero"]
    /\ UNCHANGED <<alive, running, episode, getUpVars>>

\* The loop condition of all three threads.
PolicyLoop(m) ==
    /\ ThreadStep(m, "loop", IF running[m] THEN "step" ELSE "done")
    /\ UNCHANGED <<alive, running, envVars, getUpVars>>

\* env->reset() of the Velocity and Mimic threads, before their loop.
PolicyReset(m) ==
    /\ ThreadStep(m, "reset", "loop")
    /\ episode' = IF m = "Mimic" THEN 0 ELSE episode
    /\ UNCHANGED <<alive, running, actions, getUpVars>>

\* env->step() up to the inference.
PolicyStep(m) ==
    /\ ThreadStep(m, "step", "write")
    /\ episode' = IF m = "Mimic" THEN Saturate(episode + 1, MotionSteps + 1)
                  ELSE episode
    /\ UNCHANGED <<alive, running, actions, getUpVars>>

\* The inference refuses a non-finite observation: nobody catches it.
PolicyThrows(m) ==
    /\ ThreadStep(m, "step", "done")
    /\ alive' = FALSE
    /\ UNCHANGED <<running, envVars, getUpVars>>

\* process_action() has written the last joint target.
PolicyWrite(m) ==
    /\ ThreadStep(m, "write", "loop")
    /\ actions' = [actions EXCEPT ![m] = "fresh"]
    /\ UNCHANGED <<alive, running, episode, getUpVars>>

\* policy_loop() of GetUp: env_->reset(), which may throw.
RecoveryReset(to) ==
    /\ to \in {"loop", "report"}
    /\ ThreadStep("GetUp", "reset", to)
    /\ UNCHANGED <<alive, running, envVars, getUpVars>>

\* env_->step(): valid targets are stored, anything thrown is caught.
RecoveryStep ==
    /\ ThreadStep("GetUp", "step", "healthy")
    /\ latest' = "fresh"
    /\ UNCHANGED <<alive, running, envVars, ready, monitor, outcome>>

RecoveryStepFails ==
    /\ ThreadStep("GetUp", "step", "unhealthy")
    /\ UNCHANGED <<alive, running, envVars, getUpVars>>

\* The monitor judges the step; if it decides the outcome is reported.
RecoverySample(s, dt) ==
    /\ ThreadStep("GetUp", IF s.healthy THEN "healthy" ELSE "unhealthy",
                  IF MonitorNext(monitor, s, dt).outcome = "running"
                  THEN "loop" ELSE "report")
    /\ monitor' = MonitorNext(monitor, s, dt)
    /\ UNCHANGED <<alive, running, envVars, ready, latest, outcome>>

\* set_terminal_outcome(): the outcome is stored first, the loop's flag last.
\* An undecided monitor means the reset threw.
RecoveryReport ==
    /\ ThreadStep("GetUp", "report", "stop")
    /\ outcome' = IF monitor.outcome = "succeeded" THEN "succeeded" ELSE "failed"
    /\ UNCHANGED <<alive, running, envVars, ready, latest, monitor>>

RecoveryStop ==
    /\ ThreadStep("GetUp", "stop", "done")
    /\ running' = [running EXCEPT !["GetUp"] = FALSE]
    /\ UNCHANGED <<alive, envVars, getUpVars>>

PolicyThread(m) ==
    \/ PolicyLoop(m) \/ PolicyReset(m) \/ PolicyStep(m) \/ PolicyWrite(m)
    \/ PolicyThrows(m)

RecoveryThread ==
    \/ PolicyLoop("GetUp") \/ \E to \in {"loop", "report"} : RecoveryReset(to)
    \/ RecoveryStep \/ RecoveryStepFails
    \/ \E s \in Samples, dt \in 1 .. SampleGap + 1 : RecoverySample(s, dt)
    \/ RecoveryReport \/ RecoveryStop

\* The robot's state messages stop or come back.
StateLink ==
    /\ alive /\ timedOut' = ~timedOut
    /\ UNCHANGED <<alive, fsmVars, thread, running, envVars, getUpVars>>

RunTick == \E d \in 1 .. GateGap + 1, pressed \in Presses : Run(d, pressed)

\* early differs from timedOut when the link changes between the two reads.
CheckTick == \E tilt \in Tilts, early \in BOOLEAN : Check(tilt, early)

FSMThread == RunTick \/ CheckTick \/ Join \/ Enter

Next ==
    \/ FSMThread
    \/ \E m \in {"Velocity", "Mimic"} : PolicyThread(m)
    \/ RecoveryThread
    \/ StateLink

Spec == Init /\ [][Next]_vars

\* The FSM thread is a recurrent timer thread, and the policy threads are
\* scheduled by the kernel; inference calls return.
Fairness ==
    /\ WF_vars(FSMThread)
    /\ \A m \in {"Velocity", "Mimic"} : WF_vars(PolicyThread(m))
    /\ WF_vars(RecoveryThread)

FairSpec == Spec /\ Fairness

-----------------------------------------------------------------------------
(* Safety *)

\* A policy thread exists only while its state is current: exit() has joined it
\* before the next state is entered, so no two policies ever step together and
\* no thread of an earlier session writes into a later one.
ThreadsBelongToMode ==
    \A m \in PolicyModes : thread[m] # "none" => mode = m /\ stage # "enter"

\* Every published command is of one piece: gains and targets of the current
\* state, and after a GetUp that could start only targets of that session.
PublishedIsCoherent ==
    stage = "check" =>
        CASE mode \in {"Passive", "Fallen"} ->
                cmd = [gains |-> "damping", q |-> From("measured")]
          [] mode = "FixStand" -> cmd = [gains |-> "posture", q |-> From("posture")]
          [] mode \in {"Velocity", "Mimic"} -> cmd.gains = mode /\ cmd.q.by = mode
          [] mode = "GetUp" ->
                cmd.gains = "GetUp" =>
                    cmd.q.by = "GetUp" /\ cmd.q.age \in {"held", "fresh"}

\* Once a session of Velocity or Mimic has published a target of its own, it
\* never goes back to one of an earlier session or to the initial zeros.
FreshTargetsStay ==
    [][ /\ mode \in {"Velocity", "Mimic"} /\ mode' = mode /\ stage # "enter"
        /\ cmd.q.by = mode /\ cmd.q.age \in {"fresh", "torn"}
        => cmd'.q.age \in {"fresh", "torn"} ]_vars

\* The operator must let go of A after the robot has fallen before it can ask
\* for a recovery, whichever state the gate was last asked in.
FallenNeedsRelease ==
    [][mode = "Fallen" /\ stage = "check" /\ target' = "GetUp" => upSeen]_vars

\* GetUp hands over to Velocity only if this very recovery was judged stable;
\* the outcome of an earlier one never counts.
HandoverIsEarned ==
    [][mode = "GetUp" /\ stage = "check" /\ target' = "Velocity"
        => monitor.outcome = "succeeded"]_vars

\* The length of an earlier dance never ends a new one: the motion is over only
\* after the policy thread of this session has started stepping.
DanceEndsByItsOwnLength ==
    [][mode = "Mimic" /\ stage = "check" /\ target' = "Velocity" /\ ~Drive
        => thread["Mimic"] # "reset"]_vars

\* FixStand starts to interpolate from where the joints were measured.
StandsUpFromMeasured ==
    [][EnterFixStand => cmd.q = From("measured")]_vars

\* No target of an earlier session, and none of the posture before, comes back.
TargetsAreOfThisSession == FreshTargetsStay /\ StandsUpFromMeasured

\* What happened in an earlier visit to a state never decides a change: not a
\* press held since before the fall, nor an outcome, nor the length of a dance.
ChangesAreEarned == FallenNeedsRelease /\ HandoverIsEarned /\ DanceEndsByItsOwnLength

\* The controller implements ControlModes.
Abstract == INSTANCE ControlModes
                WITH gains <- cmd.gains, settled <- stage # "enter"
Implements == Abstract!Spec

-----------------------------------------------------------------------------
(* Liveness, under FairSpec *)

\* No recovery lasts for ever: GetUp is left, whatever its policy does.
RecoveryEnds == mode = "GetUp" ~> mode # "GetUp"

\* A change of state is never stuck in the join of a policy thread.
ChangeCompletes == stage = "exit" ~> (stage = "enter" \/ ~alive)

\* A robot whose state messages have stopped for good, and whose operator does
\* nothing, ends in Passive.
StateLossEndsInPassive ==
    <>[](timedOut /\ pad.edge = {} /\ "A" \notin pad.down)
        => <>[](mode = "Passive" \/ ~alive)

-----------------------------------------------------------------------------
(* What the repository says and the code does otherwise *)

\* docs/architecture.md draws one way into GetUp: from Fallen.
GetUpOnlyFromFallen ==
    [][stage = "check" /\ mode # "GetUp" /\ target' = "GetUp" => mode = "Fallen"]_vars

\* docs/deployment.md: LT+B returns to Passive where configured.
StopReturnsToPassive ==
    [][ /\ stage = "check" /\ Stop
        /\ mode \in {"FixStand", "Fallen", "GetUp", "Mimic"}
        => target' = "Passive" ]_vars

\* docs/deployment.md: an invalid input state makes GetUp fail safely back to
\* Fallen.  A recovery that did not start moves no stiff joint.
FailedEntryMovesNothing ==
    [][ /\ mode = "GetUp" /\ thread["GetUp"] = "none" /\ stage = "run"
        /\ cmd.gains = "posture"
        => cmd'.q = cmd.q ]_vars
=============================================================================
