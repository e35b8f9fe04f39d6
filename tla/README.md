# A formal model of the G1 locomotion project

The repository trains locomotion policies for the Unitree G1 (Python, `src/`), runs
them on the robot with a C++ controller (`deploy/`), on a MuJoCo simulator that
speaks the same topics (`simulate/`), and has a web console that maps gamepads
(`src/gamepad_calibrator/`). Paths in this text are the repository's. What can go
wrong there and a test hardly reaches is modelled in TLA+ and checked with TLC; all
safety properties the runs check are proved with TLAPS for every value of the
constants.

## 1. The system

| Component | Source | State it keeps | Operations | Status |
|---|---|---|---|---|
| Controller state machine | `deploy/include/FSM/*`, `deploy/robots/g1/src/State_RLBase.cpp`, `config.yaml` | current state, joystick sample, motor command, one GetUp gate, one fall detector | tick (sample, run, publish, checks), change of state (exit, enter) | modelled: `CtrlFSM`, `ControlModes` |
| GetUp state | `State_GetUp.{h,cpp}` | environment, latest targets, monitor, outcome, thread | enter (load, validate, seed), run, exit, policy loop | modelled in `CtrlFSM` |
| Mimic state | `State_Mimic.{h,cpp}` | environment, episode length, motion range, thread | enter, run, exit, policy loop | control in `CtrlFSM`; motion numerics are not |
| GetUp decisions | `deploy/include/FSM/getup_control.h` | gate, fall detector, recovery monitor | `update`, `require_release`, `reset` | modelled: `GetUpControl`, `RequestGate`, `FallenDetector`, `RecoveryMonitor` |
| Single-step control | `single_step_velocity_controller.h`, `manager_based_rl_env.h` | state, timer, progress, phase, previous D-pad, latched request | `reset`, `update`, `abort` | modelled: `SingleStep` |
| Selectors and yaw | `swing_height_controller.h`, `gamepad_motion_mapping.h` | level of each axis | `update`, `reset` | height selector and yaw in `SingleStep`; joint overlay not |
| Policy environment | `deploy/include/isaaclab/{envs,manager,algorithms}` | processed actions, phase, episode length | `reset`, `step` | what outlives a step, in `CtrlFSM` and `SingleStep` |
| Transition conditions | `deploy/include/unitree_joystick_dsl.hpp` | none | parse, compile, evaluate | modelled: `JoystickDsl` |
| Robot's joystick | `deploy/include/common/CustomJoystick.h` | descriptor, raw axes and buttons, `connected_` | poll, disconnect, apply | modelled: `RobotJoystick`, `InputSource` |
| Simulated gamepad | `simulate/src/gamepad/*` | descriptors found, profile, snapshot, `disconnected_` | enumerate, select, open, drain, map | `DeviceDiscovery`, `ProfileValidation`, `SimJoystick`; YAML parsing not |
| Simulator's threads | `simulate/src/main.cc`, `simulate/mujoco/simulate/simulate.cc`, `unitree_sdk2_bridge.h` | model and data, requests, the bridge's pointers | load, reload, step, sync, render, bridge round | thread control in `SimThreads`; physics and rendering not |
| Console: sessions | `src/gamepad_calibrator/{sessions,app,process_interlock}.py` | active session, pump, reader, history, streams | create, arm, pump, stream, close | modelled: `Sessions`, `DeviceOwner` |
| Console: profile store | `profile_store.py`, `models.py` | one file per identity, the active selection | save, activate, load | modelled: `ProfileStore`, `ProfileValidation` |
| Console: mapping engines | `quick_mapping.py`, `calibration.py` | draft bindings, armed control, capture window, candidate | arm, observe, begin, confirm, redo, set, give up | `QuickMapping`, `Calibration`; preview not |
| Console: page | `static/quick_app.js` | session, connection, timers, event source | refresh, monitor, arm, leave | its control in `QuickPage`; saving and rendering not |
| Training | `src/training/train.py`, `src/tasks/*/mdp/*.py` | layers of a configuration; per-foot swing state; frames and failure counts | prepare, launch; reward, resample, reset | `TrainConfig`, `SwingRewards`, `MotionSampling`; other terms are arithmetic |
| Controller's main, keyboard, parameters, interpolation | `deploy/` | none that matters | | not modelled (section 5) |
| Vendored code, assets | `deploy/thirdparty`, `simulate/src/lodepng`, ... | | | not modelled |

### How the components interact

*Controller.* `CtrlFSM::run_` is a recurrent timer thread. Each tick it calls the
current state's `pre_run` (take the DDS state, update the joystick), `run` (write the
command) and `post_run` (publish it), then evaluates the state's registered checks in
order; the first that holds names the next state, and the old one's `exit` and the new
one's `enter` follow in the same tick. Velocity, Mimic and GetUp start a `std::thread`
in `enter` and join it in `exit`; between the two the thread and the FSM thread share,
without a lock, the processed actions, the joystick, the running flag and Mimic's
episode length, and in GetUp the latest targets (under a mutex) and the outcome
(atomics). All states share one GetUp request gate, fed in `pre_run` of every state and
asked in the checks of three. Velocity's thread drives the environment, and the
environment the selectors and the single-step controller, whose phase comes from the
gait observation of the step before. The checks' conditions are strings of
`config.yaml` that the DSL compiles to predicates over the joystick, which the robot's
reader fills.

*Simulator.* Main is the render thread; it starts the bridge's thread and the physics
thread. Physics hands a new model to the render thread through `loadrequest` and
waits until it is taken; files dropped on the window and clicks on Reload go the other
way. All share the globals `m` and `d`, only some of it under `sim.mtx`. The bridge
drains the gamepad that discovery selected by the active profile and publishes it as the
robot's wireless controller.

*Console and simulator.* They share two files, a profile and the active selection,
written by the console without a lock and read twice by the simulator's start, and one
device, which the console refuses to open while it sees a simulator.

*Console.* Each session's pump thread drains the reader outside the session's lock and
feeds the batch to one of two engines under it. Requests (creating, arming, closing)
come from a thread pool; streams of events go to the page, which reconnects with the
number of the last event it saw. The page's handlers interleave at every `await`.

*Training.* A run's configuration is made of the task's defaults, a dictionary in the
source, and the command line, each checked against rules; a catalog of where each
value came from is stored beside the checkpoints. In an environment step the
reward terms watch one contact sensor, and the motion command draws a frame both
when an environment is reset and when its motion has ended.

### What is hard about it

* **Interleaving**: policy threads against the FSM thread; physics against render
  thread and bridge; requests against pumps and streams; answers against events in the
  page.
* **State that outlives its session**: processed actions, targets, outcomes, episode
  lengths, the gate, the detector; a swing's latch after its command was drawn again; a
  page's session after its device has gone; a catalog after the dictionary has changed.
* **Devices that come and go** between any two system calls, and return as another
  device's node.
* **Crashes and power failures** between the calls of a file's replacement.
* **Edges and order**: a joystick edge lasts one tick, and the alphabetical order of the
  targets decides which of two conditions wins; a reset and a resampling in one step.
* **Timers with gaps**, histories and queues at their limit, joins from a thread that
  must not wait.
* **Two readers of one format**: the console's and the simulator's validation of a
  profile.

### What makes each component correct

* *State machine*: motors are driven by the gains and targets of the state the machine
  is in; one policy at a time; changes of state are those of the configuration and always
  complete; a lost state link ends in Passive.
* *GetUp*: started only by a held, released-before request; seeded with measured
  positions; hands over to Velocity only if this recovery was judged stable; always ends.
* *Gate, detector, monitor*: fire if and only if what they watch was there, seen without
  a gap, for the configured time.
* *Single step*: one step per press, with the direction and height asked for, beginning at
  a half cycle and lasting one advance; the stick is dead until the D-pad is released (the shoulder
  buttons turn a robot that waits for the release; an aborted one stands still).
* *Joystick readers*: follow the device, and are neutral at once and for good when it is
  lost.
* *Conditions*: accepted and evaluated as the header's grammar says.
* *Discovery*: a descriptor is of one pad; never a choice between equals.
* *Profiles*: accepted exactly when usable, by both readers alike; a file is the old or
  the new one, and a reported save survives; an active selection finds its profile, and one of its
  own device unless another has the same id.
* *Sessions*: one reader at a time and none forgotten; close returns; a page misses only
  what the history forgot, and learns of the end.
* *Engines*: no two bindings on one source; what is captured is what was moved.
* *Simulator*: the window and the physics use no deleted model (the bridge and the Backspace key
  do, section 6); loads return; requests are served.
* *Configuration*: the highest layer decides what is accepted, each layer within the rules over what
  is beneath it; the catalog repeats what was accepted. The leaves a worker sets afterwards, the seeds
  among them, are not in it (section 6).
* *Landing rewards and motion*: a swing is charged with its own command and peak; a
  failure counts once, where it happened.

## 2. Modules

| Module | Models | Rests on |
|---|---|---|
| `GetUpControl` | the three decision procedures as operators on their state: `GateNext`/`GateFires`, `DetectorNext`/`DetectorFires`, `MonitorNext`; `Later` is time passing between two samples | |
| `RequestGate`, `FallenDetector`, `RecoveryMonitor` | each procedure alone, called with every input in every order, beside an auxiliary record (`watch`) of what really happened | `GetUpControl` |
| `ControlModes` | the abstract promise: the graph of states, and the gains each may drive the motors with | |
| `CtrlFSM` | FSM thread, all six states, three policy threads, state link; implements `ControlModes` | `GetUpControl` |
| `SingleStep` | the environment step of Velocity as far as the velocity command | |
| `InputSource` | the abstract promise of a joystick: outputs follow, then neutral for good | |
| `RobotJoystick`, `SimJoystick` | the two readers, event by event; implement `InputSource` | `InputSource` |
| `JoystickDsl` | the parser of transition conditions, call by call, the predicates it compiles to, and the grammar they are compared with | |
| `DeviceDiscovery` | the simulator's enumeration of joystick nodes, one system call a step | |
| `GamepadProfile` | bindings, conflicts and what a control reads from raw values | |
| `ProfileValidation` | the Python and the C++ validator walking one profile | `GamepadProfile` |
| `ProfileStore` | profiles and active selection on disk, concurrent requests, crashes, the simulator's start | |
| `QuickMapping`, `Calibration` | the two capture engines with the pump and the requests | `GamepadProfile` |
| `DeviceOwner` | the abstract promise of the sessions: one owner of the device, never again | |
| `Sessions` | manager, pumps, histories, streams, device and simulator; implements `DeviceOwner` | `DeviceOwner` |
| `QuickPage` | the page's asynchronous control, against what it sees of `Sessions` | |
| `SimThreads` | the simulator's physics, render and bridge threads | |
| `Gamepad` | the way of a gamepad to the controller: validation, store, discovery and the two readers side by side | `ProfileValidation`, `ProfileStore`, `DeviceDiscovery`, `RobotJoystick`, `SimJoystick` |
| `Mapping` | the two capture engines side by side, each with controls of its own | `QuickMapping`, `Calibration` |
| `TrainConfig` | layers, rules, checks and the catalog of a training run | |
| `SwingRewards` | the three landing rewards of one foot and their contact sensor | |
| `MotionSampling` | the frames environments start from, and the failures held against them | |
| `Training` | configuration, landing rewards and sampling side by side | `TrainConfig`, `SwingRewards`, `MotionSampling` |
| `MC*` | constants of the runs, views, symmetries and, where a property speaks of the instance, that property | the module they name |
| `GetUpControlProofs`, `CtrlFSMProofs`, `SessionsProofs`, `SimThreadsProofs`, `GamepadProofs`, `TrainingProofs` | theorems | the module they name |
| `DecisionProofs` | theorems | `RequestGate`, `FallenDetector`, `RecoveryMonitor`, `SingleStep`, `JoystickDsl` |
| `ConsoleProofs` | theorems | `QuickPage`, `Mapping` |

### Correspondence with the code

*Decisions.* The code keeps the absolute time of the last sample and only uses the
difference to the present one; the records keep that difference (`age`), which `Later`
advances and which saturates one tick past the gap it is compared with. An operator such
as `GateNext(g, requested, tilt)` is the whole `update`, with its early returns as cases.
`Tilts` are what the two thresholds on the torso tilt tell apart: upright, leaning,
fallen, and the NaN of a degenerate quaternion.

*CtrlFSM.* Where the FSM thread is inside a tick is `stage`: `Run` is `pre_run`, `run` and
`post_run`; `Check` the loop over `registered_checks` and, if one holds, the flag `exit`
clears; `Join` the join and the change of `currentState`; `Enter*` the new state's
`enter`, one action per state and two for GetUp (success, and the exception that is
caught). Run and Check are atomic because each reads what another thread writes at
most once, and where it reads twice the second read is a choice: `isTimeout()` is asked
by Velocity's fall check and again by the common check (`early`). A read that overlaps a
write without a lock is the choice of a `torn` value. `RunTargets` records where the
published targets come from (`by`) and whether they belong to the session (`age`), which
is all the properties tell apart. `Chosen` is the list of checks in the order in which
they are registered: the configured transitions in the order of a `std::map`, then what
the state's constructor adds. The policy threads have a program counter each,
`thread[m]`: `reset`, `loop` (the loop condition), `step` (environment and inference),
`write` (`process_action`), and for GetUp the monitor's sample, the report and the flag,
since the code stores the outcome and clears the flag in two steps. `PolicyThrows` is an
exception nobody catches: the process dies (`alive`).

*SingleStep.* One `Step` is one `ManagerBasedRLEnv::step()` up to the observations. Time is
counted in policy steps and the phase in steps since the cycle began. The code adds
`step_dt / period` and wraps; the sum of exactly `Advance` increments may miss
`phase_advance` by a rounding error, so whether it reaches it is a choice (`rounded`) at
that point only. `Reset` is the begin of a session, including the observation that
already advances the phase; `Stop` its end.

*Joystick readers.* Each `read()` is a step (`ReadEvent`/`DrainEvent`), so the device may
vanish in the middle of a poll; end of file, `EAGAIN` and an error are the three ways it
ends. One axis and one button stand for all, since no code relates two of them; an event
whose number the reader has no place for is a kind of its own (`beyond`), ignored by the
robot's reader and thrown by the simulator's. The smoothing of an axis is the vendor's
`Axis` class; `Smoothed` is one step towards the new value, which is what can make the
difference between an axis that fades to neutral and one that is set to it.

*Conditions.* `pos` is the number of the token `tok_` holds, and `calls` the C++ call stack: a frame for
each `ParseOr()`, `ParseAnd()` or `ParseUnary()` (`not` after a `!`, `group` after a `(`) that waits for the
call above it, with the tree its loop has built so far. `ParseNot`, `ParseGroup` and `ParseAtom` are what a
call of `ParseUnary()` does, the `Return*` actions what the waiting call does with a tree that is returned to
it: go on in its loop or return in its turn. `Parse` looks for trailing tokens. A tree stands for what
`Compile` makes of it, the function from joysticks to true, false or an exception (`GetKey` throws at an
unknown name, and only if the evaluation comes to it). The lexer is not modelled: a text is a sequence of
its tokens, and every key is spelt in one way (`GetKey` ignores the case of its letters). `Meanings` is the grammar of the header's comment: the set of
what each phrase of a text, from one token to another, can mean, without reference to the parser or to the
order it reads in. Its conjunctions and expressions grow to the right, the parser's to the left.

*DeviceDiscovery.* `todo` are the paths `EnumerateLinuxJoysticks` has listed and not yet read, the
one with the smallest number first; `at` is the call of its loop that comes next, and
`RequireCurrent` the comparison of a node with the open descriptor's. A descriptor names its path,
so that the set `found` has one for each, as the code's vector does. The kernel's side is external: a slot of `/dev/input` with the pad, its
inode and whether its sysfs entry is still or already there.

*Profiles.* `GamepadProfile` has the three kinds of clash `validate_profile()` names. Each
reader of `ProfileValidation` walks the bindings in its own order and remembers what its code
remembers: Python the last directional user of an axis, C++ all of them. `ProfileStore`
follows `_atomic_write`: temporary, write and sync, rename, directory sync. `placed[f]` is
what a file may be after a power failure: every version since the last one known to be
durable, readers seeing the last. The file system is external and promises what POSIX does,
and no more. The simulator's start reads the active selection, its profile and both again.

*Engines.* The pump's `Drain` is apart from `Observe` because the session's lock is taken
between the two; a request may fall into the gap. A batch that begins the session has the
kernel's synthetic INIT events. In `QuickMapping` `window` is `_axis_capture` and its `age`
the time since the gesture began; `atArm`, `settled`, `reach` and `struck` record what the
device really did since arming, for the properties. In `Calibration` `candidate` is what the
page offers, `stable` and `count` the source held so far, `visited` the record of where each
axis has been.

*Sessions.* Where a request is, is `at[r]`; creating and closing hold the manager's lock from
end to end (`lock`), so their steps interleave with pumps, streams and the arm requests that
have already looked their session up, but not with each other. A pump's places are
its loop, the batch it has drained, and the ways it ends. A stream waits (`wait`), is woken or times
out (`quiet`), asks whether the pump lives (`look`) and sends; the history is the last
`HistoryLimit` entries of `log`.

*QuickPage.* Each piece of JavaScript between two awaits is an action; `task` are the calls of
`beginMonitoring()` in flight, `arm` an arm request, `deletes` the DELETEs under way. The
server is reduced to what the page sees of it: one active session, its device, whether that
has gone.

*SimThreads.* What a thread does while it holds `sim.mtx` is one action, unless the render
thread uses the data or spins in it (`render`). A model with its data is the number of its
load, so that an old pointer can be told from a new one. `load` says which of the three loads
(first, drop, reload) the physics thread is in. `Backspace` is the key callback, which the render thread
runs among its events: it resets the data of the globals and computes it again, and `keyed` is the model of
the call that is in progress. Since physics changes the globals without the mutex, the callback may
meet no model or a deleted one; what the use of freed memory does is left to chance, so the process may die
of it (`Crash`) or go on. The keys of the elastic band change numbers of the bridge and are left out.

*TrainConfig.* A layer is a function on some of the paths; `Prepare` is
`prepare_train_config()` and `main()` with their checks in order, `Programmatic` a call of
`launch_training()` with a finished configuration. `Over` puts a layer on a configuration, and
`BestMatches` is the choice among patterns. `Legal[p][over]` are the values of a path that
`_validate_type()`, `_coerce_override_value()` and `_validate_constraints()` let through where the
layer beneath has `over`: they take the type from it. A task's own default may be a value no layer could
set. `Work` is `run_train()` in one of the processes that are launched: it sets the seeds, the motion file
and the guard in its copy of the configuration (`Trained`), of which the catalog made before knows nothing.
The command line's parser (tyro) is external; all that is used of it is that it refuses a control
that is no Boolean.

*SwingRewards.* The contact sensor is external: its air time and first-contact flags are modelled
from how the terms read them, with bounces within one step. `Latch`, `Track`, `Charge` and `Clear`
are a knee term's `__call__` in its order; `Ground`, `Lift`, `Rise`, `ChargeFoot` and `Land` the
clearance term's, whose order differs. *MotionSampling.* One `Step` is an environment step's end:
the reset of what terminated or ran out of time, then the command's update, with the
termination flags up for both, in the order of mjlab's loop (external).

Operators whose comment begins with *Slip* or *Mutant* are deliberately wrong variants of the
operator beside them, kept so that each property can be shown to be sensitive to a plausible
mistake; no specification uses them.

## 3. What the runs check

Several runs join components that share no state. Such a harness (`MCTransitions`, `Mapping`,
`Gamepad`, `Training`) has a variable `moving` that names the one component that moves in a
behaviour; the others keep their initial state. As no action of one component reads or writes a
variable of another, every behaviour of each is there, and the interleavings that are left out
say nothing new about any of them. A property of such a run is the conjunction of its
components' properties, each written and explained in the module of its component.

| Run | Question |
|---|---|
| `transition_conditions` | Do gate and detector answer exactly the holds and falls they should (`RequestsAreExact`, `ConfirmationsAreExact`: sound and complete), does the monitor decide for the cause it reports and within its limits (`DecidesForCause`), is an answered request preceded by a release when one was demanded (`FiresOnlyAfterRelease`), and does the parser accept every short condition the grammar derives, and no other, with the one meaning the grammar gives it (`ConditionsReadTheGrammar`)? |
| `ctrl_fsm` | Under every interleaving of the FSM thread with the policy threads: no policy thread outside its state, coherent commands, no return to stale targets and standing up from the measured position (`TargetsAreOfThisSession`), the release interlock, the earned handover and Mimic's own length (`ChangesAreEarned`), and refinement of `ControlModes`. |
| `ctrl_fsm_live` | Do recoveries end, changes of state complete, and does a lost link end in Passive? |
| `single_step` | Does a step run as asked (`StepIsTheOneAsked`), on the gait's half cycle and for one advance at most (`StepsKeepTheGait`), do stick and second step wait for a release and does an aborted robot stand still (`StickAndStepWait`), and does the stick come back (`StickTakesOver`)? |
| `sessions` | Two requests create, arm and close two sessions while the device and a simulator come and go: is every open reader somebody's, is a closed session quiet, and does one at a time own the device (refinement of `DeviceOwner`)? |
| `sessions_live` | Does a page miss only what the history forgot, does every request return, does a page learn of a lost device, and do the streams of a closed session end? |
| `sim_threads` | Are the window's picture and the physics' data never of a deleted model, and a Backspace's not until the hand-over is over (`HandoverIsSafe`); is what is shown what is stepped (`ShownIsStepped`); and are loads, drops and reloads served while the window stays (`WindowIsServed`)? |
| `mapping` | Can a complete draft be saved whatever order it was made in (`DraftsAreUsable`), is what the page offers held now (`OfferIsHeld`), and is what is bound what the operator moved (`BindsTheGesture`)? |
| `quick_page` | Is what the page follows what the console holds, does it never stall with nothing under way, and does it reconnect? |
| `gamepad` | Do the Python and the C++ validation agree and accept exactly the usable profiles (`VerdictsAreRight`); is a file never torn, an acknowledged save durable and an active selection resolvable (`StoreIsSafe`); is the simulator refused, after an acknowledged activation, only what was not saved for certain or shares an id, is its descriptor of one pad, never a choice among equals, and found on a quiet bus (`SimulatorStarts`); is a lost joystick neutral for good (`LossIsNeutral`, both refinements of `InputSource`)? |
| `training` | Is each layer judged by the rules over what is beneath it, so that nothing forbidden is accepted and nothing allowed refused (`RulesDecide`); does the highest layer decide what is accepted and trained, but for what a worker sets, and does the catalog repeat what was accepted (`LayersAreReplayable`); is a landing charged for its own swing (`LandingsAreCharged`), and a failure counted once, where it happened (`FailsWhereItFell`)? |
| `doc_stop_returns_to_passive` | A statement of the documentation that the code does not keep (section 6). |

### Bounds

* Decisions: the gate and the detector run with the shipped durations in hundredths of a
  second (hold 100, gap 10; confirmation 20, gap 10) and every sample interval up to one past
  the gap. The monitor runs with 6/14 steps and three failures: longer than its gap, with
  room for a second attempt at stability and for alternating failures before the timeout.
  Conditions are all texts of up to six tokens of two keys and all the operators, all of up to five
  of a key and another name with times, units and states, and longer samples with any one token
  replaced by any other: a hold with a unit and a state, negated and grouped operands on both sides
  of `+` and `|`. Every rule of the grammar is used inside every other.
* `CtrlFSM`: hold, confirmation and stable time of 2 ticks, one-tick gaps: enough for a hold to
  be begun, interrupted, delayed past its gap and completed. Buttons are pressed in the
  combinations the shipped conditions tell apart (`MCPresses`). `MotionSteps` is 1: the episode
  length passes through before, at and after the end. `MCView` identifies states that
  differ only in what the next visit of a state overwrites before reading it. The process
  may die, so deadlock is not checked. `CtrlFSMLive` has no view, so its bounds are the smallest
  with which every procedure still has to wait, time out or fail.
* `SingleStep`: half a cycle and an advance of 4 steps, the armed timeout 2 (shorter than
  half a cycle, so that it fires), the active one 5. Two directions, alone and together, tell
  apart a new press, a crossing and an ambiguous one; the code treats the four alike except
  that only *up* takes the height. The selector's stick is in one of the six zones its
  thresholds make.
* `Sessions`: two requests and two sessions without a page for the ownership; one request, one
  session and one page with a history of 2 for 500, three events and one lost connection for
  the streams: enough for the history to forget what the page has not seen. A session's number is
  fresh, so the run ends when they are used up, which the guards allow for.
* `SimThreads`: two drops and two reloads: a second load finds what the first left. A file can be
  dropped again before the first was taken. Backspace may be pressed in every pass.
* `QuickPage`: two devices, two calls of `beginMonitoring()` in flight, one unplugging, one visit to
  another page. The second device lost while the page still awaits the DELETE of the first's session takes
  two unpluggings; it is beyond the run's bound (alone the run passes with two and no visit to another
  page) and within the theorems'.
* Mapping: two axes and a button. Raw axes read -8..7 for -32768..32767. In the quick mapping
  `StartDelta` 2, `MinimumPeak` 4 and `Recenter` 1 are 8192, 16384 and 4096 on that scale; in the
  guided calibration `MinExcursion` 2 and `FullRange` 4 keep only the order of their originals.
  Two stable samples and one unit of time stand for the shipped ones. Controls: a trigger and a
  direction for the quick mapping, a trigger and a stick for the guided one, which are the
  kinds whose bindings clash.
  States are compared through `MCView`, which leaves out only what no later step reads, such as
  the evidence of a step that ended.
* Gamepad: every profile over five controls, two axes (one of which the device may not have) and a button; a
  store with three devices, two of which share an id, two requests, three writes and one power failure;
  three pads, two of them indistinguishable, in two slots with three plug events, so that one slot can come
  back as another pad's while the other is in use; readers with axes within two steps of the centre and two
  events in the queue.
* Training: twelve leaves of a configuration, dictionaries of up to two values and at most three settings in
  all with those of the command line or the caller: a changed contract, its permission and a resumed
  checkpoint, in any of the layers. One leaf, a cap, is None by default, which no layer may put back over a
  number, and has a value out of range; the others have the default and one more (`Tried`). The task is a
  tracking one, whose workers set all four leaves, and two workers tell a rank's seed from the one asked
  for; tasks without a motion are within the theorems. Episodes of five steps with a swing window as
  shipped, to scale; two environments over five frames in two bins.

### Fairness

Weak fairness stands for threads the kernel schedules and timers that recur; strong fairness only
for taking a mutex, or a turn, that others release again and again.

* `CtrlFSM`: weak fairness of the FSM thread, of each policy thread and of the recovery thread.
  The FSM thread is a recurrent timer thread that waits for nothing but the join; the
  policy loops sleep until an absolute time and their inference calls return. Nothing is assumed
  of the operator, the robot's posture or the link: `StateLossEndsInPassive` and `StickTakesOver`
  (with weak fairness of the policy step) state their assumption as a premise.
* `Sessions`: weak fairness of each request's steps, of each pump and of each stream; strong fairness
  of a page's connecting, or being refused, since the browser's `EventSource` tries again for ever.
  Nothing makes an operator create or close.
* `SimThreads`: weak fairness of both threads, strong fairness of the sections that take
  `sim.mtx`, which both threads lock and unlock in a loop.
* `QuickPage`: weak fairness of every handler and answer, strong fairness of the device list's
  answer, since the page asks again every second.
* Readers of the joysticks: weak fairness of the controller's tick, of the bridge's round and of the
  failure of reading a device that is gone.

`QuickMapping` and `Calibration` also state a liveness property each, `GestureIsDecided` and
`HeldIsOffered`, under the pump's weak fairness (`FairSpec`). They belong to no run, since the
composed one is too large for it; alone they hold with one axis and a button (a trigger with
`CaptureTime` 2; `left_x` and `a` with `StableCount` 3).

## 4. What is proved

All theorems hold for every value of the constants that satisfies the named assumptions. The components' are
`GetUpConfigAssumption` (the positive durations and counts `validate` accepts), `CtrlAssumption` (a
non-empty set of button sets; a motion length), `SingleStepAssumption` (what `validate_config()` accepts,
and a half cycle of at least two policy steps), `SessionsAssumption` (a history of at least one entry),
`SimThreadsAssumption` and `QuickPageAssumption` (bounds that are numbers; finitely many devices),
`ProfileAssumption`, `QuickAssumption` and `CalibrationAssumption` (controls of the shipped kinds, positions
within the range of an axis, thresholds that are numbers), `DslAssumption` (words are neither numbers nor
punctuation; texts are sequences of tokens), `ValidationAssumption`, `StoreAssumption` (an id for each
identity, none of them `active`), `DiscoveryAssumption` (finitely many pads, numbered nodes),
`RobotAssumption`, `SimAssumption` and `InputAssumption` (sizes), `TrainAssumption` (which values are legal
over which is any function; `resume` is neither of the two controls; patterns are sequences of tokens and
paths have no wildcard), `RulesAreSettled` (no two of the shipped rules are the best for one path:
`build_parameter_catalog()` refuses every command otherwise, so nothing could run), `SwingAssumption`
(windows within the longest air time) and `MotionAssumption` (no more bins than frames, finitely many
environments). `GamepadAssumption`, `MappingAssumption` and `TrainingAssumption` join those of the parts. No
theorem has a hypothesis besides these. In particular the devices of the store may share ids, as the slug
that `profile_id_for()` makes of an identity lets them: `ActiveResolves` and `StartsOnceActivated` except
such a device in their statement (`Alone`), since then one's selection names the other's file
(`ActiveMatchesProfile`, section 6).

* **`GetUpControlProofs`**: the procedures map states of their types to states of their types;
  facts about `Saturate` and `Later` the others cite.
* **`DecisionProofs`**, gate, detector and monitor: soundness and completeness of
  each, and `RequestsExact`, `ConfirmationsExact`, `DecisionHadCause`, which join them. The properties
  compare a state of the code (a timer that is set, reset and saturated) with the auxiliary
  record, so none is inductive; the invariants (`GateInv`, `DetectorInv`, `MonitorInv`) add that the two
  agree: the timer is exactly the record's span while a run of samples lasts, a gate is armed exactly
  if the record has seen the release, and the monitor's stable time exceeds the record's by at most
  the one interval it counts before the first stable sample.
* **`CtrlFSMProofs`**: the type invariant, every safety property of `ctrl_fsm`, one by one and as
  the run states them (`TargetsStay`, `ChangesWereEarned`), and the refinement `Implements`. The
  invariant `CtrlInv` is a conjunction of parts with a lemma each: `ThreadsBelongToMode`; `Leaving` (the
  state to come is a successor of the one being left); `Driving` (the gains in the command are the
  state's); `Aiming` (where its targets come from at each stage); `Releasing` (in Fallen an armed gate
  has seen A up since the state was entered); `Recovering` (a session of GetUp that could start aims
  only at its own targets, and its outcome *succeeded* has the monitor behind it); `Freshness` (a target
  of this session that was published is still there or being rewritten, and a dance that has not
  begun has length zero). They need each other: coherent commands need the thread discipline, since a
  thread of an earlier session could otherwise write; the handover needs that `enter` clears the
  outcome and that no earlier thread can still report.
* **`CtrlImplements`** maps `settled` to "not between exit and enter" and shows that every step of
  `CtrlFSM` is a `Leave`, a `Settle` or a stutter of `ControlModes`; `MotorsFollowTheState` carries the
  abstract invariant `DrivenByMode` back to the controller.
* **`DecisionProofs`**, single step: type invariant and all safety properties. `SafeStep` adds to the type what a
  controller looks like (`Shape`: an active step has made exactly as much progress as time has passed and
  both are below their limits; an armed one has waited no longer than the half cycle has lasted) and how
  it sits in its environment (`Outside`: the phase it last saw is one behind, what was latched is what was
  asked, an idle controller has seen a release). `Moves` lists what one update can do, so that the action
  properties follow from it without the controller's code. `TimeoutsNeverFire` is about timeouts longer than
  half a cycle and an advance, as shipped, where the run `single_step` has shorter ones.
* **`SessionsProofs`**: the type invariant, `NoOrphan`, `QuietAfterClose`, `GapsAreForgotten` and the
  refinement `OwnsAlone`, for any number of requests, sessions and pages and any length of the history.
  `IInv` adds to types and `NoOrphan`: `Held` (a request between two steps of creating or closing has the
  manager's lock), `Targets` (what a request holds is a session it may hold at that place), `Readers` (a
  pump that runs has its reader open, one that is dead has closed it). `OwnsAlone` is the hard one: a
  session may be acquired only when no other is open, which no guard of `OpenReader` says; it follows
  because an open reader is the active session's or the lock holder's, and creation goes on only while
  there is no active session. `GapsAreForgotten` needs `Batches`, about what a stream is about to send.
* **`SimThreadsProofs`**: the type invariant, `RenderSeesLiveData`, `StepsLiveData`, `KeysSeeLiveData`,
  which make `HandoverIsSafe`, and `ShownIsStepped`, for any number of drops, reloads and key presses.
  `IInv` adds `Handshake` (what `loadrequest` says at each place of the physics thread), `Held` (the globals
  and the render thread have the last model made, or the one before while it is handed over), `Deleted`
  (only older models have been deleted), `Ends` (physics ends after it was asked to) and `Count` (every
  model made was asked for). Neither `Held` nor `Deleted` is inductive alone: what is deleted is older than
  the globals' model only because the hand-over was complete.
* **`GamepadProofs`**, readers: `RobotIsInputSource` and `SimIsInputSource`, step by step, with `RobotInv`
  and `SimInv` (once the device is lost nothing is drained any more and what is held is neutral; the robot's
  output follows at the end of the tick that noticed, which its refinement mapping waits for).
* **`GamepadProofs`**, profiles: `VerdictsRight`. `ValidationInv` says what a reader in the middle of its walk
  knows: what it has passed is within the device and free of conflicts, and Python remembers one directional
  user of each axis that has any (`Remembers`). That one is enough needs that a control has one opposite
  (`OneOpposite`): a third user conflicts with whichever of two is remembered.
* **`GamepadProofs`**, files: `FilesAreSafe`, `StoreSafe`. `StoreInv` has `FilesKept` (every version a power failure
  may bring back is whole, synced and made for its file), `TurnsGrow` (they are in the order of their
  replacements), `GoesOn` (what a request has achieved at each call of `_atomic_write`: a temporary that is
  written, then synced, and its replacement or a later one in place, then durable) and `Selected` (what the
  simulator read is a selection). `AcknowledgedIsDurable` is inductive only with them: what a power failure
  brings back must not be older than what any request has reported.
* **`GamepadProofs`**, discovery: `DiscoveryIsRight`, `Starts`. `DiscoveryInv` has `ReadRight`: what was read of
  a path is the open pad's if the path still is its node, and for good once the two were compared. An inode
  that is used once (`Plugged`) is what makes the comparison mean anything: a node that equals the open one
  has been there throughout. `SteadyFound` (a pad that kept its node is still to be inspected or found) and
  `QuietKept` (on a quiet bus nothing else is) are what `SelectUniqueDevice()` counts.
* **`ConsoleProofs`**, page: `PageFollows`, `PageNeverIdle`. `PageInv` relates calls of `beginMonitoring()`, arm
  answers and DELETEs to the console's session: `ListensToTheActive`, `AnswerIsNew`
  (the session an answer names is the console's and nothing has asked to close it, as nobody on the page
  knows it yet), `OneAnswer` (at most one such answer is on its way), `ShownIsAttended` (a page that shows a
  connection listens or polls) and `PageGoesOn`.
* **`ConsoleProofs`**, engines: `DraftsUsable`, `OffersAreHeld`, `GesturesAreBound`. `QuickInv` says that the
  window of `_axis_capture` measures what the auxiliary record says the device did since arming
  (`WindowMeasures`), one batch apart when a batch was drained and not yet observed (`SeenByTheEngine`).
  `GuidedInv` says the draft is free of conflicts after every request (`DraftIsSound`), the extremes a
  step keeps of an axis bound where it was (`Remembered`), and the offer is what the last observation ranked
  first (`OfferIsCurrent`).
* **`TrainingProofs`**, configuration: `Decides`, `Replays`. `RunIsMade` is the whole invariant: what is recorded
  is what `Prepare` or `Programmatic` makes of some layers and the dictionary, and what a worker trains with
  is what `Trained` makes of that. The rest are facts about
  those operators for every configuration. Patterns are the hard part: a best match exists, is unique when
  the rules are settled, and a path is read-only or sensitive exactly if opening some of its tokens gives
  a rule (`MatchMeansCovered`).
* **`TrainingProofs`**, rewards: `ChargesItsSwing`. The property speaks of the whole history of an episode; the
  invariant `SwingInv` says what the terms' few variables mean in it (`KneeHolds`, `FootHolds`: a swing is open
  since its latest lift-off without a landing, and its latch, reference and peak are those of the steps
  since), and how one more observation changes which swing is open (`SwingAfter`).
* **`TrainingProofs`**, sampling: `FailuresCount`, by `MotionInv`, over the two draws of one step.

* **`DecisionProofs`**, conditions: `ConditionsRead`, for texts of any length over any words, and
  `ParsingEnds`. The grammar is a recursive function over the phrases of a text; that it has a solution
  (`MeaningsSolve`) is shown by taking a least size for which it could not be solved: what a phrase means
  depends on smaller phrases only (`SmallerDecide`). The parser commits itself at every token and the
  grammar does not, so the invariant must say that nothing is lost: `ParserInv` holds that what the text
  means is exactly what the waiting calls can still make of it (`CanRead` before a call of `ParseUnary()`,
  `CanMean` once a tree is returned: each frame is given a place and a tree it could return, from the
  innermost to `Parse()`). A step that pushes or pops a frame preserves this set for two reasons.
  Since `&&` and `||` are associative, with what they skip and throw (`Associative`), a loop that grows to the
  left means what a phrase that grows to the right does (`AndContinues`, `OrContinues`). And since one token
  tells what can follow an operand, a conjunction and an expression (`Follows`), a loop that does not go on
  could not have. `ParsingEnds` is a measure that falls with each step (`Remaining`), in which a token
  that is left counts four, as a `(` makes three calls.

Lemmas that need a least or a greatest number of a set take it from well-foundedness (`WFMin`), not from
induction.

Only model-checked: every liveness property, since it depends on fairness and is out of the prover's reach: `RecoveryEnds`,
`ChangeCompletes`, `StateLossEndsInPassive`, `StickTakesOver`, `RequestsReturn`, `PageIsServed`,
`WindowIsServed`, `Reconnects`, and of `LossIsNeutral` the part that a device that vanished is noticed
(`BecomesNeutral`).

## 5. What is not modelled, and why

* The numbers: observation vectors, inference, interpolation of FixStand and of the motion file, joint
  overlay (off in the shipped configuration, `joint_overlay_enabled: false`), the stateless reward terms,
  physics, rendering, and the values the bridge copies.
* The abort of a single step for a non-finite phase or a bad time step: `step()` passes only the phase
  it has computed itself and its constant `step_dt`.
* The length selector: the same automaton as the height selector on another axis.
* The controller's `main`, the keyboard, parameters: start-up steps, and a reader thread that feeds only an
  example observation the shipped policy does not have.
* Parsing and formatting: YAML, the lexer of the condition language, the conversion endpoints of `app.py`,
  import and export of profiles, the preview, the correlation of an axis with a button, the exact
  normalisation.
* `static/app.js`, which the page served by default does not load.
* mjlab, rsl_rl, ONNX Runtime, MuJoCo, lodepng, cnpy: not part of this program.
* The running flag is a plain `bool` shared by two threads. The loop calls functions the compiler cannot see
  through, so builds reload it; the model reads it in every iteration and does not cover a build that
  hoists the load.
* `bad_orientation()` always returns false: a robot that falls while dancing has no reaction but the operator's.
  Nothing in the repository says otherwise, so the model states nothing about it.

Most lines of the repository are vendored headers, a viewer and tensor arithmetic; the modules stand for the
part that keeps state over time and decides.

## 6. Where documentation and code disagree

The first statement below is a run; the others are definitions in the module of their component, with the
text they quote in the comment. TLC refutes each under the bounds of section 3, taken alone.

| Statement | Module | What the code does |
|---|---|---|
| `StopReturnsToPassive` | `CtrlFSM` | `docs/deployment.md:70` says LT+B returns to Passive where configured. In FixStand and Fallen the GetUp check comes first, because `G` sorts before `P`; in the tick in which a held A fires the gate an LT+B press is not evaluated, and its edge is gone in the next. |
| `GetUpOnlyFromFallen` | `CtrlFSM` | `docs/architecture.md:88` draws one way into GetUp; `config.yaml` gives Passive and FixStand the same transition. |
| `FailedEntryMovesNothing` | `CtrlFSM` | `docs/deployment.md:117-118` says incompatible state fails safely back to Fallen; a failed `enter` leaves the targets of an earlier session, and the next `run` publishes them once. |
| `PressedKeepsHold` | `JoystickDsl` | The header says `LT(3s).pressed` is the same as `LT(3s)`; the state replaces the hold. |
| `ReadsTheSelected` | `DeviceDiscovery` | The selection guards every read against a replaced node; the event source then opens the path again and compares nothing. |
| `ActiveMatchesProfile` | `ProfileStore` | A profile's id is a slug of its identity, which is not injective: two devices may share one file. |
| `NoOverlap` | `Sessions` | The interlock is asked once, before the device is opened. |
| `HeldIsNotChosen` | `QuickMapping` | A stick that is held when its control is armed and then let go is captured, inverted. |
| `DisconnectReleases` | `QuickMapping` | A trigger bound to an axis reads as pressed on a device that is gone. |
| `CentreRetries` | `QuickMapping` | After an ambiguous gesture the page asks for the centre; the engine waits for the position held at arming. |
| `DisconnectWaits` | `QuickPage` | An arm answer that comes after the loss makes the page show a connection and never look again. |
| `PageExitReleases` | `QuickPage` | A page left while its session is being created leaves the session behind. |
| `UsesAgreedDevice` | `QuickPage` | The button names one device; whichever is first when the request arrives is opened. |
| `ExitEnds` | `SimThreads` | A window closed while a model is loading leaves the physics thread waiting, and main in `join()`. |
| `LoadReturns` with a second drop | `SimThreads` | The render thread spins with the mutex that physics needs to take the first. |
| `SyncExcludesPhysics` | `SimThreads` | After a load physics uses the new data without the mutex while `Sync()` copies it. |
| `OldDataIsUnused` | `SimThreads` | After a reload the bridge goes on using what was deleted. |
| `BackspaceIsSafe` | `SimThreads` | Backspace resets the globals' data on the render thread while physics deletes and replaces it without the mutex, and before there is any. |
| `ResumeKeepsContract` | `MCTraining` | The dictionary and the command line are checked apart: together they resume a checkpoint under another contract. |
| `CommandLineTrains` | `MCTraining` | A worker overwrites `env.seed` with the agent's, the motion command's file and the guard's switch after the catalog was made: an argument for these leaves is accepted and shown, and does not train. |

## 7. What could follow

Done: every component of section 2 is modelled and checked, and its safety properties are proved.

1. `QuickPage` on top of `Sessions` instead of its reduced server, with the refinement that the reduced
   server is what the page sees of them.
2. Saving, import and export of profiles in the page; the length selector and the joint overlay in `SingleStep`.
