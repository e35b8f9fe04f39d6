---------------------------- MODULE CtrlFSMProofs ----------------------------
(***************************************************************************)
(* What the controller process promises, for every duration of the gate,   *)
(* the detector and the monitor, every motion and every set of presses.    *)
(*                                                                         *)
(* The invariant is a conjunction of parts, each with a lemma that says    *)
(* every step preserves it.                                                *)
(***************************************************************************)
EXTENDS CtrlFSM, GetUpControlProofs

\* A recovery that is still undecided has failed fewer than MaxFailures times.
MonitorLimit == monitor.outcome = "running" => monitor.failures < MaxFailures

TypeInv == TypeOK /\ MonitorLimit

\* The steps of the policy threads and of the state link leave the FSM thread
\* alone.
LEMMA FrameOfThreads ==
    ASSUME \/ \E m \in {"Velocity", "Mimic"} : PolicyThread(m)
           \/ RecoveryThread \/ StateLink \/ UNCHANGED vars
    PROVE  UNCHANGED fsmVars
BY DEF PolicyThread, PolicyLoop, PolicyReset, PolicyStep, PolicyWrite,
       PolicyThrows, RecoveryThread, RecoveryReset, RecoveryStep,
       RecoveryStepFails, RecoverySample, RecoveryReport, RecoveryStop,
       ThreadStep, StateLink, vars

-----------------------------------------------------------------------------
(* Type correctness *)

\* A monitor that has been reset.
LEMMA ResetMonitor == MonitorInit \in MonitorTypes /\ MonitorInit.failures = 0
BY GetUpConfigAssumption DEF MonitorInit, MonitorTypes, Outcomes, Reasons

\* What run() leaves in the command is a command.
LEMMA RunTargetsType == TypeOK => RunTargets \in Targets
<1> SUFFICES ASSUME TypeOK PROVE RunTargets \in Targets
  OBVIOUS
<1>1. CASE mode \in {"Passive", "Fallen"}
  BY <1>1 DEF RunTargets, Targets, From, Ages
<1>2. CASE mode = "FixStand"
  BY <1>2 DEF RunTargets, Targets, From, Ages
<1>3. CASE mode \in {"Velocity", "Mimic"}
  BY <1>3 DEF RunTargets, Targets, Ages, PolicyModes, TypeOK
<1>4. CASE mode = "GetUp" /\ ready /\ latest # "none"
  BY <1>4 DEF RunTargets, Targets, Ages, PolicyModes, TypeOK
<1>5. CASE mode = "GetUp" /\ ~(ready /\ latest # "none")
  BY <1>5 DEF RunTargets, TypeOK, Commands
<1>6. QED
  BY <1>1, <1>2, <1>3, <1>4, <1>5 DEF TypeOK, Modes

\* The checks choose a state.
LEMMA ChosenType ==
    ASSUME TypeOK, NEW tilt, NEW early \in BOOLEAN PROVE Chosen(tilt, early) \in Modes
BY DEF Chosen, TypeOK, Modes

\* A tick's sampling and run() keep the types.
LEMMA RunType ==
    ASSUME TypeInv, NEW d \in 1 .. GateGap + 1, NEW pressed \in Presses,
           Run(d, pressed)
    PROVE  TypeInv'
<1> USE GetUpConfigAssumption, CtrlAssumption
<1>1. TypeOK
  BY DEF TypeInv
<1>2. gate' \in GateTypes
  <2>1. Later(gate, d, GateGap) \in GateTypes
    BY <1>1, LaterGate DEF TypeOK
  <2>2. GateNext(Later(gate, d, GateGap), FALSE, "upright") \in GateTypes
    BY <2>1, GateNextType DEF Tilts
  <2>3. QED
    BY <2>1, <2>2 DEF Run, PreRun
<1>3. detector' \in DetectorTypes
  <2>1. d \in Nat \ {0}
    OBVIOUS
  <2>2. Later(detector, d, DetectorGap) \in DetectorTypes
    BY <1>1, <2>1, LaterDetector DEF TypeOK
  <2>3. QED
    BY <2>2 DEF Run, PreRun
<1>4. cmd' \in Commands
  <2>1. RunTargets \in Targets
    BY <1>1, RunTargetsType
  <2>2. QED
    BY <1>1, <2>1 DEF Run, TypeOK, Commands
<1>5. pad' \in [down: SUBSET Buttons, edge: SUBSET Buttons] /\ upSeen' \in BOOLEAN
  BY <1>1 DEF Run, PreRun, TypeOK
<1>6. outcome' \in Outcomes /\ running' \in [PolicyModes -> BOOLEAN]
  BY <1>1 DEF Run, TypeOK, Outcomes
<1>7. stage' \in Stages
  BY DEF Run, Stages
<1>8. UNCHANGED <<alive, timedOut, mode, target, thread, envVars, ready, latest, monitor>>
  BY DEF Run
<1>9. TypeOK'
  BY <1>1, <1>2, <1>3, <1>4, <1>5, <1>6, <1>7, <1>8 DEF TypeOK, envVars
<1>10. QED
  BY <1>8, <1>9 DEF TypeInv, MonitorLimit

\* The checks keep the types.
LEMMA CheckType ==
    ASSUME TypeInv, NEW tilt \in Tilts, NEW early \in BOOLEAN, Check(tilt, early)
    PROVE  TypeInv'
<1>1. TypeOK
  BY DEF TypeInv
<1>2. gate' \in GateTypes
  <2>1. Requested \in BOOLEAN
    BY DEF Requested
  <2>2. GateNext(gate, Requested, tilt) \in GateTypes
    BY <1>1, <2>1, GateNextType DEF TypeOK
  <2>3. QED
    BY <1>1, <2>2 DEF Check, TypeOK
<1>3. detector' \in DetectorTypes
  <2>1. DetectorNext(detector, tilt) \in DetectorTypes
    BY <1>1, DetectorNextType DEF TypeOK
  <2>2. DetectorInit \in DetectorTypes
    BY GetUpConfigAssumption DEF DetectorInit, DetectorTypes
  <2>3. QED
    BY <1>1, <2>1, <2>2 DEF Check, TypeOK
<1>4. target' \in Modes
  BY <1>1, ChosenType DEF Check
<1>5. stage' \in Stages /\ running' \in [PolicyModes -> BOOLEAN]
  BY <1>1 DEF Check, Stages, TypeOK
<1>6. pad' \in [down: SUBSET Buttons, edge: SUBSET Buttons]
  BY <1>1 DEF Check, TypeOK
<1>7. UNCHANGED <<alive, timedOut, mode, upSeen, cmd, thread, envVars, getUpVars>>
  BY DEF Check
<1>8. TypeOK'
  BY <1>1, <1>2, <1>3, <1>4, <1>5, <1>6, <1>7 DEF TypeOK, envVars, getUpVars
<1>9. QED
  BY <1>7, <1>8 DEF TypeInv, MonitorLimit, getUpVars

\* The end of exit() and every enter() keep the types.
LEMMA ChangeType == ASSUME TypeInv, Join \/ Enter PROVE TypeInv'
<1> USE GetUpConfigAssumption
<1>1. TypeOK
  BY DEF TypeInv
<1>2. CASE Join
  <2>1. thread' \in [PolicyModes -> ThreadStages]
    BY <1>1, <1>2 DEF Join, TypeOK, ThreadStages
  <2>2. QED
    BY <1>1, <1>2, <2>1 DEF Join, TypeOK, TypeInv, MonitorLimit, Stages, envVars, getUpVars
<1>3. CASE EnterPassive
  <2>1. gate' \in GateTypes
    <3>1. Unstamped(ResetPending(gate)) \in GateTypes
      BY <1>1, GateRewrites DEF TypeOK
    <3>2. GateRequireRelease(gate) \in GateTypes
      BY <3>1, GateRewrites DEF GateRequireRelease
    <3>3. QED
      BY <1>1, <1>3, <3>2 DEF EnterPassive, TypeOK
  <2>2. cmd' \in Commands
    BY <1>1, <1>3 DEF EnterPassive, TypeOK, Commands, Gains
  <2>3. QED
    BY <1>1, <1>3, <2>1, <2>2 DEF EnterPassive, EnterStage, TypeOK, TypeInv,
       MonitorLimit, Stages, envVars, getUpVars
<1>4. CASE EnterFixStand
  <2>1. cmd' \in Commands
    BY <1>1, <1>4 DEF EnterFixStand, TypeOK, Commands, Gains
  <2>2. QED
    BY <1>1, <1>4, <2>1 DEF EnterFixStand, EnterStage, TypeOK, TypeInv,
       MonitorLimit, Stages, envVars, getUpVars
<1>5. ASSUME NEW m \in {"Velocity", "Mimic"}, StartPolicy(m)
      PROVE  /\ cmd' \in Commands
             /\ thread' \in [PolicyModes -> ThreadStages]
             /\ running' \in [PolicyModes -> BOOLEAN]
             /\ actions' \in [{"Velocity", "Mimic"} -> Ages]
  <2>1. cmd' \in Commands
    BY <1>1, <1>5 DEF StartPolicy, TypeOK, Commands, Gains, PolicyModes
  <2>2. Aged(actions[m]) \in Ages
    BY DEF Aged, Ages
  <2>3. QED
    BY <1>1, <1>5, <2>1, <2>2 DEF StartPolicy, TypeOK, ThreadStages
<1>6. CASE EnterVelocity
  BY <1>1, <1>5, <1>6 DEF EnterVelocity, EnterStage, StartPolicy, TypeOK, TypeInv,
     MonitorLimit, Stages, getUpVars
<1>7. CASE EnterMimic
  <2>1. episode' \in 0 .. MotionSteps + 1
    BY <1>7, CtrlAssumption DEF EnterMimic
  <2>2. QED
    BY <1>1, <1>5, <1>7, <2>1 DEF EnterMimic, EnterStage, StartPolicy, TypeOK,
       TypeInv, MonitorLimit, Stages, getUpVars
<1>8. CASE EnterGetUp
  <2>1. cmd' \in Commands
    BY <1>8 DEF EnterGetUp, Commands, Gains, Targets, Ages, PolicyModes
  <2>2. /\ thread' \in [PolicyModes -> ThreadStages]
        /\ running' \in [PolicyModes -> BOOLEAN]
    BY <1>1, <1>8 DEF EnterGetUp, TypeOK, ThreadStages
  <2>3. monitor' \in MonitorTypes /\ MonitorLimit'
    BY <1>8, ResetMonitor DEF EnterGetUp, MonitorLimit
  <2>4. QED
    BY <1>1, <1>8, <2>1, <2>2, <2>3 DEF EnterGetUp, EnterStage, TypeOK, TypeInv,
       Stages, Ages, Outcomes, envVars
<1>9. ASSUME NEW loaded \in BOOLEAN, EnterGetUpFails(loaded) PROVE TypeInv'
  <2>1. running' \in [PolicyModes -> BOOLEAN]
    BY <1>1, <1>9 DEF EnterGetUpFails, TypeOK
  <2>2. monitor' \in MonitorTypes /\ MonitorLimit'
    BY <1>9, ResetMonitor DEF EnterGetUpFails, MonitorLimit
  <2>3. QED
    BY <1>1, <1>9, <2>1, <2>2 DEF EnterGetUpFails, EnterStage, TypeOK, TypeInv,
       Stages, Ages, Outcomes, envVars
<1>10. QED
  BY <1>2, <1>3, <1>4, <1>6, <1>7, <1>8, <1>9 DEF Enter

\* Every step of a policy thread keeps the types.
LEMMA ThreadType ==
    ASSUME TypeInv,
           \/ \E m \in {"Velocity", "Mimic"} : PolicyThread(m)
           \/ RecoveryThread
    PROVE  TypeInv'
<1> USE GetUpConfigAssumption
<1>1. TypeOK /\ UNCHANGED fsmVars
  BY FrameOfThreads DEF TypeInv
<1>2. ASSUME NEW m \in PolicyModes, NEW from, NEW to \in ThreadStages,
             ThreadStep(m, from, to)
      PROVE  thread' \in [PolicyModes -> ThreadStages] /\ timedOut' \in BOOLEAN
  BY <1>1, <1>2 DEF ThreadStep, TypeOK
<1>3. ASSUME NEW m \in PolicyModes, PolicyLoop(m) PROVE TypeInv'
  <2>1. thread' \in [PolicyModes -> ThreadStages] /\ timedOut' \in BOOLEAN
    BY <1>2, <1>3 DEF PolicyLoop, ThreadStages
  <2>2. QED
    BY <1>1, <1>3, <2>1 DEF PolicyLoop, TypeOK, TypeInv, MonitorLimit, fsmVars,
       envVars, getUpVars
<1>4. ASSUME NEW m \in {"Velocity", "Mimic"}, PolicyReset(m) PROVE TypeInv'
  <2>1. thread' \in [PolicyModes -> ThreadStages] /\ timedOut' \in BOOLEAN
    BY <1>2, <1>4 DEF PolicyReset, ThreadStages, PolicyModes
  <2>2. episode' \in 0 .. MotionSteps + 1
    BY <1>1, <1>4, CtrlAssumption DEF PolicyReset, TypeOK
  <2>3. QED
    BY <1>1, <1>4, <2>1, <2>2 DEF PolicyReset, TypeOK, TypeInv, MonitorLimit,
       fsmVars, getUpVars
<1>5. ASSUME NEW m \in {"Velocity", "Mimic"}, PolicyStep(m) PROVE TypeInv'
  <2>1. thread' \in [PolicyModes -> ThreadStages] /\ timedOut' \in BOOLEAN
    BY <1>2, <1>5 DEF PolicyStep, ThreadStages, PolicyModes
  <2>2. episode' \in 0 .. MotionSteps + 1
    BY <1>1, <1>5, CtrlAssumption DEF PolicyStep, TypeOK, Saturate
  <2>3. QED
    BY <1>1, <1>5, <2>1, <2>2 DEF PolicyStep, TypeOK, TypeInv, MonitorLimit,
       fsmVars, getUpVars
<1>6. ASSUME NEW m \in {"Velocity", "Mimic"}, PolicyWrite(m) PROVE TypeInv'
  <2>1. thread' \in [PolicyModes -> ThreadStages] /\ timedOut' \in BOOLEAN
    BY <1>2, <1>6 DEF PolicyWrite, ThreadStages, PolicyModes
  <2>2. actions' \in [{"Velocity", "Mimic"} -> Ages]
    BY <1>1, <1>6 DEF PolicyWrite, TypeOK, Ages
  <2>3. QED
    BY <1>1, <1>6, <2>1, <2>2 DEF PolicyWrite, TypeOK, TypeInv, MonitorLimit,
       fsmVars, getUpVars
<1>7. ASSUME NEW m \in {"Velocity", "Mimic"}, PolicyThrows(m) PROVE TypeInv'
  <2>1. thread' \in [PolicyModes -> ThreadStages] /\ timedOut' \in BOOLEAN
    BY <1>2, <1>7 DEF PolicyThrows, ThreadStages, PolicyModes
  <2>2. QED
    BY <1>1, <1>7, <2>1 DEF PolicyThrows, TypeOK, TypeInv, MonitorLimit,
       fsmVars, envVars, getUpVars
<1>8. ASSUME NEW to \in {"loop", "report"}, RecoveryReset(to) PROVE TypeInv'
  <2>1. thread' \in [PolicyModes -> ThreadStages] /\ timedOut' \in BOOLEAN
    BY <1>2, <1>8 DEF RecoveryReset, ThreadStages, PolicyModes
  <2>2. QED
    BY <1>1, <1>8, <2>1 DEF RecoveryReset, TypeOK, TypeInv, MonitorLimit,
       fsmVars, envVars, getUpVars
<1>9. CASE RecoveryStep \/ RecoveryStepFails
  <2>1. thread' \in [PolicyModes -> ThreadStages] /\ timedOut' \in BOOLEAN
    BY <1>2, <1>9 DEF RecoveryStep, RecoveryStepFails, ThreadStages, PolicyModes
  <2>2. QED
    BY <1>1, <1>9, <2>1 DEF RecoveryStep, RecoveryStepFails, TypeOK, TypeInv,
       MonitorLimit, Ages, fsmVars, envVars, getUpVars
<1>10. ASSUME NEW s \in Samples, NEW dt \in 1 .. SampleGap + 1,
              RecoverySample(s, dt)
       PROVE  TypeInv'
  <2>1. thread' \in [PolicyModes -> ThreadStages] /\ timedOut' \in BOOLEAN
    BY <1>2, <1>10 DEF RecoverySample, ThreadStages, PolicyModes
  <2>2. monitor' \in MonitorTypes /\ MonitorLimit'
    <3>1. monitor \in MonitorTypes /\ MonitorLimit /\ dt \in Nat
      BY <1>1 DEF TypeOK, TypeInv
    <3>2. QED
      BY <1>10, <3>1, MonitorNextType DEF RecoverySample, MonitorLimit
  <2>3. QED
    BY <1>1, <1>10, <2>1, <2>2 DEF RecoverySample, TypeOK, TypeInv, fsmVars, envVars
<1>11. CASE RecoveryReport
  <2>1. thread' \in [PolicyModes -> ThreadStages] /\ timedOut' \in BOOLEAN
    BY <1>2, <1>11 DEF RecoveryReport, ThreadStages, PolicyModes
  <2>2. QED
    BY <1>1, <1>11, <2>1 DEF RecoveryReport, TypeOK, TypeInv, MonitorLimit,
       Outcomes, fsmVars, envVars
<1>12. CASE RecoveryStop
  <2>1. thread' \in [PolicyModes -> ThreadStages] /\ timedOut' \in BOOLEAN
    BY <1>2, <1>12 DEF RecoveryStop, ThreadStages, PolicyModes
  <2>2. QED
    BY <1>1, <1>12, <2>1 DEF RecoveryStop, TypeOK, TypeInv, MonitorLimit,
       fsmVars, envVars, getUpVars
<1>13. QED
  BY <1>3, <1>4, <1>5, <1>6, <1>7, <1>8, <1>9, <1>10, <1>11, <1>12
     DEF PolicyThread, RecoveryThread, PolicyModes

\* Every step of the process keeps the types.
LEMMA NextType == TypeInv /\ [Next]_vars => TypeInv'
<1> SUFFICES ASSUME TypeInv, [Next]_vars PROVE TypeInv'
  OBVIOUS
<1>1. CASE RunTick
  BY <1>1, RunType DEF RunTick
<1>2. CASE CheckTick
  BY <1>2, CheckType DEF CheckTick
<1>3. CASE Join \/ Enter
  BY <1>3, ChangeType
<1>4. CASE (\E m \in {"Velocity", "Mimic"} : PolicyThread(m)) \/ RecoveryThread
  BY <1>4, ThreadType
<1>5. CASE StateLink
  BY <1>5 DEF StateLink, TypeInv, TypeOK, MonitorLimit, fsmVars, envVars, getUpVars
<1>6. CASE UNCHANGED vars
  BY <1>6 DEF vars, TypeInv, TypeOK, MonitorLimit, fsmVars, envVars, getUpVars
<1>7. QED
  BY <1>1, <1>2, <1>3, <1>4, <1>5, <1>6 DEF Next, FSMThread

-----------------------------------------------------------------------------
(* The parts of the invariant, each preserved by every step *)

\* The state that will be entered is a successor of the one being left; otherwise
\* the state to come is the current one.
Leaving == IF stage = "exit" THEN target \in Abstract!Successors[mode]
           ELSE target = mode

\* The motors are driven with the gains of the state; one that asks for a
\* recovery has no gains of a policy.
Driving ==
    /\ stage # "enter" => cmd.gains \in Abstract!GainsOf(mode)
    /\ stage = "enter" /\ mode = "GetUp" => cmd.gains \in {"damping", "posture"}

\* Where the joint targets of the command come from.
Aiming ==
    /\ stage \in {"check", "exit"} =>
          /\ mode \in {"Passive", "Fallen"} => cmd.q = From("measured")
          /\ mode = "FixStand" => cmd.q = From("posture")
          /\ mode \in {"Velocity", "Mimic"} => cmd.q.by = mode
    /\ mode = "GetUp" => cmd.q.by \in {"GetUp", "measured", "posture"}
    /\ stage = "enter" =>
          /\ mode = "FixStand" => cmd.q = From("measured")
          /\ mode \in {"Velocity", "Mimic"} => cmd.q.by # mode

\* In Fallen the gate is armed only by a release seen since the state was entered.
Releasing ==
    mode = "Fallen" /\ stage # "enter" =>
        /\ gate.armed => upSeen
        /\ stage = "check" /\ "A" \notin pad.down => upSeen

\* What a session of GetUp that could start aims at, and hands over.
Recovering ==
    mode = "GetUp" /\ stage # "enter" =>
        /\ cmd.gains = "GetUp" =>
              /\ ready /\ latest \in {"held", "fresh"}
              /\ cmd.q.by = "GetUp" /\ cmd.q.age \in {"held", "fresh"}
        /\ outcome = "succeeded" => monitor.outcome = "succeeded"

\* A target the session has published is still there, or is being rewritten; the
\* length of a dance that has not begun is zero.
Freshness ==
    /\ \A m \in {"Velocity", "Mimic"} : actions[m] # "torn"
    /\ mode \in {"Velocity", "Mimic"} /\ stage # "enter" /\ cmd.q.by = mode
         /\ cmd.q.age \in {"fresh", "torn"}
         => actions[mode] = "fresh" \/ thread[mode] = "write"
    /\ mode = "Mimic" /\ thread["Mimic"] = "reset" => episode = 0

CtrlInv ==
    /\ TypeInv
    /\ ThreadsBelongToMode
    /\ Leaving /\ Driving /\ Aiming /\ Releasing
    /\ Recovering /\ Freshness

\* The successors of each state, one by one.
LEMMA SuccessorsAre ==
    /\ Abstract!Successors["Passive"] = {"FixStand", "GetUp"}
    /\ Abstract!Successors["FixStand"] = {"GetUp", "Passive", "Velocity"}
    /\ Abstract!Successors["Velocity"] = {"Fallen", "Mimic", "Passive"}
    /\ Abstract!Successors["Fallen"] = {"GetUp", "Passive"}
    /\ Abstract!Successors["GetUp"] = {"Passive", "Velocity", "Fallen"}
    /\ Abstract!Successors["Mimic"] = {"Passive", "Velocity"}
BY DEF Abstract!Successors, Abstract!Modes

\* The checks of a state choose one of its successors, or stay.
LEMMA ChosenIsSuccessor ==
    ASSUME TypeOK, NEW tilt, NEW early \in BOOLEAN, Chosen(tilt, early) # mode
    PROVE  Chosen(tilt, early) \in Abstract!Successors[mode]
<1>1. mode \in Modes
  BY DEF TypeOK
<1>2. CASE mode = "Passive"
  BY <1>2, SuccessorsAre DEF Chosen
<1>3. CASE mode = "FixStand"
  BY <1>3, SuccessorsAre DEF Chosen
<1>4. CASE mode = "Velocity"
  BY <1>4, SuccessorsAre DEF Chosen
<1>5. CASE mode = "Fallen"
  BY <1>5, SuccessorsAre DEF Chosen
<1>6. CASE mode = "GetUp"
  BY <1>6, SuccessorsAre DEF Chosen
<1>7. CASE mode = "Mimic"
  BY <1>7, SuccessorsAre DEF Chosen
<1>8. QED
  BY <1>1, <1>2, <1>3, <1>4, <1>5, <1>6, <1>7 DEF Modes

\* No policy thread outlives its state: only Join changes the state, and it waits
\* for the thread; only Enter starts one, when there is none.
LEMMA NextThreads == CtrlInv /\ [Next]_vars => ThreadsBelongToMode'
<1> SUFFICES ASSUME CtrlInv, [Next]_vars PROVE ThreadsBelongToMode'
  OBVIOUS
<1>1. ThreadsBelongToMode /\ TypeOK
  BY DEF CtrlInv, TypeInv
<1>2. CASE RunTick \/ CheckTick
  BY <1>1, <1>2 DEF RunTick, CheckTick, Run, Check, ThreadsBelongToMode
<1>3. CASE Join
  BY <1>1, <1>3 DEF Join, ThreadsBelongToMode, TypeOK
<1>4. CASE Enter
  <2>1. stage = "enter" /\ stage' = "run" /\ mode' = mode
    BY <1>4 DEF Enter, EnterPassive, EnterFixStand, EnterVelocity, EnterMimic,
                EnterGetUp, EnterGetUpFails, EnterStage
  <2>2. \A m \in PolicyModes : m # mode => thread'[m] = thread[m]
    BY <1>1, <1>4 DEF Enter, EnterPassive, EnterFixStand, EnterVelocity, EnterMimic,
                EnterGetUp, EnterGetUpFails, StartPolicy, TypeOK
  <2>3. QED
    BY <1>1, <2>1, <2>2 DEF ThreadsBelongToMode
<1>5. CASE (\E m \in {"Velocity", "Mimic"} : PolicyThread(m)) \/ RecoveryThread
  <2>1. \E m \in PolicyModes, from \in ThreadStages \ {"none"}, to \in ThreadStages :
            ThreadStep(m, from, to)
    BY <1>5 DEF PolicyThread, PolicyLoop, PolicyReset, PolicyStep, PolicyWrite,
       PolicyThrows, RecoveryThread, RecoveryReset, RecoveryStep,
       RecoveryStepFails, RecoverySample, RecoveryReport, RecoveryStop,
       PolicyModes, ThreadStages
  <2>2. \A m \in PolicyModes : thread'[m] # "none" => thread[m] # "none"
    BY <1>1, <2>1 DEF ThreadStep, TypeOK
  <2>3. UNCHANGED fsmVars
    BY <1>5, FrameOfThreads
  <2>4. QED
    BY <1>1, <2>2, <2>3 DEF fsmVars, ThreadsBelongToMode
<1>6. CASE StateLink \/ UNCHANGED vars
  BY <1>1, <1>6 DEF StateLink, vars, fsmVars, ThreadsBelongToMode
<1>7. QED
  BY <1>2, <1>3, <1>4, <1>5, <1>6 DEF Next, FSMThread

\* Check chooses a successor; no other step sets stage to "exit".
LEMMA NextLeaving == CtrlInv /\ [Next]_vars => Leaving'
<1> SUFFICES ASSUME CtrlInv, [Next]_vars PROVE Leaving'
  OBVIOUS
<1>1. Leaving
  BY DEF CtrlInv
<1>2. CASE RunTick \/ Join
  BY <1>1, <1>2 DEF RunTick, Run, Join, Leaving
<1>3. ASSUME NEW tilt \in Tilts, NEW early \in BOOLEAN, Check(tilt, early)
      PROVE  Leaving'
  <2>1. target' # mode => target' \in Abstract!Successors[mode]
    BY <1>3, ChosenIsSuccessor DEF Check, CtrlInv, TypeInv
  <2>2. QED
    BY <1>3, <2>1 DEF Check, Leaving
<1>4. CASE Enter
  BY <1>1, <1>4 DEF Enter, EnterPassive, EnterFixStand, EnterVelocity, EnterMimic,
                    EnterGetUp, EnterGetUpFails, EnterStage, Leaving
<1>5. CASE UNCHANGED fsmVars
  BY <1>1, <1>5 DEF fsmVars, Leaving
<1>6. QED
  BY <1>2, <1>3, <1>4, <1>5, FrameOfThreads DEF Next, FSMThread, CheckTick

\* Only Enter changes the gains, to those of the state.
LEMMA NextDriving == CtrlInv /\ [Next]_vars => Driving'
<1> SUFFICES ASSUME CtrlInv, [Next]_vars PROVE Driving'
  OBVIOUS
<1>1. mode \in Modes /\ cmd \in Commands /\ Driving /\ Leaving
  BY DEF CtrlInv, TypeInv, TypeOK
<1>2. CASE RunTick
  BY <1>1, <1>2 DEF RunTick, Run, Driving, Commands
<1>3. CASE CheckTick
  BY <1>1, <1>3 DEF CheckTick, Check, Driving
<1>4. CASE Join
  <2>1. /\ cmd' = cmd /\ stage' = "enter" /\ mode' \in Abstract!Successors[mode]
        /\ cmd.gains \in Abstract!GainsOf(mode)
    BY <1>1, <1>4 DEF Join, Leaving, Driving
  <2>2. mode' = "GetUp" => mode \in {"Passive", "FixStand", "Fallen"}
    BY <1>1, <2>1, SuccessorsAre DEF Modes
  <2>3. QED
    BY <2>1, <2>2 DEF Driving, Abstract!GainsOf
<1>5. CASE EnterPassive
  BY <1>1, <1>5 DEF EnterPassive, EnterStage, Driving, Commands, Abstract!GainsOf
<1>6. CASE EnterFixStand
  BY <1>1, <1>6 DEF EnterFixStand, EnterStage, Driving, Commands, Abstract!GainsOf
<1>7. CASE EnterVelocity
  BY <1>1, <1>7 DEF EnterVelocity, StartPolicy, EnterStage, Driving, Commands,
                    Abstract!GainsOf
<1>8. CASE EnterMimic
  BY <1>1, <1>8 DEF EnterMimic, StartPolicy, EnterStage, Driving, Commands,
                    Abstract!GainsOf
<1>9. CASE EnterGetUp
  BY <1>1, <1>9 DEF EnterGetUp, EnterStage, Driving, Abstract!GainsOf
<1>10. ASSUME NEW loaded \in BOOLEAN, EnterGetUpFails(loaded) PROVE Driving'
  BY <1>1, <1>10 DEF EnterGetUpFails, EnterStage, Driving, Abstract!GainsOf
<1>11. CASE UNCHANGED fsmVars
  BY <1>1, <1>11 DEF fsmVars, Driving
<1>12. QED
  BY <1>2, <1>3, <1>4, <1>5, <1>6, <1>7, <1>8, <1>9, <1>10, <1>11, FrameOfThreads
     DEF Next, FSMThread, Enter

\* Run aims the command, a GetUp that starts does so in its enter() already.
LEMMA NextAiming == CtrlInv /\ [Next]_vars => Aiming'
<1> SUFFICES ASSUME CtrlInv, [Next]_vars PROVE Aiming'
  OBVIOUS
<1>1. /\ mode \in Modes /\ cmd \in Commands /\ Aiming /\ Leaving
      /\ thread \in [PolicyModes -> ThreadStages]
  BY DEF CtrlInv, TypeInv, TypeOK
<1>2. CASE RunTick
  <2>1. stage = "run" /\ stage' = "check" /\ mode' = mode /\ cmd'.q = RunTargets
    BY <1>1, <1>2 DEF RunTick, Run, Commands
  <2>2. CASE mode \in {"Passive", "Fallen", "FixStand"}
    BY <2>1, <2>2 DEF RunTargets, Aiming
  <2>3. CASE mode \in {"Velocity", "Mimic"}
    BY <2>1, <2>3 DEF RunTargets, Aiming
  <2>4. CASE mode = "GetUp"
    BY <1>1, <2>1, <2>4 DEF RunTargets, Aiming
  <2>5. QED
    BY <1>1, <2>2, <2>3, <2>4 DEF Modes
<1>3. CASE CheckTick
  BY <1>1, <1>3 DEF CheckTick, Check, Aiming
<1>4. CASE Join
  <2>1. /\ stage = "exit" /\ stage' = "enter" /\ cmd' = cmd
        /\ mode' \in Abstract!Successors[mode]
    BY <1>1, <1>4 DEF Join, Leaving
  <2>2. CASE mode \in {"Passive", "Fallen"}
    BY <1>1, <2>1, <2>2, SuccessorsAre DEF Aiming, From
  <2>3. CASE mode = "FixStand"
    BY <1>1, <2>1, <2>3, SuccessorsAre DEF Aiming, From
  <2>4. CASE mode \in {"Velocity", "Mimic"}
    BY <1>1, <2>1, <2>4, SuccessorsAre DEF Aiming
  <2>5. CASE mode = "GetUp"
    BY <1>1, <2>1, <2>5, SuccessorsAre DEF Aiming
  <2>6. QED
    BY <1>1, <2>2, <2>3, <2>4, <2>5 DEF Modes
<1>5. CASE EnterGetUp
  BY <1>5 DEF EnterGetUp, EnterStage, Aiming
<1>6. CASE Enter /\ ~EnterGetUp
  <2>1. stage' = "run" /\ mode' = mode /\ cmd'.q = cmd.q
    BY <1>1, <1>6 DEF Enter, EnterPassive, EnterFixStand, EnterVelocity, EnterMimic,
       EnterGetUpFails, StartPolicy, EnterStage, Commands
  <2>2. QED
    BY <1>1, <2>1 DEF Aiming
<1>7. CASE UNCHANGED fsmVars
  BY <1>1, <1>7 DEF fsmVars, Aiming
<1>8. QED
  BY <1>2, <1>3, <1>4, <1>5, <1>6, <1>7, FrameOfThreads DEF Next, FSMThread

\* Fallen's enter() disarms the gate; only a sample with A up arms it again.
LEMMA NextReleasing == CtrlInv /\ [Next]_vars => Releasing'
<1> USE DEF Releasing
<1> SUFFICES ASSUME CtrlInv, [Next]_vars PROVE Releasing'
  OBVIOUS
<1>1. Releasing /\ gate \in GateTypes /\ pad \in [down: SUBSET Buttons, edge: SUBSET Buttons]
  BY DEF CtrlInv, TypeInv, TypeOK
<1>2. ASSUME NEW d \in 1 .. GateGap + 1, NEW pressed \in Presses, Run(d, pressed)
      PROVE  Releasing'
  <2>1. /\ stage = "run" /\ mode' = mode /\ pad'.down = pressed
        /\ upSeen' = (upSeen \/ "A" \notin pressed)
        /\ "A" \in pressed => gate' = Later(gate, d, GateGap)
    BY <1>2 DEF Run, PreRun
  <2>2. Later(gate, d, GateGap).armed = gate.armed
    BY <1>1, LaterGate
  <2>3. QED
    BY <1>1, <2>1, <2>2
<1>3. ASSUME NEW tilt \in Tilts, NEW early \in BOOLEAN, Check(tilt, early)
      PROVE  Releasing'
  <2> SUFFICES ASSUME mode' = "Fallen", gate'.armed PROVE upSeen'
    BY <1>3 DEF Check
  <2>1. /\ stage = "check" /\ mode = "Fallen" /\ upSeen' = upSeen
        /\ gate' = GateNext(gate, Requested, tilt)
    BY <1>3 DEF Check, GateAsked
  <2>2. CASE gate.armed
    BY <1>1, <2>1, <2>2
  <2>3. CASE ~Requested
    BY <1>1, <2>1, <2>3 DEF Requested
  <2>4. CASE ~gate.armed /\ Requested
    <3>1. gate' = IF tilt = "invalid" THEN Unstamped(ResetPending(gate))
                  ELSE Stamped(gate)
      <4>1. GateNext(gate, TRUE, tilt) =
              IF tilt = "invalid" THEN Unstamped(ResetPending(gate)) ELSE Stamped(gate)
        BY <2>4 DEF GateNext, GateFires
      <4>2. Requested = TRUE
        BY <2>4 DEF Requested
      <4>3. QED
        BY <2>1, <4>1, <4>2
    <3>2. ResetPending(gate) \in GateTypes /\ ResetPending(gate).armed = gate.armed
      BY <1>1, GateRewrites
    <3>3. Unstamped(ResetPending(gate)).armed = gate.armed
      BY <3>2, GateRewrites
    <3>4. Stamped(gate).armed = gate.armed
      BY <1>1, GateRewrites
    <3>5. gate'.armed = gate.armed
      BY <3>1, <3>3, <3>4
    <3>6. QED
      BY <2>4, <3>5, Zenon
  <2>5. QED
    BY <2>2, <2>3, <2>4
<1>4. CASE Join
  BY <1>4 DEF Join
<1>5. CASE EnterPassive
  <2> SUFFICES ASSUME mode = "Fallen" PROVE ~gate'.armed /\ stage' = "run"
    BY <1>5 DEF EnterPassive, EnterStage
  <2>1. Unstamped(ResetPending(gate)) \in GateTypes
    BY <1>1, GateRewrites
  <2>2. QED
    BY <1>5, <2>1 DEF EnterPassive, EnterStage, GateRequireRelease, GateTypes
<1>6. CASE Enter /\ ~EnterPassive
  BY <1>6 DEF Enter, EnterFixStand, EnterVelocity, EnterMimic, EnterGetUp,
              EnterGetUpFails, EnterStage
<1>7. CASE UNCHANGED fsmVars
  BY <1>1, <1>7 DEF fsmVars
<1>8. QED
  BY <1>2, <1>3, <1>4, <1>5, <1>6, <1>7, FrameOfThreads
     DEF Next, FSMThread, RunTick, CheckTick

\* A session of GetUp that starts holds the joints; only its thread replaces them,
\* and it reports a success only when the monitor has decided so.
LEMMA NextRecovering == CtrlInv /\ [Next]_vars => Recovering'
<1> USE DEF Recovering
<1> SUFFICES ASSUME CtrlInv, [Next]_vars PROVE Recovering'
  OBVIOUS
<1>1. /\ Recovering /\ Driving /\ ThreadsBelongToMode
      /\ cmd \in Commands /\ thread \in [PolicyModes -> ThreadStages]
  BY DEF CtrlInv, TypeInv, TypeOK
<1>2. CASE RunTick
  <2>1. /\ stage = "run" /\ mode' = mode /\ ready' = ready /\ latest' = latest
        /\ monitor' = monitor /\ cmd'.gains = cmd.gains /\ cmd'.q = RunTargets
        /\ outcome' \in {outcome, "failed"}
    BY <1>1, <1>2 DEF RunTick, Run, Commands
  <2>2. QED
    BY <1>1, <2>1 DEF RunTargets
<1>3. CASE CheckTick
  BY <1>1, <1>3 DEF CheckTick, Check, getUpVars
<1>4. CASE Join
  BY <1>4 DEF Join
<1>5. CASE EnterPassive \/ EnterFixStand \/ EnterVelocity \/ EnterMimic
  BY <1>5 DEF EnterPassive, EnterFixStand, EnterVelocity, EnterMimic, EnterStage
<1>6. CASE EnterGetUp
  BY <1>6 DEF EnterGetUp, EnterStage
<1>7. ASSUME NEW loaded \in BOOLEAN, EnterGetUpFails(loaded) PROVE Recovering'
  BY <1>1, <1>7 DEF EnterGetUpFails, EnterStage, Driving
<1>8. ASSUME NEW m \in {"Velocity", "Mimic"}, PolicyThread(m) PROVE Recovering'
  <2>1. UNCHANGED fsmVars
    BY <1>8, FrameOfThreads
  <2>2. UNCHANGED getUpVars
    BY <1>8 DEF PolicyThread, PolicyLoop, PolicyReset, PolicyStep, PolicyWrite,
                PolicyThrows
  <2>3. QED
    BY <1>1, <2>1, <2>2 DEF fsmVars, getUpVars
<1>9. CASE RecoveryThread
  <2>1. UNCHANGED fsmVars
    BY <1>9, FrameOfThreads
  <2>2. CASE RecoveryStep
    BY <1>1, <2>1, <2>2 DEF RecoveryStep, fsmVars
  <2>3. ASSUME NEW s \in Samples, NEW dt \in 1 .. SampleGap + 1, RecoverySample(s, dt)
        PROVE  Recovering'
    <3>1. monitor.outcome = "succeeded" => monitor' = monitor
      BY <2>3 DEF RecoverySample, MonitorNext
    <3>2. QED
      BY <1>1, <2>1, <2>3, <3>1 DEF RecoverySample, fsmVars
  <2>4. CASE RecoveryReport
    BY <1>1, <2>1, <2>4 DEF RecoveryReport, fsmVars
  <2>5. CASE PolicyLoop("GetUp") \/ RecoveryStepFails \/ RecoveryStop
             \/ \E to \in {"loop", "report"} : RecoveryReset(to)
    BY <1>1, <2>1, <2>5 DEF PolicyLoop, RecoveryStepFails, RecoveryStop,
       RecoveryReset, fsmVars, getUpVars
  <2>6. QED
    BY <1>9, <2>2, <2>3, <2>4, <2>5 DEF RecoveryThread
<1>10. CASE StateLink \/ UNCHANGED vars
  BY <1>1, <1>10 DEF StateLink, vars, fsmVars, getUpVars
<1>11. QED
  BY <1>2, <1>3, <1>4, <1>5, <1>6, <1>7, <1>8, <1>9, <1>10 DEF Next, FSMThread, Enter

\* A session starts with no target of its own published, and its thread only ever
\* replaces a target by a fresh one.
LEMMA NextFreshness == CtrlInv /\ [Next]_vars => Freshness'
<1> USE DEF Freshness
<1> SUFFICES ASSUME CtrlInv, [Next]_vars PROVE Freshness'
  OBVIOUS
<1>1. /\ Freshness /\ Aiming /\ ThreadsBelongToMode
      /\ cmd \in Commands /\ thread \in [PolicyModes -> ThreadStages]
      /\ actions \in [{"Velocity", "Mimic"} -> Ages]
  BY DEF CtrlInv, TypeInv, TypeOK
<1>2. CASE RunTick
  <2>1. /\ mode' = mode /\ UNCHANGED <<thread, actions, episode>>
        /\ cmd'.q = RunTargets
    BY <1>1, <1>2 DEF RunTick, Run, Commands, envVars
  <2>2. mode \in {"Velocity", "Mimic"} =>
          RunTargets.age = IF thread[mode] = "write" THEN "torn" ELSE actions[mode]
    BY DEF RunTargets
  <2>3. QED
    BY <1>1, <2>1, <2>2
<1>3. CASE CheckTick
  BY <1>1, <1>3 DEF CheckTick, Check, envVars
<1>4. CASE Join
  <2>1. UNCHANGED envVars /\ stage' = "enter"
    BY <1>4 DEF Join
  <2>2. thread'["Mimic"] # "reset"
    BY <1>1, <1>4 DEF Join, ThreadsBelongToMode, PolicyModes
  <2>3. QED
    BY <1>1, <2>1, <2>2 DEF envVars
<1>5. CASE EnterPassive \/ EnterFixStand \/ \E loaded \in BOOLEAN : EnterGetUpFails(loaded)
  <2>1. UNCHANGED envVars /\ mode' = mode /\ mode \notin {"Velocity", "Mimic"}
    BY <1>5 DEF EnterPassive, EnterFixStand, EnterGetUpFails, EnterStage
  <2>2. QED
    BY <1>1, <2>1 DEF envVars
<1>6. CASE EnterGetUp
  BY <1>1, <1>6 DEF EnterGetUp, EnterStage, envVars
<1>7. ASSUME NEW m \in {"Velocity", "Mimic"}, StartPolicy(m)
      PROVE  \A n \in {"Velocity", "Mimic"} : actions'[n] # "torn"
  BY <1>1, <1>7 DEF StartPolicy, Aged
<1>8. CASE EnterVelocity
  <2>1. /\ stage = "enter" /\ mode = "Velocity" /\ mode' = "Velocity"
        /\ cmd'.q = cmd.q
    BY <1>1, <1>8 DEF EnterVelocity, EnterStage, StartPolicy, Commands
  <2>2. QED
    BY <1>1, <1>7, <1>8, <2>1 DEF EnterVelocity, Aiming
<1>9. CASE EnterMimic
  <2>1. /\ stage = "enter" /\ mode = "Mimic" /\ mode' = "Mimic"
        /\ cmd'.q = cmd.q /\ episode' = 0
    BY <1>1, <1>9 DEF EnterMimic, EnterStage, StartPolicy, Commands
  <2>2. QED
    BY <1>1, <1>7, <1>9, <2>1 DEF EnterMimic, Aiming
<1>10. ASSUME NEW m \in {"Velocity", "Mimic"}, PolicyThread(m) PROVE Freshness'
  <2>1. UNCHANGED <<mode, stage, cmd>>
    BY <1>10, FrameOfThreads DEF fsmVars
  <2>2. mode = m
    BY <1>1, <1>10 DEF PolicyThread, PolicyLoop, PolicyReset, PolicyStep,
       PolicyWrite, PolicyThrows, ThreadStep, ThreadsBelongToMode, PolicyModes
  <2>3. CASE PolicyLoop(m)
    BY <1>1, <2>1, <2>2, <2>3 DEF PolicyLoop, ThreadStep, envVars, PolicyModes
  <2>4. CASE PolicyReset(m)
    BY <1>1, <2>1, <2>2, <2>4 DEF PolicyReset, ThreadStep, PolicyModes
  <2>5. CASE PolicyStep(m)
    BY <1>1, <2>1, <2>2, <2>5 DEF PolicyStep, ThreadStep, PolicyModes
  <2>6. CASE PolicyWrite(m)
    BY <1>1, <2>1, <2>2, <2>6 DEF PolicyWrite, ThreadStep, PolicyModes
  <2>7. CASE PolicyThrows(m)
    BY <1>1, <2>1, <2>2, <2>7 DEF PolicyThrows, ThreadStep, envVars, PolicyModes
  <2>8. QED
    BY <1>10, <2>3, <2>4, <2>5, <2>6, <2>7 DEF PolicyThread
<1>11. CASE RecoveryThread
  <2>1. UNCHANGED fsmVars
    BY <1>11, FrameOfThreads
  <2>2. UNCHANGED envVars /\ thread["GetUp"] # "none"
    BY <1>11 DEF RecoveryThread, PolicyLoop, RecoveryReset, RecoveryStep,
       RecoveryStepFails, RecoverySample, RecoveryReport, RecoveryStop, ThreadStep
  <2>3. mode = "GetUp"
    BY <1>1, <2>2 DEF ThreadsBelongToMode, PolicyModes
  <2>4. QED
    BY <1>1, <2>1, <2>2, <2>3 DEF fsmVars, envVars
<1>12. CASE StateLink \/ UNCHANGED vars
  BY <1>1, <1>12 DEF StateLink, vars, fsmVars, envVars
<1>13. QED
  BY <1>2, <1>3, <1>4, <1>5, <1>6, <1>8, <1>9, <1>10, <1>11, <1>12
     DEF Next, FSMThread, Enter

-----------------------------------------------------------------------------
(* The theorems *)

\* Before its first tick the process satisfies the invariant.
LEMMA InitInv == Init => CtrlInv
<1> USE GetUpConfigAssumption, CtrlAssumption
<1> SUFFICES ASSUME Init PROVE CtrlInv
  OBVIOUS
<1>1. gate \in GateTypes /\ detector \in DetectorTypes /\ monitor \in MonitorTypes
  <2>1. GateInit \in GateTypes
    BY DEF GateInit, GateTypes
  <2>2. DetectorInit \in DetectorTypes
    BY DEF DetectorInit, DetectorTypes
  <2>3. QED
    BY <2>1, <2>2, ResetMonitor DEF Init
<1>2. cmd \in Commands /\ cmd.gains = "damping" /\ cmd.q.by = "nothing"
  BY DEF Init, NoCommand, From, Commands, Targets, Gains, Ages
<1>3. /\ thread \in [PolicyModes -> ThreadStages]
      /\ running \in [PolicyModes -> BOOLEAN]
      /\ actions \in [{"Velocity", "Mimic"} -> Ages]
      /\ pad \in [down: SUBSET Buttons, edge: SUBSET Buttons]
  BY DEF Init, ThreadStages, Ages
<1>4. TypeInv
  <2>1. MonitorLimit
    BY ResetMonitor DEF Init, MonitorLimit
  <2>2. /\ alive \in BOOLEAN /\ timedOut \in BOOLEAN /\ ready \in BOOLEAN
        /\ upSeen \in BOOLEAN
    BY Zenon DEF Init
  <2>3. /\ mode \in Modes /\ target \in Modes /\ stage \in Stages
        /\ latest \in Ages \cup {"none"} /\ outcome \in Outcomes
    BY Zenon DEF Init, Modes, Stages, Outcomes
  <2>4. episode \in 0 .. MotionSteps + 1
    BY DEF Init
  <2>5. QED
    BY <1>1, <1>2, <1>3, <2>1, <2>2, <2>3, <2>4, Zenon DEF TypeInv, TypeOK
<1>5. ThreadsBelongToMode
  BY DEF Init, ThreadsBelongToMode
<1>6. Leaving /\ Driving /\ Aiming /\ Releasing
  BY <1>2 DEF Init, Leaving, Driving, Aiming, Releasing, Abstract!GainsOf
<1>7. Recovering /\ Freshness
  BY DEF Init, Recovering, Freshness
<1>8. QED
  BY <1>4, <1>5, <1>6, <1>7 DEF CtrlInv

\* The invariant holds throughout every behaviour of the controller process.
THEOREM CtrlSafe == Spec => []CtrlInv
<1>1. CtrlInv /\ [Next]_vars => CtrlInv'
  BY NextType, NextThreads, NextLeaving, NextDriving, NextAiming, NextReleasing,
     NextRecovering, NextFreshness DEF CtrlInv
<1>2. QED
  BY <1>1, InitInv, PTL DEF Spec

\* Type correctness of the controller process.
THEOREM CtrlTypeOK == Spec => []TypeOK
<1>1. CtrlInv => TypeOK
  BY DEF CtrlInv, TypeInv
<1>2. QED
  BY <1>1, CtrlSafe, PTL

\* No policy thread exists outside its state: two never step together.
THEOREM OnePolicyAtATime == Spec => []ThreadsBelongToMode
<1>1. CtrlInv => ThreadsBelongToMode
  BY DEF CtrlInv
<1>2. QED
  BY <1>1, CtrlSafe, PTL

\* Every published command is of one piece.
THEOREM CommandIsCoherent == Spec => []PublishedIsCoherent
<1>1. CtrlInv => PublishedIsCoherent
  <2> SUFFICES ASSUME CtrlInv, stage = "check" PROVE PublishedIsCoherent
    BY DEF PublishedIsCoherent
  <2>1. /\ mode \in Modes /\ cmd \in Commands /\ Driving /\ Aiming /\ Recovering
    BY DEF CtrlInv, TypeInv, TypeOK
  <2>2. CASE mode \in {"Passive", "Fallen"}
    <3>1. cmd.gains = "damping" /\ cmd.q = From("measured")
      BY <2>1, <2>2 DEF Driving, Aiming, Abstract!GainsOf
    <3>2. QED
      BY <2>1, <2>2, <3>1 DEF PublishedIsCoherent, Commands
  <2>3. CASE mode = "FixStand"
    <3>1. cmd.gains = "posture" /\ cmd.q = From("posture")
      BY <2>1, <2>3 DEF Driving, Aiming, Abstract!GainsOf
    <3>2. QED
      BY <2>1, <2>3, <3>1 DEF PublishedIsCoherent, Commands
  <2>4. CASE mode \in {"Velocity", "Mimic"}
    BY <2>1, <2>4 DEF PublishedIsCoherent, Driving, Aiming, Abstract!GainsOf
  <2>5. CASE mode = "GetUp"
    BY <2>1, <2>5 DEF PublishedIsCoherent, Recovering
  <2>6. QED
    BY <2>1, <2>2, <2>3, <2>4, <2>5 DEF Modes
<1>2. QED
  BY <1>1, CtrlSafe, PTL

\* A session that has published a target of its own never falls back to one of an
\* earlier session.
THEOREM NoStaleTargetAgain == Spec => FreshTargetsStay
<1> DEFINE Stays ==
      mode \in {"Velocity", "Mimic"} /\ mode' = mode /\ stage # "enter"
      /\ cmd.q.by = mode /\ cmd.q.age \in {"fresh", "torn"}
      => cmd'.q.age \in {"fresh", "torn"}
<1>1. CtrlInv /\ [Next]_vars => [Stays]_vars
  <2> SUFFICES ASSUME CtrlInv, Next PROVE Stays
    OBVIOUS
  <2>1. cmd \in Commands /\ Freshness
    BY DEF CtrlInv, TypeInv, TypeOK
  <2>2. CASE RunTick
    <3>1. cmd'.q = RunTargets
      BY <2>1, <2>2 DEF RunTick, Run, Commands
    <3>2. QED
      BY <2>1, <3>1 DEF RunTargets, Freshness
  <2>3. CASE CheckTick \/ Join
    BY <2>3 DEF CheckTick, Check, Join
  <2>4. CASE Enter
    BY <2>4 DEF Enter, EnterPassive, EnterFixStand, EnterVelocity, EnterMimic,
                EnterGetUp, EnterGetUpFails, EnterStage
  <2>5. CASE UNCHANGED fsmVars
    BY <2>5 DEF fsmVars
  <2>6. QED
    BY <2>2, <2>3, <2>4, <2>5, FrameOfThreads DEF Next, FSMThread
<1>2. QED
  BY <1>1, CtrlSafe, PTL DEF Spec, FreshTargetsStay

\* Only the checks choose another state.
LEMMA ChecksChoose ==
    ASSUME CtrlInv, Next, stage = "check", target' # mode
    PROVE  \E tilt \in Tilts, early \in BOOLEAN :
              Check(tilt, early) /\ target' = Chosen(tilt, early)
<1>1. target = mode
  BY DEF CtrlInv, Leaving
<1>2. RunTick \/ Join \/ Enter => UNCHANGED target
  BY DEF RunTick, Run, Join, Enter, EnterPassive, EnterFixStand, EnterVelocity,
         EnterMimic, EnterGetUp, EnterGetUpFails, EnterStage
<1>3. CheckTick
  BY <1>1, <1>2, FrameOfThreads DEF Next, FSMThread, fsmVars
<1>4. QED
  BY <1>3 DEF CheckTick, Check

\* A fallen robot is not raised by a press that began before it fell.
THEOREM RecoveryNeedsRelease == Spec => FallenNeedsRelease
<1>1. ASSUME CtrlInv, Next, mode = "Fallen", stage = "check", target' = "GetUp"
      PROVE  upSeen
  <2>1. PICK tilt \in Tilts, early \in BOOLEAN : Chosen(tilt, early) = "GetUp"
    BY <1>1, ChecksChoose
  <2>2. gate.armed
    BY <1>1, <2>1 DEF Chosen, GateFires
  <2>3. QED
    BY <1>1, <2>2 DEF CtrlInv, Releasing
<1>2. CtrlInv /\ [Next]_vars
      => [mode = "Fallen" /\ stage = "check" /\ target' = "GetUp" => upSeen]_vars
  BY <1>1
<1>3. QED
  BY <1>2, CtrlSafe, PTL DEF Spec, FallenNeedsRelease

\* GetUp hands over to Velocity only what its own monitor has judged stable.
THEOREM HandoverWasEarned == Spec => HandoverIsEarned
<1>1. ASSUME CtrlInv, Next, mode = "GetUp", stage = "check", target' = "Velocity"
      PROVE  monitor.outcome = "succeeded"
  <2>1. PICK tilt \in Tilts, early \in BOOLEAN : Chosen(tilt, early) = "Velocity"
    BY <1>1, ChecksChoose
  <2>2. outcome = "succeeded"
    BY <1>1, <2>1 DEF Chosen
  <2>3. QED
    BY <1>1, <2>2 DEF CtrlInv, Recovering
<1>2. CtrlInv /\ [Next]_vars
      => [mode = "GetUp" /\ stage = "check" /\ target' = "Velocity"
            => monitor.outcome = "succeeded"]_vars
  BY <1>1
<1>3. QED
  BY <1>2, CtrlSafe, PTL DEF Spec, HandoverIsEarned

\* The length of an earlier dance never ends a new one.
THEOREM DanceHasBegun == Spec => DanceEndsByItsOwnLength
<1>1. ASSUME CtrlInv, Next, mode = "Mimic", stage = "check",
             target' = "Velocity", ~Drive
      PROVE  thread["Mimic"] # "reset"
  <2>1. PICK tilt \in Tilts, early \in BOOLEAN : Chosen(tilt, early) = "Velocity"
    BY <1>1, ChecksChoose
  <2>2. episode > MotionSteps
    BY <1>1, <2>1 DEF Chosen, MotionOver
  <2>3. QED
    BY <1>1, <2>2, CtrlAssumption DEF CtrlInv, Freshness
<1>2. CtrlInv /\ [Next]_vars
      => [mode = "Mimic" /\ stage = "check" /\ target' = "Velocity" /\ ~Drive
            => thread["Mimic"] # "reset"]_vars
  BY <1>1
<1>3. QED
  BY <1>2, CtrlSafe, PTL DEF Spec, DanceEndsByItsOwnLength

\* FixStand interpolates from measured joint positions.
THEOREM StandsUpFromRest == Spec => StandsUpFromMeasured
<1>1. CtrlInv /\ [Next]_vars => [EnterFixStand => cmd.q = From("measured")]_vars
  BY DEF CtrlInv, Aiming, EnterFixStand, EnterStage
<1>2. QED
  BY <1>1, CtrlSafe, PTL DEF Spec, StandsUpFromMeasured

\* The controller process implements ControlModes.
THEOREM CtrlImplements == Spec => Implements
<1>1. Init => Abstract!Init
  BY DEF Init, NoCommand, Abstract!Init
<1>2. CtrlInv /\ [Next]_vars => [Abstract!Next]_(Abstract!vars)
  <2> SUFFICES ASSUME CtrlInv, [Next]_vars PROVE [Abstract!Next]_(Abstract!vars)
    OBVIOUS
  <2>1. mode \in Modes /\ cmd \in Commands /\ Driving /\ Leaving
    BY DEF CtrlInv, TypeInv, TypeOK
  <2>2. CASE RunTick
    BY <2>1, <2>2 DEF RunTick, Run, Commands, Abstract!vars
  <2>3. CASE CheckTick
    BY <2>3 DEF CheckTick, Check, Abstract!vars
  <2>4. CASE Join
    <3>1. Abstract!Leave(target)
      BY <2>1, <2>4 DEF Join, Leaving, Abstract!Leave
    <3>2. target \in Abstract!Modes
      BY <2>4 DEF Join, CtrlInv, TypeInv, TypeOK, Modes, Abstract!Modes
    <3>3. QED
      BY <3>1, <3>2 DEF Abstract!Next
  <2>5. CASE Enter
    <3>1. /\ stage = "enter" /\ stage' = "run" /\ mode' = mode
          /\ cmd'.gains \in Abstract!GainsOf(mode)
      <4>1. stage = "enter" /\ stage' = "run" /\ mode' = mode
        BY <2>5 DEF Enter, EnterPassive, EnterFixStand, EnterVelocity, EnterMimic,
                    EnterGetUp, EnterGetUpFails, EnterStage
      <4>2. Driving'
        BY NextDriving
      <4>3. QED
        BY <4>1, <4>2 DEF Driving
    <3>2. mode # "GetUp" \/ cmd'.gains \in {mode, cmd.gains}
      BY <2>5 DEF Enter, EnterPassive, EnterFixStand, EnterVelocity, EnterMimic,
                  EnterGetUp, EnterGetUpFails
    <3>3. Abstract!Settle(cmd'.gains)
      BY <3>1, <3>2 DEF Abstract!Settle
    <3>4. cmd'.gains \in UNION {Abstract!GainsOf(m) : m \in Abstract!Modes}
      BY <2>1, <3>1 DEF Modes, Abstract!Modes
    <3>5. QED
      BY <3>3, <3>4 DEF Abstract!Next
  <2>6. CASE UNCHANGED fsmVars
    BY <2>6 DEF fsmVars, Abstract!vars
  <2>7. QED
    BY <2>2, <2>3, <2>4, <2>5, <2>6, FrameOfThreads DEF Next, FSMThread
<1>3. QED
  BY <1>1, <1>2, CtrlSafe, PTL DEF Spec, Implements, Abstract!Spec

\* Whenever a command can be published its gains are those of the state.
THEOREM MotorsFollowTheState == Spec => []Abstract!DrivenByMode
<1>1. CtrlInv => Abstract!DrivenByMode
  BY DEF CtrlInv, Driving, Abstract!DrivenByMode
<1>2. QED
  BY <1>1, CtrlSafe, PTL

\* No published target outlives its session.
THEOREM TargetsStay == Spec => TargetsAreOfThisSession
<1>1. QED
  BY NoStaleTargetAgain, StandsUpFromRest, PTL DEF TargetsAreOfThisSession

\* No change of state is decided by an earlier visit.
THEOREM ChangesWereEarned == Spec => ChangesAreEarned
<1>1. QED
  BY RecoveryNeedsRelease, HandoverWasEarned, DanceHasBegun, PTL DEF ChangesAreEarned
=============================================================================
