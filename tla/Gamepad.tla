------------------------------- MODULE Gamepad -------------------------------
(***************************************************************************)
(* The way of a gamepad to the controller, in one run: a profile is        *)
(* validated by its two readers, saved and activated, its joystick is      *)
(* found, and the simulator's reader or the robot's reads it.  The stages  *)
(* follow one another and share no state but the files, which the store    *)
(* has: one of them moves in a behaviour.                                  *)
(***************************************************************************)
EXTENDS ProfileValidation, Sequences

CONSTANTS
    Devices, Ids, IdOf, Requests, MaxWrites, MaxLosses,   \* ProfileStore
    Pads, Slots, Model, Serial, Counts, Wanted, MaxPlugs, \* DeviceDiscovery
    Limit, DeadZone, MaxQueue,                            \* the joystick readers
    None

VARIABLES
    moving,                                              \* the stage that moves
    placed, temp, step, job, turns, acked, sim, active,  \* ProfileStore
    begun, losses,
    slots, plugs, todo, call, opened, read, found,       \* DeviceDiscovery
    outcome, chosen, reader, steady, quiet,
    robotPresent, robotQueue, connected, held, tick,     \* RobotJoystick
    robotOut,
    present, queue, snapshot, at, disconnected, out      \* SimJoystick

storeVars == <<placed, temp, step, job, turns, acked, sim, active, begun, losses>>
discoveryVars == <<slots, plugs, todo, call, opened, read, found, outcome,
                   chosen, reader, steady, quiet>>
robotVars == <<robotPresent, robotQueue, connected, held, tick, robotOut>>
simVars == <<present, queue, snapshot, at, disconnected, out>>

Store == INSTANCE ProfileStore WITH at <- step, chosen <- active
Discovery == INSTANCE DeviceDiscovery WITH at <- call
Robot == INSTANCE RobotJoystick WITH
    present <- robotPresent, queue <- robotQueue, at <- tick, out <- robotOut
Sim == INSTANCE SimJoystick

ASSUME GamepadAssumption ==
    /\ Store!StoreAssumption
    /\ Discovery!DiscoveryAssumption
    /\ Robot!RobotAssumption /\ Robot!Input!InputAssumption /\ Sim!SimAssumption

Stages == {"validation", "store", "discovery", "robot", "sim"}

\* The profile of a behaviour in which it is not validated.
Unread == [c \in Controls |-> Unsupported]

GamepadInit ==
    /\ moving \in Stages
    /\ moving = "validation" \/ profile = Unread
    /\ Init /\ Store!Init /\ Discovery!Init /\ Robot!Init /\ Sim!Init

GamepadNext ==
    \/ /\ moving = "validation" /\ Next
       /\ UNCHANGED <<moving, storeVars, discoveryVars, robotVars, simVars>>
    \/ /\ moving = "store" /\ Store!Next
       /\ UNCHANGED <<moving, vars, discoveryVars, robotVars, simVars>>
    \/ /\ moving = "discovery" /\ Discovery!Next
       /\ UNCHANGED <<moving, vars, storeVars, robotVars, simVars>>
    \/ /\ moving = "robot" /\ Robot!Next
       /\ UNCHANGED <<moving, vars, storeVars, discoveryVars, simVars>>
    \/ /\ moving = "sim" /\ Sim!Next
       /\ UNCHANGED <<moving, vars, storeVars, discoveryVars, robotVars>>

\* As in the specifications of the two readers: the controller ticks, the
\* bridge's thread runs, and reading a device that is gone fails.
GamepadSpec ==
    /\ GamepadInit
    /\ [][GamepadNext]_<<moving, vars, storeVars, discoveryVars, robotVars, simVars>>
    /\ WF_robotVars(moving = "robot" /\ Robot!Poll)
    /\ WF_robotVars(moving = "robot" /\ Robot!ReadEvent)
    /\ WF_robotVars(moving = "robot" /\ Robot!ReadNothing)
    /\ WF_robotVars(moving = "robot" /\ Robot!ReadFails /\ ~robotPresent)
    /\ WF_robotVars(moving = "robot" /\ Robot!Apply)
    /\ WF_simVars(moving = "sim" /\ Sim!Update)
    /\ WF_simVars(moving = "sim" /\ Sim!DrainEvent)
    /\ WF_simVars(moving = "sim" /\ Sim!Publish)
    /\ WF_simVars(moving = "sim" /\ Sim!Disconnect /\ ~present)

\* The two readers of a profile accept exactly the usable ones.
VerdictsAreRight ==
    TypeOK /\ (moving = "validation" => VerdictIsUsable /\ ReadersAgree)

\* A reader of the store finds no file or a whole one, what was acknowledged
\* outlives a power failure, and an active selection resolves (ActiveResolves).
StoreIsSafe ==
    /\ Store!TypeOK
    /\ Store!NeverTorn /\ Store!AcknowledgedIsDurable /\ Store!ActiveResolves

\* The simulator starts on what was activated (StartsOnceActivated, with its two
\* exceptions); the descriptor it takes is of one pad, which is never a choice among equals, and is found on a quiet bus.
SimulatorStarts ==
    /\ Store!StartsOnceActivated
    /\ Discovery!NeverChoosesAmongEquals
    /\ []Discovery!TypeOK
    /\ []Discovery!DescriptorIsOnePad /\ []Discovery!QuietStartSucceeds

\* Either reader's outputs follow the device until it is lost, then they are
\* neutral at once and for good, and a device that vanished is noticed.
LossIsNeutral ==
    /\ []Robot!TypeOK /\ []Sim!TypeOK
    /\ Robot!IsInputSource /\ Robot!BecomesNeutral
    /\ Sim!IsInputSource /\ Sim!BecomesNeutral

=============================================================================
