---------------------------- MODULE RobotJoystick ----------------------------
(***************************************************************************)
(* The real robot's joystick reader (CustomJoystick.h).  Each tick of the  *)
(* controller polls the device until there is nothing more, then applies   *)
(* what it read to the UnitreeJoystick the conditions of the state machine *)
(* look at (FSMState::pre_run).  The device produces events and may vanish *)
(* at any moment, in the middle of a poll too.                             *)
(***************************************************************************)
EXTENDS Integers, Sequences

CONSTANTS
    Limit,    \* the largest deflection of an axis
    DeadZone, \* deflections below it count as none
    MaxQueue  \* bound: events the kernel holds

RobotAssumption ==
    Limit \in Nat \ {0} /\ DeadZone \in Nat /\ MaxQueue \in Nat

VARIABLES
    present,   \* the device is there
    queue,     \* events it produced that were not read
    connected, \* connected_
    held,      \* axes_ and buttons_
    at,        \* where the tick is
    out        \* the UnitreeJoystick

vars == <<present, queue, connected, held, at, out>>

Input == INSTANCE InputSource WITH lost <- ~connected /\ at # "apply"

\* Beyond: a source the reader has no place for.
Events == [kind : {"axis"}, value : Input!Deflections] \cup
          [kind : {"button", "beyond"}, value : {0, 1}]

Init ==
    /\ present = TRUE /\ queue = <<>> /\ connected = TRUE
    /\ held = Input!Neutral /\ at = "idle" /\ out = Input!Neutral

Produce(event) ==
    /\ present /\ Len(queue) < MaxQueue
    /\ queue' = Append(queue, event)
    /\ UNCHANGED <<present, connected, held, at, out>>

\* What was not read may be lost with the device; a device that returns is
\* another file.
Vanish ==
    /\ present /\ present' = FALSE
    /\ queue' \in {queue, <<>>}
    /\ UNCHANGED <<connected, held, at, out>>

-----------------------------------------------------------------------------

Poll ==
    /\ at = "idle" /\ connected
    /\ at' = "read"
    /\ UNCHANGED <<present, queue, connected, held, out>>

Normalized(n) == IF n < DeadZone /\ n > -DeadZone THEN 0 ELSE n

\* handle_event()
Handled(event) ==
    CASE event.kind = "axis" -> [held EXCEPT !.axis = Normalized(event.value)]
      [] event.kind = "button" -> [held EXCEPT !.button = event.value # 0]
      [] OTHER -> held

ReadEvent ==
    /\ at = "read" /\ queue # <<>>
    /\ held' = Handled(Head(queue))
    /\ queue' = Tail(queue)
    /\ UNCHANGED <<present, connected, at, out>>

\* EAGAIN
ReadNothing ==
    /\ at = "read" /\ queue = <<>> /\ present
    /\ at' = "apply"
    /\ UNCHANGED <<present, queue, connected, held, out>>

Released == Input!Neutral

\* disconnect(): the end of the file, or any error, also of a device that is
\* there.
ReadFails ==
    /\ at = "read"
    /\ connected' = FALSE
    /\ held' = Released
    /\ at' = "apply"
    /\ UNCHANGED <<present, queue, out>>

\* Mutant: the axes fade to neutral as they fade elsewhere.
AppliedSmoothly == Input!Followed(held)

\* Without smoothing when disconnected.
Applied == IF connected THEN Input!Followed(held) ELSE held

Apply ==
    /\ at = "apply"
    /\ out' = Applied
    /\ at' = "idle"
    /\ UNCHANGED <<present, queue, connected, held>>

\* A tick after the loss: poll() returns and the neutral values are applied.
Repeat ==
    /\ at = "idle" /\ ~connected
    /\ out' = Applied
    /\ UNCHANGED <<present, queue, connected, held, at>>

Tick == Poll \/ ReadEvent \/ ReadNothing \/ ReadFails \/ Apply \/ Repeat

Next == Vanish \/ Tick \/ \E event \in Events : Produce(event)

Spec == Init /\ [][Next]_vars

\* The controller's loop ticks, and reading a device that is gone fails.
FairSpec ==
    /\ Spec
    /\ WF_vars(Poll) /\ WF_vars(ReadEvent) /\ WF_vars(ReadNothing) /\ WF_vars(Apply)
    /\ WF_vars(ReadFails /\ ~present)

-----------------------------------------------------------------------------
(* Properties *)

TypeOK ==
    /\ present \in BOOLEAN /\ connected \in BOOLEAN
    /\ queue \in Seq(Events)
    /\ held \in Input!Inputs /\ out \in Input!Inputs
    /\ at \in {"idle", "read", "apply"}

\* The outputs follow the device until it is lost, then they are neutral at
\* once and for good: no axis fades, no button stays held, and no event read
\* before the loss in the same poll is seen.
IsInputSource == Input!SourceSpec

\* A device that vanished is noticed: the outputs become neutral whatever was
\* held and was not read yet.
BecomesNeutral == ~present ~> [](~connected /\ out = Input!Neutral)
=============================================================================
