----------------------------- MODULE SimJoystick -----------------------------
(***************************************************************************)
(* The simulator's joystick reader (configured_joystick.cc, joystick.cc).  *)
(* The bridge's thread calls update() in each of its rounds: the events    *)
(* are drained into a snapshot, which a profile maps to the outputs.  A    *)
(* lost device is neutral once, and update() does nothing after it.        *)
(*                                                                         *)
(* Unlike the robot's reader it takes a source it has no place for, and    *)
(* any error but the loss of the device, for a fault: update() throws and  *)
(* the bridge reads no more.                                               *)
(***************************************************************************)
EXTENDS Integers, Sequences

CONSTANTS
    Limit,   \* the largest deflection of an axis
    MaxQueue \* bound: events the kernel holds

SimAssumption ==
    Limit \in Nat \ {0} /\ MaxQueue \in Nat

VARIABLES
    present,      \* the device is there
    queue,        \* events it produced that were not read
    snapshot,     \* snapshot_: the axis and the button as last read
    at,           \* where update() is
    disconnected, \* disconnected_
    out           \* the UnitreeJoystick

vars == <<present, queue, snapshot, at, disconnected, out>>

Input == INSTANCE InputSource WITH lost <- disconnected

Events == [kind : {"axis"}, value : Input!Deflections] \cup
          [kind : {"button", "beyond"}, value : {0, 1}]

Snapshots == [axis : Input!Deflections, button : {0, 1}]

Init ==
    /\ present = TRUE /\ queue = <<>>
    /\ snapshot = [axis |-> 0, button |-> 0]
    /\ at = "idle" /\ disconnected = FALSE /\ out = Input!Neutral

Produce(event) ==
    /\ present /\ Len(queue) < MaxQueue
    /\ queue' = Append(queue, event)
    /\ UNCHANGED <<present, snapshot, at, disconnected, out>>

Vanish ==
    /\ present /\ present' = FALSE
    /\ queue' \in {queue, <<>>}
    /\ UNCHANGED <<snapshot, at, disconnected, out>>

-----------------------------------------------------------------------------

Update ==
    /\ at = "idle" /\ ~disconnected
    /\ at' = "drain"
    /\ UNCHANGED <<present, queue, snapshot, disconnected, out>>

DrainEvent ==
    /\ at = "drain" /\ queue # <<>> /\ Head(queue).kind # "beyond"
    /\ snapshot' = IF Head(queue).kind = "axis"
                   THEN [snapshot EXCEPT !.axis = Head(queue).value]
                   ELSE [snapshot EXCEPT !.button = Head(queue).value]
    /\ queue' = Tail(queue)
    /\ UNCHANGED <<present, at, disconnected, out>>

\* MapLogicalSnapshot() with a profile that inverts the axis.
Logical(raw) == [axis |-> -raw.axis, button |-> raw.button = 1]

\* Nothing more to read: the snapshot is applied.
Publish ==
    /\ at = "drain" /\ queue = <<>> /\ present
    /\ out' = Input!Followed(Logical(snapshot))
    /\ at' = "idle"
    /\ UNCHANGED <<present, queue, snapshot, disconnected>>

AtLoss == Input!Neutral

\* EOF, ENODEV or EIO, which a driver may report of a device that is there.
Disconnect ==
    /\ at = "drain"
    /\ disconnected' = TRUE
    /\ out' = AtLoss
    /\ at' = "idle"
    /\ UNCHANGED <<present, queue, snapshot>>

Throw ==
    /\ at = "drain"
    /\ present \/ queue # <<>>
    /\ at' = "down"
    /\ UNCHANGED <<present, queue, snapshot, disconnected, out>>

\* A round after the loss.
Skip == at = "idle" /\ disconnected /\ UNCHANGED vars

Round == Update \/ DrainEvent \/ Publish \/ Disconnect \/ Throw \/ Skip

Next == Vanish \/ Round \/ \E event \in Events : Produce(event)

Spec == Init /\ [][Next]_vars

\* The bridge's thread runs, and reading a device that is gone reports it.
FairSpec ==
    /\ Spec
    /\ WF_vars(Update) /\ WF_vars(DrainEvent) /\ WF_vars(Publish)
    /\ WF_vars(Disconnect /\ ~present)

-----------------------------------------------------------------------------
(* Properties *)

TypeOK ==
    /\ present \in BOOLEAN /\ disconnected \in BOOLEAN
    /\ queue \in Seq(Events) /\ snapshot \in Snapshots
    /\ at \in {"idle", "drain", "down"}
    /\ out \in Input!Inputs

\* The outputs follow the device until it is lost, then they are neutral at
\* once and for good, whatever was drained before the loss.
IsInputSource == Input!SourceSpec

\* A device that vanished is noticed, unless the reader met a fault before.
BecomesNeutral ==
    ~present ~> [](at = "down" \/ (disconnected /\ out = Input!Neutral))
=============================================================================
