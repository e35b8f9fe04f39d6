--------------------------- MODULE GamepadProfile ---------------------------
(***************************************************************************)
(* The bindings of a gamepad profile, as src/gamepad_calibrator and the    *)
(* simulator share them through a YAML file: which physical source each    *)
(* logical control reads, when two bindings claim the same source, and     *)
(* what a control reads from the raw values of the device.                 *)
(***************************************************************************)
EXTENDS Integers

CONSTANTS
    Controls,   \* the logical controls; the others stay unsupported
    Axes,       \* axis numbers a profile can name
    Buttons,    \* button numbers a profile can name
    Lowest,     \* the least raw value of an axis: -32768
    Highest     \* the greatest one: 32767

StickControls == {"left_x", "left_y", "right_x", "right_y"}
TriggerControls == {"lt", "rt"}
ButtonControls ==
    {"a", "b", "x", "y", "lb", "rb", "start", "back", "left_stick", "right_stick"}
DpadControls == {"dpad_up", "dpad_down", "dpad_left", "dpad_right"}
RequiredControls ==
    {"left_x", "left_y", "right_x", "dpad_up", "a", "b", "rb", "lt", "rt"}

\* A raw axis is a signed integer of two's complement: one more value below
\* zero than above it.
ASSUME ProfileAssumption ==
    /\ Controls \subseteq StickControls \cup TriggerControls \cup ButtonControls
                          \cup DpadControls
    /\ Axes \subseteq Nat /\ Buttons \subseteq Nat
    /\ Highest \in Nat /\ Highest > 0 /\ Lowest = -Highest - 1

Required == RequiredControls \cap Controls
Opposites == {{"dpad_up", "dpad_down"}, {"dpad_left", "dpad_right"}}
Directions == {"negative", "positive"}

Unsupported == [kind |-> "unsupported", index |-> 0, direction |-> "positive"]

\* direction is the side of the axis that presses the control; a stick with
\* the negative one is inverted, and a button has no side.
OnAxis(kind) == [kind : {kind}, index : Axes, direction : Directions]
OnButton(kind) == [kind : {kind}, index : Buttons, direction : {"positive"}]

\* The kinds of binding a control admits.
BindingsOf(c) ==
    {Unsupported} \cup
    CASE c \in StickControls -> OnAxis("stick")
      [] c \in TriggerControls -> OnAxis("axisTrigger") \cup OnButton("buttonTrigger")
      [] c \in ButtonControls -> OnButton("button")
      [] OTHER -> OnAxis("axisDpad") \cup OnButton("button")

Bindings == UNION {BindingsOf(c) : c \in Controls}

Analog(b) == b.kind \in {"stick", "axisTrigger"}
Digital(b) == b.kind \in {"button", "buttonTrigger"}
Hat(b) == b.kind = "axisDpad"

\* Two directional controls share an axis only as its two ends.
HatClash(c, b, d, e) ==
    /\ Hat(b) /\ Hat(e) /\ b.index = e.index
    /\ b.direction = e.direction \/ {c, d} \notin Opposites

\* Binding b of control c and binding e of control d claim the same source.
Conflict(c, b, d, e) ==
    \/ Analog(b) /\ Analog(e) /\ b.index = e.index
    \/ Digital(b) /\ Digital(e) /\ b.index = e.index
    \/ HatClash(c, b, d, e)

ConflictFree(p) ==
    \A c, d \in Controls : c # d => ~Conflict(c, p[c], d, p[d])

Missing(p) == {c \in Required : p[c] = Unsupported}

-----------------------------------------------------------------------------
(* Reading a control *)

\* normalize_trigger() against the threshold 0.5: past the middle of the
\* range from released to pressed.
TriggerPressed(b, v) ==
    IF b.direction = "positive"
    THEN 2 * (v - Lowest) > Highest - Lowest
    ELSE 2 * (Highest - v) > Highest - Lowest

\* normalize_signed_axis() against the threshold 0.5: each side has its scale.
HatPressed(b, v) ==
    IF b.direction = "negative" THEN 2 * v <= Lowest ELSE 2 * v >= Highest

\* Whether binding b is pressed when the device reads the given values.
Pressed(b, axes, buttons) ==
    CASE Digital(b) -> buttons[b.index] = 1
      [] b.kind = "axisTrigger" -> TriggerPressed(b, axes[b.index])
      [] Hat(b) -> HatPressed(b, axes[b.index])
      [] OTHER -> FALSE

=============================================================================
