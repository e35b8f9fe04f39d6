---------------------------- MODULE QuickMapping ----------------------------
(***************************************************************************)
(* The quick mapping of src/gamepad_calibrator: the operator arms a        *)
(* logical control and the next deliberate gesture on the device becomes   *)
(* its binding.                                                            *)
(*                                                                         *)
(* Two threads meet here.  The pump drains the device without a lock       *)
(* (Drain) and then hands the batch to the QuickMappingEngine under the    *)
(* session's lock (Observe); a web request arms a control under the same   *)
(* lock (Arm), before, between or after the two.  The device's first batch *)
(* begins with the kernel's synthetic INIT events.  Time is counted in     *)
(* ticks no longer than the pump's interval.                               *)
(***************************************************************************)
EXTENDS GamepadProfile, FiniteSets, Sequences

CONSTANTS
    Positions,   \* the raw values the axes take
    StartDelta,  \* AXIS_CAPTURE_START_DELTA
    MinimumPeak, \* AXIS_CAPTURE_MINIMUM_PEAK
    Recenter,    \* AXIS_CAPTURE_RECENTER_DELTA
    CaptureTime, \* AXIS_CAPTURE_WINDOW_SECONDS, in ticks
    MaxEvents,   \* bound: events of a batch that are not INIT
    None

QuickAssumption ==
    /\ Positions \subseteq Lowest .. Highest /\ 0 \in Positions
    /\ StartDelta \in Nat /\ MinimumPeak \in Nat /\ Recenter \in Nat
    /\ CaptureTime \in Nat \ {0} /\ MaxEvents \in Nat
    /\ None \notin Controls

VARIABLES
    device,     \* what the device reads: the reader's arrays once it drained
    drained,    \* the reader has drained its INIT events
    batch,      \* the batch the pump holds between Drain and Observe, or None
    connected,  \* _connected
    axes,       \* _axes
    buttons,    \* _buttons
    bindings,   \* _bindings
    armed,      \* _armed_control
    window,     \* _axis_capture, or None
    status,     \* the status of _capture
    replaced,   \* the controls of _replacement
    pressed,    \* _previous_pressed
    atArm,      \* auxiliary: what the device read when the control was armed
    settled,    \* auxiliary: the engine had seen all of it
    reach,      \* auxiliary: how far each axis went from there since then, or
                \* since the operator was asked to try again
    struck      \* auxiliary: the buttons pressed since then

truth == <<atArm, settled, reach, struck>>
vars == <<device, drained, batch, connected, axes, buttons, bindings, armed,
          window, status, replaced, pressed, truth>>

AxisEvents == [kind : {"axis"}, number : Axes, value : Positions]
ButtonEvents == [kind : {"button"}, number : Buttons, value : {0, 1}]
Events == AxisEvents \cup ButtonEvents
EventLists == UNION {[1 .. n -> Events] : n \in 0 .. MaxEvents}

Devices == [axes : [Axes -> Positions], buttons : [Buttons -> {0, 1}]]
Zeros == [axes |-> [i \in Axes |-> 0], buttons |-> [i \in Buttons |-> 0]]

Deltas == Lowest - Highest .. Highest - Lowest
NoAge == -1
Windows == [baseline : [Axes -> Positions], peaks : [Axes -> Deltas],
            age : NoAge .. CaptureTime, waiting : BOOLEAN]

\* before is what the device read ahead of the events, first says that INIT
\* events reported it.
Batches == [events : EventLists, first : BOOLEAN, before : Devices,
            after : Devices, connected : BOOLEAN]

Abs(n) == IF n < 0 THEN -n ELSE n

Digitals == Controls \ StickControls
PressedIn(p, v) == {c \in Digitals : Pressed(p[c], v.axes, v.buttons)}

Init ==
    /\ device \in Devices /\ drained = FALSE /\ batch = None
    /\ connected = TRUE
    /\ axes = Zeros.axes /\ buttons = Zeros.buttons
    /\ bindings = [c \in Controls |-> Unsupported]
    /\ armed = None /\ window = None /\ status = "idle" /\ replaced = {}
    /\ pressed = {}
    /\ atArm = device /\ settled = FALSE /\ reach = Zeros.axes /\ struck = {}

-----------------------------------------------------------------------------
(* The reader *)

\* The last value an event list gives a source, or else what it had.
Last(events, kind, i, old) ==
    LET at == {k \in DOMAIN events : events[k].kind = kind /\ events[k].number = i}
    IN IF at = {} THEN old
       ELSE events[CHOOSE k \in at : \A j \in at : j <= k].value

After(d, events) ==
    [axes |-> [i \in Axes |-> Last(events, "axis", i, d.axes[i])],
     buttons |-> [i \in Buttons |-> Last(events, "button", i, d.buttons[i])]]

\* What the events say of the device itself, for the auxiliary variables.
Farthest(events, i) ==
    LET went == {reach[i]} \cup
                {Abs(events[k].value - atArm.axes[i]) :
                    k \in {j \in DOMAIN events :
                              events[j].kind = "axis" /\ events[j].number = i}}
    IN CHOOSE n \in went : \A m \in went : m <= n

Struck(d, events) ==
    {i \in Buttons : \E k \in DOMAIN events :
        /\ events[k] = [kind |-> "button", number |-> i, value |-> 1]
        /\ Last([j \in 1 .. k - 1 |-> events[j]], "button", i, d.buttons[i]) = 0}

\* LinuxJoystickReader.drain(): every event the kernel has, until there is no
\* more or the device is gone.
Drain(events, alive) ==
    /\ connected /\ batch = None
    /\ device' = After(device, events)
    /\ drained' = TRUE
    /\ batch' = [events |-> events, first |-> ~drained, before |-> device,
                 after |-> After(device, events), connected |-> alive]
    /\ reach' = [i \in Axes |-> Farthest(events, i)]
    /\ struck' = struck \cup Struck(device, events)
    /\ UNCHANGED <<connected, axes, buttons, bindings, armed, window, status,
                   replaced, pressed, atArm, settled>>

-----------------------------------------------------------------------------
(* Capturing a gesture *)

\* The value a button event replaces.
OldValue(k) ==
    Last([j \in 1 .. k - 1 |-> batch.events[j]], "button", batch.events[k].number,
         IF batch.first THEN batch.before.buttons[batch.events[k].number]
         ELSE buttons[batch.events[k].number])

\* The events of the batch that press a button.
Presses ==
    {k \in DOMAIN batch.events :
        batch.events[k].kind = "button" /\ OldValue(k) = 0 /\ batch.events[k].value = 1}

ButtonBinding(c, i) ==
    [kind |-> IF c \in TriggerControls THEN "buttonTrigger" ELSE "button",
     index |-> i, direction |-> "positive"]

AxisBinding(c, i, delta) ==
    [kind |-> IF c \in StickControls THEN "stick"
              ELSE IF c \in TriggerControls THEN "axisTrigger" ELSE "axisDpad",
     index |-> i,
     direction |-> IF delta < 0 THEN "negative" ELSE "positive"]

\* _set_binding(): the controls that lose their source to the new binding.
Displaced(c, b) == {d \in Controls \ {c} : Conflict(c, b, d, bindings[d])}

\* _complete_capture()
Complete(c, b) ==
    /\ bindings' = [d \in Controls |-> IF d = c THEN b
                                       ELSE IF d \in Displaced(c, b) THEN Unsupported
                                       ELSE bindings[d]]
    /\ replaced' = Displaced(c, b)
    /\ armed' = None /\ window' = None /\ status' = "captured"

\* The greatest excursion of axis i from the baseline, the first of equals.
Peak(i) ==
    LET moves == {k \in DOMAIN batch.events :
                     batch.events[k].kind = "axis" /\ batch.events[k].number = i}
        delta(k) == batch.events[k].value - window.baseline[i]
        farthest == CHOOSE k \in moves : \A j \in moves :
                       Abs(delta(j)) < Abs(delta(k))
                       \/ (Abs(delta(j)) = Abs(delta(k)) /\ k <= j)
    IN IF \E k \in moves : Abs(delta(k)) > Abs(window.peaks[i])
       THEN delta(farthest) ELSE window.peaks[i]

Peaks == [i \in Axes |-> Peak(i)]

\* Axis i leads: the sort by excursion, then by number, puts it first.
Leads(peaks, i, others) ==
    \A j \in others : Abs(peaks[j]) < Abs(peaks[i])
                      \/ (Abs(peaks[j]) = Abs(peaks[i]) /\ i <= j)

\* Mutant: the leading axis need not dominate the others.
Strong(peaks, i) == Abs(peaks[i]) >= MinimumPeak

\* is_dominant
Dominant(peaks, i) ==
    /\ Abs(peaks[i]) >= MinimumPeak
    /\ \A j \in Axes \ {i} : 2 * Abs(peaks[i]) >= 3 * Abs(peaks[j])

KeepBindings == UNCHANGED <<bindings, replaced, armed>>

\* After an ambiguous gesture, wait until every axis is near its baseline.
AwaitNeutral ==
    /\ window.waiting
    /\ IF \A i \in Axes : Abs(batch.after.axes[i] - window.baseline[i]) <= Recenter
       THEN /\ window' = [window EXCEPT !.peaks = [i \in Axes |-> 0],
                                        !.age = NoAge, !.waiting = FALSE]
            /\ status' = "armed"
       ELSE UNCHANGED <<window, status>>
    /\ KeepBindings

\* The window has not seen a gesture yet, or this batch begins one.
AwaitStart ==
    /\ ~window.waiting /\ window.age = NoAge
    /\ LET starts == \E i \in Axes : Abs(Peaks[i]) >= StartDelta
       IN /\ window' = [window EXCEPT !.peaks = Peaks,
                                      !.age = IF starts THEN 0 ELSE NoAge]
          /\ status' = IF starts THEN "collecting" ELSE status
    /\ KeepBindings

\* The window collects, dt ticks after the batch before.
Collect(dt) ==
    /\ ~window.waiting /\ window.age # NoAge /\ window.age + dt < CaptureTime
    /\ window' = [window EXCEPT !.peaks = Peaks, !.age = @ + dt]
    /\ UNCHANGED status
    /\ KeepBindings

\* The window ends: one axis dominates and is captured, or none does.
Decide(dt) ==
    /\ ~window.waiting /\ window.age # NoAge /\ window.age + dt >= CaptureTime
    /\ \E i \in Axes :
          /\ Leads(Peaks, i, Axes)
          /\ IF Dominant(Peaks, i)
             THEN Complete(armed, AxisBinding(armed, i, Peaks[i]))
             ELSE /\ window' = [window EXCEPT !.peaks = Peaks, !.age = CaptureTime,
                                              !.waiting = TRUE]
                  /\ status' = "ambiguous"
                  /\ KeepBindings

CaptureAxis(dt) == AwaitNeutral \/ AwaitStart \/ Collect(dt) \/ Decide(dt)

\* _capture_button_press(): the first press binds the armed control, unless
\* the control is a stick.
CaptureButton ==
    /\ armed \notin StickControls /\ Presses # {}
    /\ LET k == CHOOSE k \in Presses : \A j \in Presses : k <= j
       IN Complete(armed, ButtonBinding(armed, batch.events[k].number))

\* _capture_input()
CaptureInput(dt) ==
    IF armed = None THEN UNCHANGED <<bindings, replaced, armed, window, status>>
    ELSE IF armed \notin StickControls /\ Presses # {} THEN CaptureButton
    ELSE IF armed \in ButtonControls
         THEN UNCHANGED <<bindings, replaced, armed, window, status>>
    ELSE CaptureAxis(dt)

\* A batch that says the device is gone disarms.
Disarm ==
    /\ armed' = None /\ window' = None /\ status' = "idle"
    /\ UNCHANGED <<bindings, replaced>>

\* observe(): the raw values of a device that is gone are zeros.
Observe(dt) ==
    /\ batch # None
    /\ IF batch.connected THEN CaptureInput(dt) ELSE Disarm
    /\ LET seen == IF batch.connected THEN batch.after ELSE Zeros
       IN /\ axes' = seen.axes /\ buttons' = seen.buttons
          /\ pressed' = PressedIn(bindings', seen)
    /\ connected' = batch.connected
    /\ batch' = None
    /\ reach' = IF status = "ambiguous" /\ status' = "armed" THEN Zeros.axes ELSE reach
    /\ UNCHANGED <<device, drained, atArm, settled, struck>>

\* QuickMappingSession.arm()
Arm(c) ==
    /\ connected
    /\ armed' = c /\ status' = "armed" /\ replaced' = {}
    /\ window' = [baseline |-> axes, peaks |-> [i \in Axes |-> 0], age |-> NoAge,
                  waiting |-> FALSE]
    /\ atArm' = device /\ settled' = (drained /\ batch = None)
    /\ reach' = Zeros.axes /\ struck' = {}
    /\ UNCHANGED <<device, drained, batch, connected, axes, buttons, bindings, pressed>>

Pump ==
    \/ \E events \in EventLists, alive \in BOOLEAN : Drain(events, alive)
    \/ \E dt \in 1 .. CaptureTime : Observe(dt)

Next == Pump \/ \E c \in Controls : Arm(c)

Spec == Init /\ [][Next]_vars

\* The pump is a thread that loops every PUMP_INTERVAL_SECONDS.
FairSpec == Spec /\ WF_vars(Pump)

-----------------------------------------------------------------------------
(* Properties *)

TypeOK ==
    /\ device \in Devices /\ drained \in BOOLEAN /\ connected \in BOOLEAN
    /\ batch \in Batches \cup {None}
    /\ axes \in [Axes -> Positions] /\ buttons \in [Buttons -> {0, 1}]
    /\ bindings \in [Controls -> Bindings]
    /\ \A c \in Controls : bindings[c] \in BindingsOf(c)
    /\ armed \in Controls \cup {None}
    /\ window \in Windows \cup {None}
    /\ status \in {"idle", "armed", "collecting", "ambiguous", "captured"}
    /\ replaced \subseteq Controls /\ pressed \subseteq Digitals
    /\ atArm \in Devices /\ settled \in BOOLEAN
    /\ reach \in [Axes -> Nat] /\ struck \subseteq Buttons

\* Whatever was captured and rebound, in whatever order, the draft can be
\* saved as soon as nothing required is missing: no two of its bindings claim
\* one source, which is what build_profile() would refuse.
DraftConflictFree == ConflictFree(bindings)

\* A capture takes sources from no control but those that claimed the very
\* source captured, and a control that is not armed gains none.
OnlyRivalsLose ==
    [][\A c \in Controls : bindings'[c] # bindings[c] =>
          /\ armed # None /\ armed' = None
          /\ c # armed => /\ bindings'[c] = Unsupported
                          /\ c \in replaced'
                          /\ Conflict(armed, bindings'[armed], c, bindings[c])]_vars

\* While a control is armed there is a window for its axes and the page is
\* told so; when none is, there is none.
WindowBelongsToArm ==
    /\ (armed = None) <=> (window = None)
    /\ armed # None <=> status \in {"armed", "collecting", "ambiguous"}
    /\ armed # None => connected
    /\ window # None =>
          status = CASE window.waiting -> "ambiguous"
                     [] ~window.waiting /\ window.age = NoAge -> "armed"
                     [] OTHER -> "collecting"

\* A control armed when the engine had seen all the device said takes only a
\* source that moved since: a button pressed after arming, or an axis that
\* went at least MinimumPeak from where it was and half as far again as any
\* other.
CapturesTheGesture ==
    [][\A c \in Controls :
          armed = c /\ status' = "captured" /\ settled =>
             LET b == bindings'[c]
             IN IF Digital(b) THEN b.index \in struck
                ELSE /\ reach[b.index] >= MinimumPeak
                     /\ \A j \in Axes \ {b.index} :
                           2 * reach[b.index] >= 3 * reach[j]]_vars

\* A gesture that began is decided, even when the device sends nothing more.
GestureIsDecided == (status = "collecting") ~> (status # "collecting")

\* tests/gamepad_calibrator/test_quick_mapping.py:119 says that a control held
\* at arming is not mistaken for a newly chosen source: an axis of a stick that
\* was held to one side when its control was armed, and has only gone back
\* towards the centre since, is not captured.
HeldIsNotChosen ==
    [][\A c \in Controls \cap StickControls :
          armed = c /\ status' = "captured" /\ settled =>
             LET i == bindings'[c].index
             IN Abs(atArm.axes[i]) >= MinimumPeak => reach[i] > Abs(atArm.axes[i])]_vars

\* tests/gamepad_calibrator/test_quick_mapping.py:439 says that disconnecting
\* a held input gives its release: nothing is pressed on a device that is gone.
DisconnectReleases == ~connected => pressed = {}

\* static/quick_app.js:331 asks the operator to return to the centre and try
\* again: an ambiguous gesture ends when every axis is back there.
CentreRetries ==
    [][status = "ambiguous" /\ batch # None /\ batch' = None /\ batch.connected
          /\ (\A i \in Axes : batch.after.axes[i] = 0) => status' # "ambiguous"]_vars

=============================================================================
