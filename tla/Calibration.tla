------------------------------ MODULE Calibration ------------------------------
(***************************************************************************)
(* The guided calibration of src/gamepad_calibrator: CalibrationEngine     *)
(* under its CalibrationSession.                                           *)
(*                                                                         *)
(* The engine first samples the device at rest, then captures one control  *)
(* at a time: it remembers how far every axis went and which buttons       *)
(* changed, offers a source that stayed the strongest, and binds it when   *)
(* the operator confirms.  The pump observes the device (Observe, Lose);   *)
(* requests come between two observations, all under the session's lock.   *)
(* Time is counted in ticks no longer than the pump's interval.            *)
(***************************************************************************)
EXTENDS GamepadProfile, FiniteSets

CONSTANTS
    Positions,    \* the raw values the axes take
    Rests,        \* those they take while the device is sampled at rest
    MinExcursion, \* MIN_AXIS_EXCURSION
    FullRange,    \* MIN_FULL_RANGE_EXCURSION
    StableCount,  \* STABLE_SAMPLE_COUNT
    StableTime,   \* STABLE_SECONDS, in ticks
    None

CalibrationAssumption ==
    /\ Positions \subseteq Lowest .. Highest /\ Rests \subseteq Positions
    /\ MinExcursion \in Nat \ {0, 1} /\ FullRange \in Nat
    /\ StableCount \in Nat \ {0} /\ StableTime \in Nat
    /\ None \notin Controls

VARIABLES
    state,      \* _state
    template,   \* _template_applied
    bindings,   \* _bindings; Unbound where there is no entry
    control,    \* _control
    active,     \* the session's _active_control
    candidate,  \* _candidate: the binding and whether it is ambiguous, or None
    centers,    \* _centers
    noise,      \* _noise
    base,       \* _button_baseline
    axes,       \* _axes
    buttons,    \* _buttons
    least,      \* _capture_min
    most,       \* _capture_max
    changed,    \* _capture_buttons_seen
    stable,     \* _stable_source
    count,      \* _stable_count, up to StableCount
    age,        \* now - _stable_since, up to StableTime
    visited     \* auxiliary: where each axis was since the step began, its
                \* centre included

rest == <<centers, noise, base>>
raw == <<axes, buttons>>
capture == <<least, most, changed, stable, count, age, visited>>
vars == <<state, template, bindings, control, active, candidate, rest, raw, capture>>

Unbound == [kind |-> "unbound", index |-> 0, direction |-> "positive"]
Sources == {<<"axis", i>> : i \in Axes} \cup {<<"button", i>> : i \in Buttons}
Offers == [binding : Bindings, ambiguous : BOOLEAN]
Abs(n) == IF n < 0 THEN -n ELSE n
Larger(m, n) == IF m < n THEN n ELSE m
Smaller(m, n) == IF m < n THEN m ELSE n

\* A profile that validate_profile() accepts.
Usable(p) == ConflictFree(p) /\ Missing(p) = {}

\* The templates of the model bind nothing that is not required.
Templates == {p \in [Controls -> Bindings] :
                 /\ \A c \in Controls : p[c] \in BindingsOf(c)
                 /\ \A c \in Controls \ Required : p[c] = Unsupported
                 /\ Usable(p)}

\* apply_template() precedes the first observation, if it comes at all.
Init ==
    /\ state = "neutral"
    /\ \/ template = FALSE /\ bindings = [c \in Controls |-> Unbound]
       \/ template = TRUE /\ bindings \in Templates
    /\ control = None /\ active = None /\ candidate = None
    /\ centers = [i \in Axes |-> 0] /\ noise = [i \in Axes |-> 0]
    /\ base = [i \in Buttons |-> 0]
    /\ axes = [i \in Axes |-> 0] /\ buttons = [i \in Buttons |-> 0]
    /\ least = centers /\ most = centers /\ changed = {}
    /\ stable = None /\ count = 0 /\ age = 0
    /\ visited = [i \in Axes |-> {0}]

-----------------------------------------------------------------------------
(* Ranking the sources *)

ReadsAxes(c) == c \notin ButtonControls
ReadsButtons(c) == c \notin StickControls

\* The excursion an axis must exceed.
Minimum(i) == Larger(MinExcursion, 4 * noise[i])

Excursion(a, i) == Abs(a[i] - centers[i])

\* _rank_current_sources(): what the device shows now.  A button scores 1, so
\* every axis that counts ranks before every button.
Current(c, a, b) ==
    {s \in Sources :
        \/ s[1] = "axis" /\ ReadsAxes(c) /\ Excursion(a, s[2]) > Minimum(s[2])
        \/ s[1] = "button" /\ ReadsButtons(c) /\ b[s[2]] # base[s[2]]}

Strength(a, s) == IF s[1] = "axis" THEN Excursion(a, s[2]) ELSE 1

\* The first of the ranking, as a set that is empty when nothing counts.
Strongest(c, a, b) ==
    LET current == Current(c, a, b)
    IN {s \in current : \A r \in current :
          \/ Strength(a, s) > Strength(a, r)
          \/ /\ Strength(a, s) = Strength(a, r)
             /\ r[1] = s[1] => s[2] <= r[2]}

\* _axis_score(): how far the axis went in this step.
Score(lo, hi, s) ==
    IF s[1] = "button" THEN 1
    ELSE Larger(Abs(lo[s[2]] - centers[s[2]]), Abs(hi[s[2]] - centers[s[2]]))

\* _historical_sources(): what the device showed in this step.
Historical(c, lo, hi, seen) ==
    {s \in Sources :
        \/ s[1] = "axis" /\ ReadsAxes(c) /\ Score(lo, hi, s) > Minimum(s[2])
        \/ s[1] = "button" /\ ReadsButtons(c) /\ s[2] \in seen}

\* _binding_for_source() has a binding: a stick went far enough both ways.
Complete(c, s, lo, hi) ==
    s[1] = "axis" /\ c \in StickControls =>
        /\ centers[s[2]] - lo[s[2]] >= FullRange
        /\ hi[s[2]] - centers[s[2]] >= FullRange

\* The side of a trigger and of a direction is the one the axis went farther
\* to; the y axes of the sticks are inverted.
BindingFor(c, s, lo, hi) ==
    LET i == s[2]
        under == centers[i] - lo[i]
        over == hi[i] - centers[i]
        side(negative) == IF negative THEN "negative" ELSE "positive"
    IN CASE s[1] = "button" ->
              [kind |-> IF c \in TriggerControls THEN "buttonTrigger" ELSE "button",
               index |-> i, direction |-> "positive"]
         [] s[1] = "axis" /\ c \in StickControls ->
              [kind |-> "stick", index |-> i,
               direction |-> side(c \in {"left_y", "right_y"})]
         [] s[1] = "axis" /\ c \in TriggerControls ->
              [kind |-> "axisTrigger", index |-> i, direction |-> side(under > over)]
         [] OTHER ->
              [kind |-> "axisDpad", index |-> i, direction |-> side(under >= over)]

\* The sources of this step that s does not dominate.
Rivals(c, s, lo, hi, seen) ==
    {r \in Historical(c, lo, hi, seen) \ {s} :
        2 * Score(lo, hi, s) < 3 * Score(lo, hi, r)}

-----------------------------------------------------------------------------
(* Observing the device *)

\* _observe_neutral(), from the first sample to the last: any centre and any
\* noise about it, and a button held for most of the time has baseline 1.
Neutral(center, widest, held) ==
    /\ state = "neutral"
    /\ centers' = center
    /\ noise' = [i \in Axes |-> Abs(widest[i] - center[i])]
    /\ base' = held
    /\ axes' = center /\ buttons' = held
    /\ state' = IF template THEN "review" ELSE "ready"
    /\ UNCHANGED <<template, bindings, control, active, candidate, capture>>

\* _reset_stability()
ResetStability == stable' = None /\ count' = 0 /\ candidate' = None /\ UNCHANGED age

\* The ticks the source has been the strongest for.
Ages(source, dt) == IF source = stable THEN Smaller(age + dt, StableTime) ELSE 0

Counts(source) == IF source = stable THEN Smaller(count + 1, StableCount) ELSE 1

\* The strongest source is counted, and offered once it is stable.
Follow(source, dt) ==
    /\ stable' = source
    /\ count' = Counts(source)
    /\ age' = Ages(source, dt)
    /\ candidate' =
          IF /\ count' = StableCount /\ age' = StableTime
             /\ Complete(control, source, least', most')
          THEN [binding |-> BindingFor(control, source, least', most'),
                ambiguous |-> Rivals(control, source, least', most', changed') # {}]
          ELSE None

\* observe() while a control is captured, dt ticks after the observation before.
Observe(a, b, dt) ==
    /\ state = "capturing"
    /\ axes' = a /\ buttons' = b
    /\ least' = [i \in Axes |-> Smaller(least[i], a[i])]
    /\ most' = [i \in Axes |-> Larger(most[i], a[i])]
    /\ changed' = changed \cup {i \in Buttons : b[i] # base[i]}
    /\ visited' = [i \in Axes |-> visited[i] \cup {a[i]}]
    /\ \/ Strongest(control, a, b) = {} /\ ResetStability
       \/ \E source \in Strongest(control, a, b) : Follow(source, dt)
    /\ UNCHANGED <<state, template, bindings, control, active, rest>>

\* observe() of a batch that says the device is gone, or of a failed drain.
Lose ==
    /\ state # "disconnected"
    /\ state' = "disconnected" /\ candidate' = None
    /\ UNCHANGED <<template, bindings, control, active, rest, raw, capture>>

-----------------------------------------------------------------------------
(* The operator's requests *)

\* Mutant: what the axes did in the step before is kept.
CaptureOn(c) ==
    /\ state' = "capturing" /\ control' = c /\ active' = c /\ candidate' = None
    /\ changed' = {} /\ stable' = None /\ count' = 0 /\ age' = 0
    /\ UNCHANGED <<least, most>>
    /\ visited' = [i \in Axes |-> {centers[i]}]

\* _start_capture()
StartCapture(c) ==
    /\ state' = "capturing" /\ control' = c /\ active' = c /\ candidate' = None
    /\ least' = centers /\ most' = centers /\ changed' = {}
    /\ stable' = None /\ count' = 0 /\ age' = 0
    /\ visited' = [i \in Axes |-> {centers[i]}]

BeginStep(c) ==
    /\ state \in {"ready", "review"}
    /\ StartCapture(c)
    /\ UNCHANGED <<template, bindings, rest, raw>>

\* _validate_source_available()
Available(c, b) == \A d \in Controls \ {c} : ~Conflict(c, b, d, bindings[d])

\* The step of control c ends in review, bound to b.
Conclude(c, b) ==
    /\ bindings' = [bindings EXCEPT ![c] = b]
    /\ state' = "review" /\ control' = None /\ candidate' = None /\ active' = None
    /\ UNCHANGED <<template, rest, raw, capture>>

\* confirm() of the step's own control, without an override.
Confirm ==
    /\ state = "capturing" /\ candidate # None /\ ~candidate.ambiguous
    /\ Available(control, candidate.binding)
    /\ Conclude(control, candidate.binding)

\* confirm() with a binding the operator wrote, within the device's sources.
Override ==
    /\ state = "capturing"
    /\ \E b \in BindingsOf(control) \ {Unsupported} :
          Available(control, b) /\ Conclude(control, b)

\* redo() drops the control's binding, whatever is being captured.
Redo(c) ==
    /\ state \in {"ready", "review", "capturing"}
    /\ bindings' = [bindings EXCEPT ![c] = Unbound]
    /\ StartCapture(c)
    /\ UNCHANGED <<template, rest, raw>>

\* Mutant: the step of another control goes on.
MarkBeside(c) ==
    /\ state \in {"ready", "review", "capturing"} /\ c \notin Required
    /\ bindings' = [bindings EXCEPT ![c] = Unsupported]
    /\ state' = "review" /\ active' = None /\ candidate' = None
    /\ control' = IF control = c THEN None ELSE control
    /\ UNCHANGED <<template, rest, raw, capture>>

\* mark_unsupported() ends the step of any control.
MarkUnsupported(c) ==
    /\ state \in {"ready", "review", "capturing"} /\ c \notin Required
    /\ Conclude(c, Unsupported)

Operator ==
    \/ \E c \in Controls : BeginStep(c) \/ Redo(c) \/ MarkUnsupported(c)
    \/ Confirm \/ Override

Pump ==
    \/ \E center, widest \in [Axes -> Rests], held \in [Buttons -> {0, 1}] :
          Neutral(center, widest, held)
    \/ \E a \in [Axes -> Positions], b \in [Buttons -> {0, 1}], dt \in 1 .. StableTime :
          Observe(a, b, dt)
    \/ Lose

Next == Operator \/ Pump

Spec == Init /\ [][Next]_vars

\* The pump is a thread that loops every PUMP_INTERVAL_SECONDS.
FairSpec == Spec /\ WF_vars(Pump)

-----------------------------------------------------------------------------
(* Properties *)

TypeOK ==
    /\ state \in {"neutral", "ready", "capturing", "review", "disconnected"}
    /\ template \in BOOLEAN
    /\ \A c \in Controls : bindings[c] \in BindingsOf(c) \cup {Unbound}
    /\ control \in Controls \cup {None} /\ active \in Controls \cup {None}
    /\ candidate # None => /\ control # None
                           /\ candidate.binding \in BindingsOf(control)
                           /\ candidate.ambiguous \in BOOLEAN
    /\ centers \in [Axes -> Positions \cup {0}] /\ noise \in [Axes -> Nat]
    /\ base \in [Buttons -> {0, 1}] /\ buttons \in [Buttons -> {0, 1}]
    /\ axes \in [Axes -> Positions \cup {0}]
    /\ least \in [Axes -> Positions \cup {0}] /\ most \in [Axes -> Positions \cup {0}]
    /\ changed \subseteq Buttons /\ stable \in Sources \cup {None}
    /\ count \in 0 .. StableCount /\ age \in 0 .. StableTime
    /\ visited \in [Axes -> SUBSET (Positions \cup {0})]

\* A draft with a binding for every control, however its steps were begun,
\* redone, overridden or given up, is one build_profile() can return: what
\* validate_profile() checks of the whole, every confirmation has kept.
CompleteDraftIsUsable ==
    (\A c \in Controls : bindings[c] # Unbound) => Usable(bindings)

\* The session's step is the engine's: the control a confirmation must name is
\* the one it will bind, and there is one exactly while the engine captures.
SessionFollowsEngine ==
    /\ active = control
    /\ state # "disconnected" => (control # None <=> state = "capturing")

Farthest(i) ==
    CHOOSE n \in {Abs(v - centers[i]) : v \in visited[i]} :
        \A v \in visited[i] : Abs(v - centers[i]) <= n

\* What the page offers is what the device holds now: the axis that is now the
\* farthest from its centre, or a button still pressed; a stick has been near
\* both its ends in this step; a direction points where the offered axis itself
\* went farthest in this step.
OfferIsHeld ==
    candidate # None =>
        LET b == candidate.binding
        IN IF Digital(b) THEN buttons[b.index] # base[b.index]
           ELSE /\ Excursion(axes, b.index) > MinExcursion
                /\ \A j \in Axes : Excursion(axes, j) > Excursion(axes, b.index)
                                   => Excursion(axes, j) <= Minimum(j)
                /\ b.kind = "stick" =>
                      \E v, w \in visited[b.index] :
                          centers[b.index] - v >= FullRange /\ w - centers[b.index] >= FullRange
                /\ b.kind # "stick" =>
                      \E v \in visited[b.index] :
                          /\ Abs(v - centers[b.index]) = Farthest(b.index)
                          /\ b.direction = IF v < centers[b.index] THEN "negative"
                                           ELSE "positive"

\* A binding that was confirmed and not written by the operator belongs to a
\* source no other one of this step comes near: no axis went two thirds as far,
\* and beside a button nothing moved that the control could have meant.
\* (An axis that is noisy at rest is left out, as the code leaves it out.)
ConfirmedIsUnrivalled ==
    [][\A c \in Controls :
          control = c /\ Confirm =>
             LET b == bindings'[c]
                 moved == {j \in Axes : ReadsAxes(c) /\ Farthest(j) > Minimum(j)}
             IN IF Digital(b) THEN moved = {} /\ changed = {b.index}
                ELSE \A j \in moved \ {b.index} :
                         2 * Farthest(b.index) >= 3 * Farthest(j)]_vars

\* When the operator gives no more orders and holds one source of the control
\* being captured beyond its minimum (a stick after a full sweep), the page
\* comes to offer something.
HeldIsOffered ==
    \A s \in Sources :
        /\ <>[][~Operator]_vars
        /\ <>[](/\ control # None
                /\ state = "capturing" /\ Current(control, axes, buttons) = {s}
                /\ Complete(control, s, least, most))
        => []<>(candidate # None)

=============================================================================
